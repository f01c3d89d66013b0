SPECIFICATION Spec
CONSTANTS
    Visitor = {v1, v2}
    Slot = {h1, h2}
    Cap = 1
    Budget <- MCBudget
    Breaks = 1
    Confs = 1
    Lost = 1
SYMMETRY Symm
INVARIANTS
    StreamTypeOK
    OneLiveHub
    OwedInTransit
CHECK_DEADLOCK FALSE
