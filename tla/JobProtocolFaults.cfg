SPECIFICATION Spec
CONSTANTS
    Job = {j1, j2}
    Script = {s1}
    Faults = 2
SYMMETRY Symm
INVARIANTS
    JobTypeOK
    RunsOnce
    VerdictHonest
    NoSilentGhost
PROPERTIES
    DoneIsFinal
CHECK_DEADLOCK FALSE
