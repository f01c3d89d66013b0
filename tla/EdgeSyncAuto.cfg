SPECIFICATION Spec
CONSTANTS
    e1 = e1
    e2 = e2
    Edges <- OneEdge
    Backend = {b1}
    Inputs = {"auto", "state"}
    Modes = {"closed", "auto"}
    Edits = 2
    Faults = 0
INVARIANT
    ManualSticks
