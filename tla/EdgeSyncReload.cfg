SPECIFICATION Spec
CONSTANTS
    e1 = e1
    e2 = e2
    Edges <- OneEdge
    Backend = {b1}
    Inputs = {"rotate"}
    Modes = {"queue"}
    Edits = 1
    Faults = 1
INVARIANT
    KeysLoaded
