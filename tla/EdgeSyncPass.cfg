SPECIFICATION FairSpec
CONSTANTS
    e1 = e1
    e2 = e2
    Edges <- TwoEdges
    Backend = {b1, b2}
    Inputs = {"state", "sync", "room", "backend", "rotate", "cert", "auto"}
    Modes = {"queue", "auto"}
    Edits = 1
    Faults = 1
INVARIANTS
    EdgeTypeOK
    Settled
    ListedExists
PROPERTIES
    Converges
