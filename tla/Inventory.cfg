SPECIFICATION FairSpec
CONSTANTS
    a = a
    b = b
    Node = {a, b}
    IP = {1, 2}
    Shapes <- MCShapes
    Moves = {"ready", "draining"}
    Ports = {1}
    Starts <- MCStarts
    Handlers = 2
    Token = {t}
    Machine = {m1, m2}
    Edits = 2
    Faults = 1
INVARIANTS
    InventoryTypeOK
    SeedOnce
    InStep
PROPERTIES
    Deployable
    EmptyIsNoOrder
    TopologyFollows
    TokenFinal
