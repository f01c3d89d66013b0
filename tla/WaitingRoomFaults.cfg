SPECIFICATION Spec
CONSTANTS
    Ticket = {t1, t2}
    Replica = {r1, r2}
    Configs <- OpenBodies
    InitCfg <- QueueCfg
    Start = 59
    MaxTime = 61
    ArrivalEnd = 59
    LeaseTTL = 1
    WaveGrace = 0
    CatchUp = 200
    SweepSec = 30
    BurstSec = 5
    MinPassTTL = 1
    Eager = FALSE
    Budget <- MCBudget
    Crashes = 0
    Stops = 0
    Cuts = 1
    Errors = 1
    Stalls = 1
    Lates = 1
    Flushes = 1
    Confs = 1
    Total = 2
SYMMETRY Symm
INVARIANTS
    TypeOK
    Placement
    NoneStranded
PROPERTY
    ImplementsLine
CHECK_DEADLOCK FALSE
