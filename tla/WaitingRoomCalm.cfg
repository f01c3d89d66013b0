SPECIFICATION Spec
CONSTANTS
    Ticket = {t1, t2, t3}
    Replica = {r1, r2}
    Configs <- CloseBodies
    InitCfg <- QueueCfg
    Start = 59
    MaxTime = 62
    ArrivalEnd = 60
    LeaseTTL = 2
    WaveGrace = 0
    CatchUp = 200
    SweepSec = 30
    BurstSec = 5
    MinPassTTL = 1
    Eager = FALSE
    Budget <- MCBudget
    Crashes = 0
    Stops = 1
    Cuts = 1
    Errors = 0
    Stalls = 0
    Lates = 0
    Flushes = 0
    Confs = 1
    Total = 1
SYMMETRY Symm
INVARIANTS
    ActiveCap
    RateBound
    WaveOrder
    DrawOnTime
    NoneStranded
CHECK_DEADLOCK FALSE
