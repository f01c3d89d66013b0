SPECIFICATION FairSpec
CONSTANTS
    Ticket = {t1, t2}
    Replica = {r1, r2}
    Configs <- RefusedBodies
    InitCfg <- QueueCfg
    Start = 59
    MaxTime = 67
    ArrivalEnd = 59
    LeaseTTL = 2
    WaveGrace = 1
    CatchUp = 200
    SweepSec = 4
    BurstSec = 5
    MinPassTTL = 1
    Eager = TRUE
    Budget <- MCBudget
    Crashes = 1
    Stops = 1
    Cuts = 1
    Errors = 1
    Stalls = 0
    Lates = 0
    Flushes = 0
    Confs = 1
    Total = 1
PROPERTY
    EventuallyAdmitted
CHECK_DEADLOCK FALSE
