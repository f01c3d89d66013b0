SPECIFICATION FairSpec
CONSTANTS
    Visitor = {v1}
    Slot = {h1, h2}
    Cap = 2
    Budget <- MCBudget
    Breaks = 1
    Confs = 2
    Lost = 1
PROPERTY
    PollingLearns
CHECK_DEADLOCK FALSE
