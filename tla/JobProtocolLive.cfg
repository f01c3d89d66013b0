SPECIFICATION FairSpec
CONSTANTS
    Job = {j1}
    Script = {s1, s2}
    Faults = 2
PROPERTIES
    DepositedFinishes
CHECK_DEADLOCK FALSE
