CONSTANTS
    Threads = {t1, t2, t3}
    NoThread = NoThread
    Gens <- MCGens
    Faults = {"die", "hang", "unborn", "slow", "full"}
    MaxCalls = 3
    MaxChatter = 1
SPECIFICATION FairSpec
INVARIANTS
    OneOperationAtATime
    NoOrphan
    HealthIsHonest
PROPERTIES
    RepliesAreMine
    EveryCallReturns
CHECK_DEADLOCK FALSE
