CONSTANTS
    Threads = {t1, t2}
    NoThread = NoThread
    Sids = {default, a, b}
    Default = default
    Objs = {1, 2, 3, 4}
    Timeout = 1
    MaxTime = 3
    MaxCalls = 4
    ToolsInUse = {"locking", "awaiting", "reset"}
SPECIFICATION FairSpec
INVARIANTS
    InFlightIsKept
PROPERTIES
    DirectoriesAreSessions
    RequestedIsKept
    EveryCallReturns
CHECK_DEADLOCK FALSE
