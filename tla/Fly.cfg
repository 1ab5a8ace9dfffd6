CONSTANTS
    PublicHost = PublicHost
    Bare = Bare
    Machines = {m1, m2}
    Clients = {c1, c2}
    NoClient = NoClient
    Environs <- MCEnvirons
    ByHealth = FALSE
    MaxRequests = 4
    MaxLosses = 1
    MaxCrashes = 1
SPECIFICATION FairSpec
INVARIANTS
    ReadsSeeTheirWrites
PROPERTIES
    LiveSessionsAreReached
    EveryRequestIsAnswered
CHECK_DEADLOCK FALSE
