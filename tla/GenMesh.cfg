CONSTANTS
    PollInterval = 3
    PreviewTimeout = 7
    RefineTimeout = 10
    MaxRetries = 3
    RetryAfterMax = 10
    RetryAfters = {0, 4, 25}
    BaseDelay = 1
    MaxLatency = 3
    MaxSew = 2
    MaxFaces = 4
SPECIFICATION FairSpec
INVARIANTS
    OverrunIsBounded
    ImportsWholeFiles
    RecordFollowsReply
PROPERTIES
    EveryGenerationEnds
CHECK_DEADLOCK FALSE
