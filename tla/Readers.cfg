CONSTANTS
    Threads = {t1, t2}
    Paths = {p1, p2}
    fine = fine
    coarse = coarse
    Tols = {fine, coarse}
    CacheMax = 2
    MaxWrites = 2
    MaxCalls = 4
    Order <- MCOrder
    TolOf <- MCTolOf
    MaxReads = 2
    MaxMoves = 1
SPECIFICATION ReadersSpec
INVARIANTS
    NeverStale
    CacheBounded
    HitIsCurrent
    RepliesAreWhole
SYMMETRY MCSymmetry
CHECK_DEADLOCK FALSE
