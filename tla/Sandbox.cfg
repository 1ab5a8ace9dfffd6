CONSTANTS
    Runs = {r1, r2}
    Spawners <- MCSpawners
    Procs <- MCProcs
    Worlds = {{}, {"die", "unborn", "shutdown"}}
    MaxOps = 3
SPECIFICATION FairSpec
INVARIANTS
    SingleUse
    NoSurvivor
PROPERTIES
    EveryRunEnds
    Replenished
CHECK_DEADLOCK FALSE
