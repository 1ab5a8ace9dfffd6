CONSTANTS
    Threads = {t1}
    box = box
    model_ = model
    dashed = dashed
    bracket = bracket
    Parts = {box, assembly}
    Lists <- MCLists
    Bases = {model, dashed}
    Single = Single
    Assembly = assembly
    Paths <- MCPaths
    PathOf <- MCPathOf
    BaseLen <- MCBaseLen
    LabelLen <- MCLabelLen
    ExtLen = 1
    MaxName = 8
    MaxSuffix = 1
    Faults = {"kernel", "delete"}
    MaxCalls = 3
SPECIFICATION ExportsSpec
INVARIANTS
    ListedIsThere
PROPERTY NeverOverwrites
CHECK_DEADLOCK FALSE
