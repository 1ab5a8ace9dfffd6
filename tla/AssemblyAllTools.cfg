CONSTANTS
    Threads = {t1, t2, t3}
    NoThread = NoThread
    Names = {main, lid, base}
    Main = main
    Codes = {c1}
    NumColours = 1
    MaxParts = 2
    Ids <- MCIds
    ToolsInUse = {"execute_cad", "create_part", "set_active_part", "delete_part", "gen_ai_mesh"}
    Outcomes = {"ok", "unwritten", "failed", "raised", "torn"}
    MaxCalls = 4
SPECIFICATION FairSpec
INVARIANTS
    PartsBound
PROPERTIES
    CreateNeverReplaces
    EveryCallReturns
CHECK_DEADLOCK FALSE
