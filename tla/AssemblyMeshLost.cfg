CONSTANTS
    Threads = {t1}
    NoThread = NoThread
    Names = {main, lid}
    Main = main
    Codes = {c1}
    NumColours = 2
    MaxParts = 2
    Ids <- MCIds
    ToolsInUse = {"execute_cad", "create_part", "set_active_part", "delete_part", "gen_ai_mesh"}
    Outcomes = {"ok", "failed"}
    MaxCalls = 4
SPECIFICATION Spec
PROPERTY MeshIsNotOverwritten
CHECK_DEADLOCK FALSE
