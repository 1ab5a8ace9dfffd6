CONSTANTS
    Threads = {t1, t2, t3}
    NoThread = NoThread
    Names = {main, lid, base}
    Main = main
    Codes = {c1, c2}
    NumColours = 2
    MaxParts = 3
    Ids <- MCIds
    ToolsInUse = {"execute_cad", "create_part", "set_active_part", "delete_part", "gen_ai_mesh"}
    Outcomes = {"ok", "failed"}
    MaxCalls = 5
    Absent = Absent
SYMMETRY ThreadSymmetry
SPECIFICATION CrewSpec
INVARIANTS
    GeometryIsHistory
    ActiveExists
PROPERTIES
    LockedCallsAreAtomic
    ColourIsFreshInTurn
CHECK_DEADLOCK FALSE
