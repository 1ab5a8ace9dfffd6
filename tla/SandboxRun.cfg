\* One module of each kind: CadQuery, a library it imports lazily, a denied one
\* that implements sockets and one that does not.
CONSTANTS
    Modules = {"cadquery", "lazy", "_socket", "pickle"}
    Denied = {"_socket", "pickle"}
    Listed = {"cadquery"}
    Sockets = {"_socket"}
    Resident = {"cadquery", "_socket", "pickle"}
    MaxNesting = 3
    Caps = {1, 2, 3}
    DefaultCap = 2
    Chatter = {"text", "number"}
    Writers = {"whole", "raises", "short"}
    Worlds = {{}, {"nostart", "memory", "crash"}, {"nolimit"}, {"cleaned", "crash"}}
    MaxChatter = 1
SPECIFICATION Spec
INVARIANTS
    OkMeansExported
    CapIsHonoured
    ReportIsTheReply
    
CHECK_DEADLOCK FALSE
