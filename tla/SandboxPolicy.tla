--------------------------- MODULE SandboxPolicy ----------------------------
(***************************************************************************)
(* The confinement policy inside a sandbox worker: the guards that are     *)
(* installed before the user's code runs, and what they decide.            *)
(*                                                                         *)
(* Paths and modules are classes: what the policy tells apart is where a   *)
(* path resolves to, and which of its lists a module's name is on.         *)
(***************************************************************************)
EXTENDS Integers, Sequences, FiniteSets

CONSTANTS
    Modules,    \* names of top-level modules
    Denied,     \* DENIED_MODULES
    Listed,     \* USER_ALLOWED_MODULES
    Sockets,    \* the modules that implement sockets
    Resident,   \* what importing CadQuery leaves in sys.modules
    MaxNesting  \* bound: path checks inside path checks, the recursion limit

ASSUME SandboxPolicyAssumption ==
    /\ Denied \subseteq Modules /\ Listed \subseteq Modules
    /\ Sockets \subseteq Denied
    /\ Resident \subseteq Modules
    /\ Denied \intersect Listed = {}
    /\ MaxNesting \in Nat \ {0}

VARIABLES
    installed,  \* the guards, in the order of their installation
    modules,    \* sys.modules
    blocked,    \* resident modules whose sockets have been replaced
    checks,     \* the path checks in progress, innermost first
    resolving,  \* _PathPolicy._resolving.active
    effect      \* what the user's code has done last, {} when nothing

policyVars == <<installed, modules, blocked, checks, resolving, effect>>

-----------------------------------------------------------------------------

Guards == {"network", "process", "path", "import"}

\* install_all.
GuardOrder == <<"network", "process", "path", "import">>

Installed(g) == \E i \in DOMAIN installed : installed[i] = g

\* "session"    in the session's directory   "library"  under a read root
\* "elsewhere"  anywhere else
\* "none"       not a path: an open descriptor, or nothing os.fspath takes
Places == {"session", "library", "elsewhere", "none"}

\* seen says whether the guard looks at the path: a wrapped function of os has
\* the positional arguments looked at that its positions name, and no others.
PathOp == [place : Places, write : BOOLEAN, seen : BOOLEAN]

\* A module that is imported, by the statement or by import_module.
ImportOp == [by : {"user", "library"}, route : {"statement", "function"},
             name : Modules]

\* Opening a socket, and every function of _PROCESS_FUNCTIONS.
OtherOp == [place : {"network", "process"}, write : {TRUE}]

PolicyTypeOK ==
    /\ installed \in Seq(Guards)
    /\ modules \subseteq Modules
    /\ blocked \subseteq Sockets
    /\ checks \in Seq(PathOp)
    /\ resolving \in BOOLEAN
    /\ effect \subseteq PathOp \union OtherOp

PolicyInit ==
    /\ installed = <<>>
    /\ modules = Resident
    /\ blocked = {}
    /\ checks = <<>>
    /\ resolving = FALSE
    /\ effect = {}

-----------------------------------------------------------------------------
(* Decisions.                                                              *)

\* _PathPolicy._check: writes go to the session's directory, reads there and
\* to the Python installation.
PathRefused(op) ==
    IF op.write THEN op.place \in {"library", "elsewhere"}
                ELSE op.place = "elsewhere"

\* The deny-list is for everyone, the allow-list for the statements of the
\* user's own file: CadQuery imports lazily.
ImportRefused(op) ==
    \/ op.name \in Denied
    \/ op.route = "statement" /\ op.by = "user" /\ op.name \notin Listed

\* A socket implementation a library still refers to, although it may have
\* been dropped from sys.modules.
OpenSockets == (Resident \intersect Sockets) \ blocked

-----------------------------------------------------------------------------
(* Installation, one guard after the other.                                *)

Install ==
    LET g == GuardOrder[Len(installed) + 1]
    IN /\ Len(installed) < Len(GuardOrder)
       /\ installed' = Append(installed, g)
       /\ blocked' = IF g = "network" THEN modules \intersect Sockets
                                      ELSE blocked
       /\ modules' = IF g = "import" THEN modules \ Denied ELSE modules
       /\ UNCHANGED <<checks, resolving, effect>>

-----------------------------------------------------------------------------
(* Guarded operations.                                                     *)

\* Mutant: the flag is looked at and never raised.
CheckBeginsUnflagged(op) ==
    /\ Installed("path") /\ op.seen
    /\ checks # <<>> => op = [checks[1] EXCEPT !.write = FALSE]
    /\ Len(checks) < MaxNesting
    /\ ~ resolving
    /\ checks' = <<op>> \o checks
    /\ UNCHANGED <<installed, modules, blocked, resolving, effect>>

\* A guarded function checks its path first.  Resolving it calls lstat and
\* readlink, which are guarded themselves; while the flag is up a check
\* returns at once, and what it guards is done.
CheckBegins(op) ==
    /\ Installed("path") /\ op.seen
    /\ checks # <<>> => op = [checks[1] EXCEPT !.write = FALSE]
    /\ IF resolving
       THEN /\ effect' = IF checks = <<>> THEN {op} ELSE effect
            /\ UNCHANGED <<checks, resolving>>
       ELSE /\ checks' = <<op>> \o checks
            /\ resolving' = TRUE
            /\ UNCHANGED effect
    /\ UNCHANGED <<installed, modules, blocked>>

\* Mutant: the flag comes down on the way past the verdict only.
CheckEndsNoFinally ==
    LET op == Head(checks)
    IN /\ checks # <<>>
       /\ checks' = Tail(checks)
       /\ resolving' = PathRefused(op)
       /\ effect' = IF PathRefused(op) THEN {} ELSE {op}
       /\ UNCHANGED <<installed, modules, blocked>>

\* The verdict: the operation is carried out, or a SandboxViolation is raised
\* that the user's code may catch.  Either way the flag comes down.
CheckEnds ==
    LET op == Head(checks)
    IN /\ checks # <<>>
       /\ checks' = Tail(checks)
       /\ resolving' = FALSE
       /\ effect' = IF PathRefused(op) THEN {} ELSE {op}
       /\ UNCHANGED <<installed, modules, blocked>>

\* A path that no guard looks at is used as it is.
Unseen(op) ==
    /\ checks = <<>> /\ ~ op.seen
    /\ effect' = {op}
    /\ UNCHANGED <<installed, modules, blocked, checks, resolving>>

\* An import that is refused raises ImportError and loads nothing.
Import(op) ==
    /\ checks = <<>>
    /\ modules' = IF ImportRefused(op) THEN modules
                                       ELSE modules \union {op.name}
    /\ UNCHANGED <<installed, blocked, checks, resolving, effect>>

\* The functions of os that make processes are replaced by ones that raise; a
\* socket is opened through a module that is still referred to and unblocked.
Other(op) ==
    /\ checks = <<>>
    /\ effect' = IF \/ op.place = "process" /\ ~ Installed("process")
                    \/ op.place = "network" /\ OpenSockets # {}
                 THEN {op} ELSE {}
    /\ UNCHANGED <<installed, modules, blocked, checks, resolving>>

\* What the user's code tries, and the libraries under it.
Attempt ==
    \/ \E op \in PathOp : CheckBegins(op) \/ Unseen(op)
    \/ CheckEnds
    \/ \E op \in ImportOp : Import(op)
    \/ \E op \in OtherOp : Other(op)

-----------------------------------------------------------------------------
(* Properties.                                                             *)

\* "The guarantees it does make", as far as the guards look: of the paths that
\* are given to a guard, writes stay in the session's directory and reads there
\* and in the Python installation, also after violations that were caught; no
\* socket is opened and no process made; no denied module is in sys.modules
\* once the guards are up.  It says nothing of a path that a wrapper does not
\* look at (a keyword argument, the second path of os.link).
Confined ==
    /\ \A op \in effect : op \in PathOp /\ (op.seen => ~ PathRefused(op))
    /\ Installed("import") => modules \intersect Denied = {}

\* Resolving a path ends: a check never waits for a check of its own.
ChecksAreFlat == Len(checks) <= 1

=============================================================================
