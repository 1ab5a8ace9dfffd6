------------------------------ MODULE Assembly ------------------------------
(***************************************************************************)
(* One session's assembly under concurrent tool calls.                     *)
(*                                                                         *)
(* The tools of cad_mcp run on a thread pool, so several of them can be    *)
(* inside one Session at a time.  execute_cad holds the session lock for   *)
(* its whole sandbox run and create_part for its insertion; the others     *)
(* (set_active_part, delete_part, gen_ai_mesh) never take it.  A tool call *)
(* is a sequence of actions of its thread, cut where another thread can    *)
(* see or disturb the state between them.                                  *)
(*                                                                         *)
(* A Part object is an identity in Ids.  Identities are handed out in      *)
(* increasing order, so the order of the identities is the insertion order *)
(* of the `parts` dict.                                                    *)
(***************************************************************************)
EXTENDS Integers, Sequences, FiniteSets

CONSTANTS
    Threads,      \* pool threads (and event-loop tasks) that run tool calls
    NoThread,     \* the value of an unowned lock
    Names,        \* part names a client uses
    Main,         \* the implicit first part, "main"
    Codes,        \* blocks of CadQuery code
    NumColours,   \* Len(DEFAULT_COLORS); a colour is its index in that list
    MaxParts,     \* MAX_PARTS
    Ids,          \* identities of Part objects
    ToolsInUse,   \* the tools the clients of this instance call
    Outcomes,     \* what a sandbox run or a mesh import may come to
    MaxCalls      \* bound: tool calls made in one behaviour

Tools == {"execute_cad", "create_part", "set_active_part", "delete_part",
          "gen_ai_mesh"}

(***************************************************************************)
(* "ok"        the worker reports success and has written its file         *)
(* "unwritten" it reports success but wrote no file, or a short one        *)
(* "failed"    user error, crash or timeout                                *)
(* "raised"    the run cannot be set up: sandbox.run raises (disk full, no *)
(*             process to be had) instead of returning a result            *)
(* "torn"      a mesh import whose file and whose report disagree: it fails *)
(*             while it writes the part's file or afterwards, or it leaves *)
(*             the file short and reports success                          *)
(***************************************************************************)
AllOutcomes == {"ok", "unwritten", "failed", "raised", "torn"}

ASSUME AssemblyAssumption ==
    /\ NoThread \notin Threads
    /\ IsFiniteSet(Names) /\ Main \in Names
    /\ NumColours \in Nat \ {0}
    /\ MaxParts \in Nat \ {0}
    /\ Ids \subseteq Nat \ {0} /\ 1 \in Ids
    /\ ToolsInUse \subseteq Tools
    /\ Outcomes \subseteq AllOutcomes
    /\ MaxCalls \in Nat

VARIABLES
    parts,    \* Session.parts: name -> identity of its Part, 0 when absent
    active,   \* Session.active_part
    heap,     \* identity -> fields of that Part object
    nextId,   \* the identity the next Part object gets
    brep,     \* name -> what the file <name>.brep holds
    lock,     \* the owner of Session.lock
    thr,      \* thread -> frame of the tool call it is in
    calls     \* tool calls begun so far

vars == <<parts, active, heap, nextId, brep, lock, thr, calls>>

-----------------------------------------------------------------------------
(* State.                                                                  *)

Colours == 0 .. (NumColours - 1)
History == Seq(Codes)
Source == {"cadquery", "ai_mesh"}

\* The content of a .brep file: which Part object it was made for, and the
\* code it was built from.
Geometry == [kind: {"none", "code", "mesh", "torn"},
             by: Ids \union {0}, code: History]

NoGeometry == [kind |-> "none", by |-> 0, code |-> <<>>]
Built(id, code) == [kind |-> "code", by |-> id, code |-> code]
Mesh(id) == [kind |-> "mesh", by |-> id, code |-> <<>>]
Torn(id) == [kind |-> "torn", by |-> id, code |-> <<>>]

Part == [history: History, source: Source, colour: Colours, bbox: Geometry]

NewPart(c) ==
    [history |-> <<>>, source |-> "cadquery", colour |-> c,
     bbox |-> NoGeometry]

\* Where a thread is, and the locals that live across two of its steps.
PC == {"idle", "exec_wait", "run", "create_wait", "assign", "unlink",
       "remove", "repoint", "await", "sew", "record"}

Frame == [pc: PC, name: Names, pid: Ids, prev: History, code: History,
          colour: Colours, auto: BOOLEAN]

Idle == [pc |-> "idle", name |-> Main, pid |-> 1, prev |-> <<>>,
         code |-> <<>>, colour |-> 0, auto |-> FALSE]

\* One type invariant.
TypeOK ==
    /\ parts \in [Names -> Ids \union {0}]
    /\ active \in Names
    /\ heap \in [Ids -> Part]
    /\ nextId \in Nat \ {0}
    /\ brep \in [Names -> Geometry]
    /\ lock \in Threads \union {NoThread}
    /\ thr \in [Threads -> Frame]
    /\ calls \in Nat

Live == {n \in Names : parts[n] # 0}

Init ==
    /\ parts = [n \in Names |-> IF n = Main THEN 1 ELSE 0]
    /\ active = Main
    /\ heap = [i \in Ids |-> NewPart(0)]
    /\ nextId = 2
    /\ brep = [n \in Names |-> NoGeometry]
    /\ lock = NoThread
    /\ thr = [t \in Threads |-> Idle]
    /\ calls = 0

-----------------------------------------------------------------------------
(* Frames.  A call that is refused on its first check changes nothing and  *)
(* is not an action.                                                       *)

Call(t, tool, frame) ==
    /\ thr[t] = Idle
    /\ tool \in ToolsInUse
    /\ calls < MaxCalls
    /\ calls' = calls + 1
    /\ thr' = [thr EXCEPT ![t] = frame]

Continue(t, pc) ==
    /\ thr' = [thr EXCEPT ![t].pc = pc]
    /\ UNCHANGED calls

Return(t) ==
    /\ thr' = [thr EXCEPT ![t] = Idle]
    /\ UNCHANGED calls

-----------------------------------------------------------------------------
(* execute_cad                                                             *)

ExecCall(t) ==
    /\ Call(t, "execute_cad", [Idle EXCEPT !.pc = "exec_wait"])
    /\ UNCHANGED <<parts, active, heap, nextId, brep, lock>>

\* The guard of the tool: a mesh part with a history is not run over.
Reproducible(p) == p.source = "cadquery" \/ p.history = <<>>

Runnable == active \in Live /\ Reproducible(heap[parts[active]])

\* mode="replace" starts afresh, mode="append" extends the history.
NewHistory(p, code, mode) ==
    IF mode = "replace" THEN <<code>> ELSE Append(p.history, code)

\* Takes the lock and rewrites the history before the code is run.
ExecBegin(t, code, mode) ==
    LET id == parts[active]
        p == heap[id]
        h == NewHistory(p, code, mode)
    IN /\ thr[t].pc = "exec_wait"
       /\ lock = NoThread
       /\ Runnable
       /\ lock' = t
       /\ heap' = [heap EXCEPT ![id].history = h]
       /\ thr' = [thr EXCEPT ![t].pc = "run", ![t].pid = id,
                             ![t].prev = p.history, ![t].code = h]
       /\ UNCHANGED <<parts, active, nextId, brep, calls>>

\* NotReproducible, or the KeyError of a dangling active_part; either way
\* the lock is taken and given back with nothing changed.
ExecRefuse(t) ==
    /\ thr[t].pc = "exec_wait"
    /\ lock = NoThread
    /\ ~ Runnable
    /\ Return(t)
    /\ UNCHANGED <<parts, active, heap, nextId, brep, lock>>

\* A run that succeeds promotes its staged file onto brep_path(), which is
\* computed from the part that is active by then.
ExecOk(t) ==
    LET f == thr[t]
        g == Built(f.pid, f.code)
    IN /\ f.pc = "run"
       /\ heap' = [heap EXCEPT ![f.pid].bbox = g,
                               ![f.pid].source = "cadquery"]
       /\ \/ /\ "ok" \in Outcomes
             /\ brep' = [brep EXCEPT ![active] = g]
          \/ /\ "unwritten" \in Outcomes
             /\ brep' \in {brep, [brep EXCEPT ![active] = Torn(f.pid)]}
       /\ lock' = NoThread
       /\ Return(t)
       /\ UNCHANGED <<parts, active, nextId>>

\* A run that fails puts the previous history back.
RollBack(t) ==
    /\ thr[t].pc = "run"
    /\ "failed" \in Outcomes
    /\ heap' = [heap EXCEPT ![thr[t].pid].history = thr[t].prev]
    /\ Return(t)
    /\ UNCHANGED <<parts, active, nextId, brep>>

\* Mutant: the lock is not released on the error path.
ExecFailedKeepsLock(t) == RollBack(t) /\ UNCHANGED lock

ExecFailed(t) == RollBack(t) /\ lock' = NoThread

\* An exception out of sandbox.run passes the roll-back by; only the with
\* statement that holds the lock is left in order.
ExecRaised(t) ==
    /\ thr[t].pc = "run"
    /\ "raised" \in Outcomes
    /\ lock' = NoThread
    /\ Return(t)
    /\ UNCHANGED <<parts, active, heap, nextId, brep>>

-----------------------------------------------------------------------------
(* create_part                                                             *)

UsedColours == {heap[parts[n]].colour : n \in Live}
FreeColours == Colours \ UsedColours

\* Mutants: the colours in use are not looked at; the index does not wrap.
ColourByCount == Cardinality(Live) % NumColours
ColourUnwrapped == Cardinality(Live)

\* Session.next_color: the first unused colour, else one by the part count.
NextColour ==
    IF FreeColours # {}
    THEN CHOOSE c \in FreeColours : \A d \in FreeColours : c <= d
    ELSE Cardinality(Live) % NumColours

\* The unlocked checks, and the colour, chosen before the lock is taken.
CreateCall(t, n, c) ==
    /\ n \notin Live
    /\ Cardinality(Live) < MaxParts
    /\ Call(t, "create_part", [Idle EXCEPT !.pc = "create_wait", !.name = n,
                                           !.colour = c])
    /\ UNCHANGED <<parts, active, heap, nextId, brep, lock>>

CreateCallAuto(t, n) ==
    /\ n \notin Live
    /\ Cardinality(Live) < MaxParts
    /\ Call(t, "create_part", [Idle EXCEPT !.pc = "create_wait", !.name = n,
                                           !.colour = NextColour,
                                           !.auto = TRUE])
    /\ UNCHANGED <<parts, active, heap, nextId, brep, lock>>

\* Mutants: one of the two checks is not made again.
InsertAnyName(n) == Cardinality(Live) < MaxParts
InsertAnyNumber(n) == n \notin Live

\* The checks are made again under the lock.
MayInsert(n) == n \notin Live /\ Cardinality(Live) < MaxParts

InsertPart(t) ==
    LET n == thr[t].name
    IN /\ thr[t].pc = "create_wait"
       /\ MayInsert(n)
       /\ nextId \in Ids
       /\ parts' = [parts EXCEPT ![n] = nextId]
       /\ heap' = [heap EXCEPT ![nextId] = NewPart(thr[t].colour)]
       /\ nextId' = nextId + 1
       /\ active' = n
       /\ Return(t)
       /\ UNCHANGED <<brep, lock>>

\* Mutant: the part is inserted without the lock.
CreateInsertUnlocked(t) == InsertPart(t)

CreateInsert(t) == lock = NoThread /\ InsertPart(t)

CreateRefuse(t) ==
    /\ thr[t].pc = "create_wait"
    /\ lock = NoThread
    /\ ~ MayInsert(thr[t].name)
    /\ Return(t)
    /\ UNCHANGED <<parts, active, heap, nextId, brep, lock>>

-----------------------------------------------------------------------------
(* set_active_part: a check and an assignment, neither under the lock.     *)

SetActiveCall(t, n) ==
    /\ n \in Live
    /\ Call(t, "set_active_part", [Idle EXCEPT !.pc = "assign", !.name = n])
    /\ UNCHANGED <<parts, active, heap, nextId, brep, lock>>

SetActiveAssign(t) ==
    /\ thr[t].pc = "assign"
    /\ active' = thr[t].name
    /\ Return(t)
    /\ UNCHANGED <<parts, heap, nextId, brep, lock>>

-----------------------------------------------------------------------------
(* delete_part: check, unlink the file, delete the entry, re-point.        *)

\* Mutant: off by one.
MayDeleteAny(n) == n \in Live /\ Cardinality(Live) >= 1

MayDelete(n) == n \in Live /\ Cardinality(Live) > 1

DeleteCall(t, n) ==
    /\ MayDelete(n)
    /\ Call(t, "delete_part", [Idle EXCEPT !.pc = "unlink", !.name = n])
    /\ UNCHANGED <<parts, active, heap, nextId, brep, lock>>

\* Mutant: the file stays behind.
DeleteLeavesFile(t) ==
    /\ thr[t].pc = "unlink"
    /\ Continue(t, "remove")
    /\ UNCHANGED <<parts, active, heap, nextId, brep, lock>>

DeleteUnlink(t) ==
    /\ thr[t].pc = "unlink"
    /\ brep' = [brep EXCEPT ![thr[t].name] = NoGeometry]
    /\ Continue(t, "remove")
    /\ UNCHANGED <<parts, active, heap, nextId, lock>>

DeleteEntry(t) ==
    /\ thr[t].pc = "remove"
    /\ thr[t].name \in Live
    /\ parts' = [parts EXCEPT ![thr[t].name] = 0]
    /\ Continue(t, "repoint")
    /\ UNCHANGED <<active, heap, nextId, brep, lock>>

\* del raises KeyError when another delete_part was first.
DeleteKeyError(t) ==
    /\ thr[t].pc = "remove"
    /\ thr[t].name \notin Live
    /\ Return(t)
    /\ UNCHANGED <<parts, active, heap, nextId, brep, lock>>

\* next(iter(parts)): the part inserted first.
FirstPart == CHOOSE n \in Live : \A m \in Live : parts[n] <= parts[m]

\* Mutant: active_part is not re-pointed.
DeleteLeavesActive(t) ==
    /\ thr[t].pc = "repoint"
    /\ Return(t)
    /\ UNCHANGED <<parts, active, heap, nextId, brep, lock>>

\* With no part left, next() raises StopIteration and active_part dangles.
DeleteRepoint(t) ==
    /\ thr[t].pc = "repoint"
    /\ active' = IF active = thr[t].name /\ Live # {}
                 THEN FirstPart ELSE active
    /\ Return(t)
    /\ UNCHANGED <<parts, heap, nextId, brep, lock>>

-----------------------------------------------------------------------------
(* gen_ai_mesh: the part is read before the service is awaited, the name   *)
(* of its file after that and before the mesh is sewn into it.             *)

GenCall(t) ==
    /\ active \in Live
    /\ Call(t, "gen_ai_mesh", [Idle EXCEPT !.pc = "await",
                                           !.pid = parts[active]])
    /\ UNCHANGED <<parts, active, heap, nextId, brep, lock>>

GenDownloaded(t) ==
    /\ thr[t].pc = "await"
    /\ thr' = [thr EXCEPT ![t].pc = "sew", ![t].name = active]
    /\ UNCHANGED <<parts, active, heap, nextId, brep, lock, calls>>

\* What an import may make of the file.
Sewn(id) == {Mesh(id)} \union {g \in {Torn(id)} : "torn" \in Outcomes}

\* The service or the import fails.  The import writes the part's own file,
\* so one that fails late leaves it torn or, when it had written it, new.
GenFailed(t) ==
    /\ \/ /\ thr[t].pc \in {"await", "sew"} /\ "failed" \in Outcomes
          /\ UNCHANGED brep
       \/ /\ thr[t].pc = "sew" /\ "torn" \in Outcomes
          /\ \E g \in Sewn(thr[t].pid) :
                brep' = [brep EXCEPT ![thr[t].name] = g]
    /\ Return(t)
    /\ UNCHANGED <<parts, active, heap, nextId, lock>>

GenSew(t) ==
    /\ thr[t].pc = "sew"
    /\ \E g \in Sewn(thr[t].pid) : brep' = [brep EXCEPT ![thr[t].name] = g]
    /\ Continue(t, "record")
    /\ UNCHANGED <<parts, active, heap, nextId, lock>>

GenRecord(t) ==
    LET id == thr[t].pid
    IN /\ thr[t].pc = "record"
       /\ heap' = [heap EXCEPT ![id].source = "ai_mesh",
                               ![id].history = <<>>,
                               ![id].bbox = Mesh(id)]
       /\ Return(t)
       /\ UNCHANGED <<parts, active, nextId, brep, lock>>

-----------------------------------------------------------------------------
\* A client makes a call; nothing obliges it to.
Begin(t) ==
    \/ ExecCall(t)
    \/ \E n \in Names, c \in Colours : CreateCall(t, n, c)
    \/ \E n \in Names : CreateCallAuto(t, n)
    \/ \E n \in Names : SetActiveCall(t, n) \/ DeleteCall(t, n)
    \/ GenCall(t)

\* A thread goes on with the call it is in.
Step(t) ==
    \/ \E c \in Codes, m \in {"replace", "append"} : ExecBegin(t, c, m)
    \/ ExecRefuse(t)
    \/ ExecOk(t)
    \/ ExecFailed(t)
    \/ ExecRaised(t)
    \/ CreateInsert(t)
    \/ CreateRefuse(t)
    \/ SetActiveAssign(t)
    \/ DeleteUnlink(t)
    \/ DeleteEntry(t)
    \/ DeleteKeyError(t)
    \/ DeleteRepoint(t)
    \/ GenDownloaded(t)
    \/ GenFailed(t)
    \/ GenSew(t)
    \/ GenRecord(t)

Next == \E t \in Threads : Begin(t) \/ Step(t)

Spec == Init /\ [][Next]_vars

\* A pool thread keeps running; the sandbox and the service have timeouts.
FairSpec == Spec /\ \A t \in Threads : WF_vars(Step(t))

-----------------------------------------------------------------------------
(* Properties.                                                             *)

\* SPEC A10: an assembly never has more than MAX_PARTS parts, whatever calls
\* of create_part race past its unlocked checks.
PartsBound == Cardinality(Live) <= MaxParts

\* create_part never replaces a part that is there: a name that is live
\* before and after a step is bound to the same Part object.
CreateNeverReplaces ==
    [][\A n \in Live \intersect Live' : parts'[n] = parts[n]]_vars

\* The history of a part without the tentative block of a run in progress.
Settled(id) ==
    IF \E t \in Threads : thr[t].pc = "run" /\ thr[t].pid = id
    THEN thr[CHOOSE t \in Threads :
                thr[t].pc = "run" /\ thr[t].pid = id].prev
    ELSE heap[id].history

\* A part whose file and record some thread is in the middle of changing.
InHand(n) ==
    \E t \in Threads :
        \/ thr[t].pc = "record" /\ thr[t].pid = parts[n]
        \/ thr[t].pc = "remove" /\ thr[t].name = n

\* What the file of a part must hold, from the part's record.
Expected(id) ==
    IF heap[id].source = "ai_mesh" THEN Mesh(id)
    ELSE IF Settled(id) = <<>> THEN NoGeometry
    ELSE Built(id, Settled(id))

\* SPEC 7, "Code history is the source of truth; the BREP file is a cache":
\* the file of every part that no call has in hand is what its settled
\* history (or its mesh) gives, the recorded bounding box is that file's,
\* and a name that is no part has no file for a later part to inherit.
GeometryIsHistory ==
    \A n \in Names : ~ InHand(n) =>
        IF n \in Live
        THEN /\ brep[n] = Expected(parts[n])
             /\ heap[parts[n]].bbox = brep[n]
        ELSE brep[n] = NoGeometry

\* Every tool that works on the active part finds one: active_part names a
\* live part, except between the two statements of delete_part.
ActiveExists ==
    active \in Live
    \/ \E t \in Threads : thr[t].pc = "repoint" /\ thr[t].name = active

\* SPEC 10.3, delete_part: "Cannot delete the last part."
AtLeastOnePart == Live # {}

\* SPEC A4, "Each part gets a distinct color": while there are colours left,
\* a part created without an explicit colour gets one no other part has.
AutoColourIsFresh ==
    [][\A t \in Threads :
        (CreateInsert(t) /\ thr[t].auto /\ FreeColours # {})
            => thr[t].colour \in FreeColours]_vars

\* gen_ai_mesh promises that execute_cad refuses to run against a mesh
\* part rather than destroy it: no run replaces a mesh by other geometry.
MeshIsNotOverwritten ==
    [][\A n \in Names : brep[n].kind = "mesh" => brep'[n].kind # "code"]_vars

\* Every tool call returns: no interleaving leaves a thread waiting for a
\* lock that nobody will release.
EveryCallReturns ==
    \A t \in Threads : thr[t] # Idle ~> thr[t] = Idle

=============================================================================
