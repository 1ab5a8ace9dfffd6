--------------------------- MODULE AssemblyProofs ---------------------------
(***************************************************************************)
(* Theorems about Assembly and its crews, for every number of threads,     *)
(* names, parts, colours, identities and calls.                            *)
(***************************************************************************)
EXTENDS AssemblyCrew, FiniteSetTheorems, WellFoundedInduction, TLAPS

\* Every non-empty set of naturals has a least element: the initial segments
\* below its members are finite sets, and strict inclusion is well founded.
LEMMA LeastNatural ==
    ASSUME NEW S \in SUBSET Nat, S # {}
    PROVE  \E x \in S : \A y \in S : x <= y
<1> DEFINE Below(x) == 0 .. (x - 1)
           T == {Below(x) : x \in S}
<1>1. T \subseteq FiniteSubsetsOf(Nat) /\ T # {}
  <2>1. \A x \in S : Below(x) \subseteq Nat /\ IsFiniteSet(Below(x))
    BY FS_Interval
  <2>. QED  BY <2>1 DEF FiniteSubsetsOf
<1>2. PICK b \in T : \A c \in T : ~ (<<c, b>> \in StrictSubsetOrdering(Nat))
  <2>1. IsWellFoundedOn(StrictSubsetOrdering(Nat), FiniteSubsetsOf(Nat))
    BY FS_StrictSubsetOrderingWellFounded
  <2>. HIDE DEF T
  <2>. QED  BY <1>1, <2>1, WFMin
<1>3. PICK x \in S : b = Below(x)
  OBVIOUS
<1>4. ASSUME NEW y \in S, y < x
      PROVE  FALSE
  <2>1. Below(y) \subseteq Below(x) /\ y \in Below(x) /\ y \notin Below(y)
    BY <1>4
  <2>2. <<Below(y), Below(x)>> \in StrictSubsetOrdering(Nat)
    BY <2>1 DEF StrictSubsetOrdering
  <2>. QED  BY <1>2, <1>3, <2>2
<1>. QED  BY <1>4

\* A colour chosen by session.next_color is free while there are free ones.
LEMMA NextColourIsFree ==
    ASSUME FreeColours # {}
    PROVE  NextColour \in FreeColours
<1>1. FreeColours \in SUBSET Nat
  BY AssemblyAssumption DEF FreeColours, Colours
<1>2. \E c \in FreeColours : \A d \in FreeColours : c <= d
  BY <1>1, LeastNatural
<1>. QED  BY <1>2 DEF NextColour

\* session.next_color returns a colour of the palette.
LEMMA NextColourType ==
    ASSUME TypeOK
    PROVE  NextColour \in Colours
<1>1. CASE FreeColours # {}
  BY <1>1, NextColourIsFree DEF FreeColours
<1>2. CASE FreeColours = {}
  <2>1. Live \in SUBSET Names
    BY DEF Live
  <2>2. Cardinality(Live) \in Nat
    BY <2>1, AssemblyAssumption, FS_Subset, FS_CardinalityType
  <2>. QED  BY <1>2, <2>2, AssemblyAssumption DEF NextColour, Colours
<1>. QED  BY <1>1, <1>2

\* The part delete_part re-points to is one of those left.
LEMMA FirstPartIsLive ==
    ASSUME TypeOK, Live # {}
    PROVE  FirstPart \in Live
<1> DEFINE S == {parts[n] : n \in Live}
<1>1. S \in SUBSET Nat /\ S # {}
  <2>1. \A n \in Live : parts[n] \in Nat
    BY AssemblyAssumption DEF TypeOK, Live
  <2>. QED  BY <2>1
<1>2. PICK x \in S : \A y \in S : x <= y
  BY <1>1, LeastNatural
<1>3. \E n \in Live : \A m \in Live : parts[n] <= parts[m]
  BY <1>2
<1>. QED  BY <1>3 DEF FirstPart

\* The values that the actions write are typed.
LEMMA ValueTypes ==
    /\ NoGeometry \in Geometry
    /\ \A id \in Ids : Mesh(id) \in Geometry /\ Torn(id) \in Geometry
    /\ \A id \in Ids, h \in History : Built(id, h) \in Geometry
    /\ \A c \in Colours : NewPart(c) \in Part
    /\ Idle \in Frame
BY AssemblyAssumption
DEF NoGeometry, Mesh, Torn, Built, NewPart, Idle, Geometry, Part, Frame, PC,
    Source, History, Colours

LEMMA InitType == Init => TypeOK
<1>. SUFFICES ASSUME Init PROVE TypeOK
  OBVIOUS
<1>1. 0 \in Colours
  BY AssemblyAssumption DEF Colours
<1>. QED  BY <1>1, ValueTypes, AssemblyAssumption DEF Init, TypeOK

LEMMA CallType ==
    ASSUME TypeOK, NEW t \in Threads, NEW tool, NEW frame \in Frame,
           Call(t, tool, frame)
    PROVE  thr' \in [Threads -> Frame] /\ calls' \in Nat
BY DEF Call, TypeOK

\* A client's call leaves the state typed.
LEMMA BeginType ==
    ASSUME TypeOK, NEW t \in Threads, Begin(t)
    PROVE  TypeOK'
<1> USE ValueTypes
<1>1. CASE ExecCall(t)
  <2>1. [Idle EXCEPT !.pc = "exec_wait"] \in Frame
    BY DEF Frame, PC
  <2>. QED  BY <1>1, <2>1, CallType DEF ExecCall, TypeOK
<1>2. ASSUME NEW n \in Names, NEW c \in Colours, CreateCall(t, n, c)
      PROVE  TypeOK'
  <2>1. [Idle EXCEPT !.pc = "create_wait", !.name = n, !.colour = c] \in Frame
    BY DEF Frame, PC
  <2>. QED  BY <1>2, <2>1, CallType DEF CreateCall, TypeOK
<1>3. ASSUME NEW n \in Names, CreateCallAuto(t, n)
      PROVE  TypeOK'
  <2>1. [Idle EXCEPT !.pc = "create_wait", !.name = n,
                     !.colour = NextColour, !.auto = TRUE] \in Frame
    BY NextColourType DEF Frame, PC
  <2>. QED  BY <1>3, <2>1, CallType DEF CreateCallAuto, TypeOK
<1>4. ASSUME NEW n \in Names, SetActiveCall(t, n)
      PROVE  TypeOK'
  <2>1. [Idle EXCEPT !.pc = "assign", !.name = n] \in Frame
    BY DEF Frame, PC
  <2>. QED  BY <1>4, <2>1, CallType DEF SetActiveCall, TypeOK
<1>5. ASSUME NEW n \in Names, DeleteCall(t, n)
      PROVE  TypeOK'
  <2>1. [Idle EXCEPT !.pc = "unlink", !.name = n] \in Frame
    BY DEF Frame, PC
  <2>. QED  BY <1>5, <2>1, CallType DEF DeleteCall, TypeOK
<1>6. CASE GenCall(t)
  <2>1. parts[active] \in Ids
    BY <1>6 DEF GenCall, TypeOK, Live
  <2>2. [Idle EXCEPT !.pc = "await", !.pid = parts[active]] \in Frame
    BY <2>1 DEF Frame, PC
  <2>. QED  BY <1>6, <2>2, CallType DEF GenCall, TypeOK
<1>. QED  BY <1>1, <1>2, <1>3, <1>4, <1>5, <1>6 DEF Begin

\* Going on with a call leaves the state typed.
LEMMA StepType ==
    ASSUME TypeOK, NEW t \in Threads, Step(t)
    PROVE  TypeOK'
<1> USE ValueTypes
<1>0. thr[t] \in Frame
  BY DEF TypeOK
<1>1. ASSUME NEW c \in Codes, NEW m \in {"replace", "append"},
             ExecBegin(t, c, m)
      PROVE  TypeOK'
  <2> DEFINE id == parts[active]
             h == NewHistory(heap[id], c, m)
  <2>1. id \in Ids /\ heap[id] \in Part
    BY <1>1 DEF ExecBegin, Runnable, Live, TypeOK
  <2>2. heap[id].history \in History /\ h \in History
    BY <2>1 DEF NewHistory, Part, History
  <2>3. heap' \in [Ids -> Part]
    BY <1>1, <2>1, <2>2 DEF ExecBegin, TypeOK, Part
  <2>4. thr' \in [Threads -> Frame]
    <3>1. [thr[t] EXCEPT !.pc = "run", !.pid = id,
                         !.prev = heap[id].history, !.code = h] \in Frame
      BY <1>0, <2>1, <2>2 DEF Frame, PC
    <3>. QED  BY <1>1, <3>1 DEF ExecBegin, TypeOK
  <2>. QED  BY <1>1, <2>3, <2>4 DEF ExecBegin, TypeOK
<1>2. CASE ExecRefuse(t)
  BY <1>2 DEF ExecRefuse, Return, TypeOK
<1>3. CASE ExecOk(t)
  <2> DEFINE g == Built(thr[t].pid, thr[t].code)
  <2>1. /\ thr[t].pid \in Ids /\ g \in Geometry
        /\ Torn(thr[t].pid) \in Geometry
    BY <1>0 DEF Frame
  <2>2. heap' \in [Ids -> Part]
    BY <1>3, <2>1 DEF ExecOk, TypeOK, Part, Source
  <2>3. brep' \in [Names -> Geometry]
    BY <1>3, <2>1 DEF ExecOk, TypeOK
  <2>. QED  BY <1>3, <2>2, <2>3 DEF ExecOk, Return, TypeOK
<1>4. CASE ExecFailed(t)
  <2>1. thr[t].pid \in Ids /\ thr[t].prev \in History
    BY <1>0 DEF Frame
  <2>2. heap' \in [Ids -> Part]
    BY <1>4, <2>1 DEF ExecFailed, RollBack, TypeOK, Part
  <2>. QED  BY <1>4, <2>2 DEF ExecFailed, RollBack, Return, TypeOK
<1>15. CASE ExecRaised(t)
  BY <1>15 DEF ExecRaised, Return, TypeOK
<1>5. CASE CreateInsert(t)
  <2>1. thr[t].name \in Names /\ NewPart(thr[t].colour) \in Part
    BY <1>0 DEF Frame
  <2>2. nextId \in Ids /\ nextId + 1 \in Nat \ {0}
    BY <1>5 DEF CreateInsert, InsertPart, TypeOK
  <2>. QED
    BY <1>5, <2>1, <2>2 DEF CreateInsert, InsertPart, Return, TypeOK
<1>6. CASE CreateRefuse(t)
  BY <1>6 DEF CreateRefuse, Return, TypeOK
<1>7. CASE SetActiveAssign(t)
  BY <1>0, <1>7 DEF SetActiveAssign, Return, TypeOK, Frame
<1>8. CASE DeleteUnlink(t)
  BY <1>0, <1>8 DEF DeleteUnlink, Continue, TypeOK, Frame, PC
<1>9. CASE DeleteEntry(t)
  BY <1>0, <1>9 DEF DeleteEntry, Continue, TypeOK, Frame, PC
<1>10. CASE DeleteKeyError(t)
  BY <1>10 DEF DeleteKeyError, Return, TypeOK
<1>11. CASE DeleteRepoint(t)
  <2>1. active' \in Names
    BY <1>11, FirstPartIsLive DEF DeleteRepoint, TypeOK, Live
  <2>. QED  BY <1>11, <2>1 DEF DeleteRepoint, Return, TypeOK
<1>12. CASE GenFailed(t)
  <2>1. brep' \in [Names -> Geometry]
    BY <1>0, <1>12 DEF GenFailed, Sewn, TypeOK, Frame
  <2>. QED  BY <1>12, <2>1 DEF GenFailed, Return, TypeOK
<1>13. CASE GenSew(t)
  <2>1. Mesh(thr[t].pid) \in Geometry /\ Torn(thr[t].pid) \in Geometry
    BY <1>0 DEF Frame
  <2>2. brep' \in [Names -> Geometry]
    BY <1>13, <2>1 DEF GenSew, Sewn, TypeOK
  <2>. QED  BY <1>13, <2>2 DEF GenSew, Continue, TypeOK, Frame, PC
<1>14. CASE GenRecord(t)
  <2>1. thr[t].pid \in Ids /\ Mesh(thr[t].pid) \in Geometry
    BY <1>0 DEF Frame
  <2>2. heap' \in [Ids -> Part]
    <3>0. heap[thr[t].pid] \in Part /\ <<>> \in History
      BY <2>1 DEF TypeOK, History
    <3>1. [heap[thr[t].pid] EXCEPT !.source = "ai_mesh", !.history = <<>>,
                                   !.bbox = Mesh(thr[t].pid)] \in Part
      BY <2>1, <3>0 DEF Part, Source
    <3>. QED  BY <1>14, <2>1, <3>1 DEF GenRecord, TypeOK
  <2>. QED  BY <1>14, <2>2 DEF GenRecord, Return, TypeOK
<1>16. CASE GenDownloaded(t)
  BY <1>0, <1>16 DEF GenDownloaded, TypeOK, Frame, PC
<1>. QED
  BY <1>1, <1>2, <1>3, <1>4, <1>5, <1>6, <1>7, <1>8, <1>9, <1>10, <1>11,
     <1>12, <1>13, <1>14, <1>15, <1>16 DEF Step

LEMMA NextType == TypeOK /\ [Next]_vars => TypeOK'
<1>. SUFFICES ASSUME TypeOK, [Next]_vars PROVE TypeOK'
  OBVIOUS
<1>1. CASE Next
  BY <1>1, BeginType, StepType DEF Next
<1>2. CASE UNCHANGED vars
  BY <1>2 DEF vars, TypeOK
<1>. QED  BY <1>1, <1>2

\* Every state of one session's assembly is of its type, whatever tools
\* its clients call at the same time.
THEOREM TypeCorrect == Spec => []TypeOK
BY InitType, NextType, PTL DEF Spec

-----------------------------------------------------------------------------
(* The bound on the number of parts.                                       *)

\* How a step can change the dict of parts: one part more, under the bound
\* and the name free, or one part less.
PartsStep ==
    \/ UNCHANGED <<parts, nextId>>
    \/ \E n \in Names : /\ n \notin Live
                        /\ Cardinality(Live) < MaxParts
                        /\ parts' = [parts EXCEPT ![n] = nextId]
                        /\ nextId' = nextId + 1
    \/ \E n \in Live : /\ parts' = [parts EXCEPT ![n] = 0]
                       /\ UNCHANGED nextId

LEMMA NextParts == TypeOK /\ [Next]_vars => PartsStep
<1>. SUFFICES ASSUME TypeOK, [Next]_vars PROVE PartsStep
  OBVIOUS
<1>1. CASE UNCHANGED vars
  BY <1>1 DEF vars, PartsStep
<1>2. ASSUME NEW t \in Threads, Begin(t)
      PROVE  PartsStep
  BY <1>2 DEF Begin, ExecCall, CreateCall, CreateCallAuto, SetActiveCall,
              DeleteCall, GenCall, PartsStep
<1>3. ASSUME NEW t \in Threads, CreateInsert(t)
      PROVE  PartsStep
  <2>1. thr[t].name \in Names
    BY DEF TypeOK, Frame
  <2>. QED  BY <1>3, <2>1 DEF CreateInsert, InsertPart, MayInsert, PartsStep
<1>4. ASSUME NEW t \in Threads, DeleteEntry(t)
      PROVE  PartsStep
  BY <1>4 DEF DeleteEntry, PartsStep
<1>5. ASSUME NEW t \in Threads, Step(t), ~ CreateInsert(t), ~ DeleteEntry(t)
      PROVE  UNCHANGED <<parts, nextId>>
  BY <1>5 DEF Step, ExecBegin, ExecRefuse, ExecOk, ExecFailed, RollBack,
              ExecRaised, CreateRefuse, SetActiveAssign, DeleteUnlink,
              DeleteKeyError,
              DeleteRepoint, GenDownloaded, GenFailed, GenSew, GenRecord
<1>. QED  BY <1>1, <1>2, <1>3, <1>4, <1>5 DEF Next, PartsStep

LEMMA LiveIsFinite ==
    IsFiniteSet(Live) /\ Cardinality(Live) \in Nat
<1>1. Live \in SUBSET Names
  BY DEF Live
<1>. QED  BY <1>1, AssemblyAssumption, FS_Subset, FS_CardinalityType

LEMMA InitBound == Init => PartsBound
<1>. SUFFICES ASSUME Init PROVE PartsBound
  OBVIOUS
<1>1. Live = {Main}
  BY AssemblyAssumption DEF Init, Live
<1>. QED  BY <1>1, FS_Singleton, AssemblyAssumption DEF PartsBound

LEMMA NextBound == TypeOK /\ PartsBound /\ PartsStep => PartsBound'
<1>. SUFFICES ASSUME TypeOK, PartsBound, PartsStep PROVE PartsBound'
  OBVIOUS
<1>1. CASE UNCHANGED parts
  BY <1>1 DEF PartsBound, Live
<1>2. ASSUME NEW n \in Names, n \notin Live, Cardinality(Live) < MaxParts,
             parts' = [parts EXCEPT ![n] = nextId]
      PROVE  PartsBound'
  <2>1. Live' = Live \cup {n}
    BY <1>2 DEF Live, TypeOK
  <2>2. Cardinality(Live') = Cardinality(Live) + 1
    BY <1>2, <2>1, LiveIsFinite, FS_AddElement
  <2>. QED  BY <1>2, <2>2, LiveIsFinite, AssemblyAssumption DEF PartsBound
<1>3. ASSUME NEW n \in Live, parts' = [parts EXCEPT ![n] = 0]
      PROVE  PartsBound'
  <2>1. Live' = Live \ {n}
    BY <1>3 DEF Live, TypeOK
  <2>2. Cardinality(Live') = Cardinality(Live) - 1
    BY <1>3, <2>1, LiveIsFinite, FS_RemoveElement
  <2>. QED  BY <2>2, LiveIsFinite, AssemblyAssumption DEF PartsBound
<1>. QED  BY <1>1, <1>2, <1>3 DEF PartsStep

\* However calls of every tool interleave, an assembly never has more than
\* MaxParts parts: the check that create_part repeats under the lock is
\* enough.
THEOREM PartsBounded == Spec => []PartsBound
<1>1. Init => TypeOK /\ PartsBound
  BY InitType, InitBound
<1>2. TypeOK /\ PartsBound /\ [Next]_vars => (TypeOK /\ PartsBound)'
  BY NextType, NextParts, NextBound
<1>. QED  BY <1>1, <1>2, PTL DEF Spec

\* However calls of every tool interleave, no step binds a live name to
\* another Part object.
THEOREM NeverReplaced == Spec => CreateNeverReplaces
<1>1. TypeOK /\ PartsStep =>
        \A n \in Live \intersect Live' : parts'[n] = parts[n]
  BY DEF PartsStep, TypeOK, Live
<1>2. TypeOK /\ [Next]_vars =>
        [\A n \in Live \intersect Live' : parts'[n] = parts[n]]_vars
  BY <1>1, NextParts
<1>. QED  BY <1>2, TypeCorrect, PTL DEF Spec, CreateNeverReplaces

-----------------------------------------------------------------------------
(* Where the calls in progress stand, when the only calls that overlap are *)
(* those of the tools that take the session's lock.                        *)

\* What both crews have in common.
InTurn ==
    \A t, u \in Busy : t = u \/ {thr[t].pc, thr[u].pc} \subseteq LockPC

\* No two names share a Part object, and the next identity is a fresh one.
IdInv ==
    /\ \A n \in Live : parts[n] < nextId
    /\ \A n, m \in Live : parts[n] = parts[m] => n = m

\* What a call relies on between two of its steps.  A run works on the part
\* that is active all along and on its whole history; a deletion leaves
\* another part; a mesh goes to the part that is active.
CallInv(t) ==
    LET f == thr[t]
    IN /\ f.pc = "run" <=> lock = t
       /\ f.pc = "run" =>
            /\ active \in Live /\ f.pid = parts[active]
            /\ f.code = heap[f.pid].history
            /\ \E c \in Codes : f.code \in {<<c>>, Append(f.prev, c)}
       /\ f.pc = "assign" => f.name \in Live
       /\ f.pc \in {"unlink", "remove"} => f.name \in Live /\ Live # {f.name}
       /\ f.pc = "repoint" => f.name \notin Live /\ Live # {}
       /\ f.pc \in {"await", "sew", "record"} =>
            active \in Live /\ f.pid = parts[active]
       /\ f.pc = "sew" => f.name = active

TurnInv ==
    TypeOK /\ InTurn /\ IdInv /\ ActiveExists /\ \A t \in Threads : CallInv(t)

LEMMA NextIds == TypeOK /\ IdInv /\ [Next]_vars => IdInv'
<1>. SUFFICES ASSUME TypeOK, IdInv, PartsStep PROVE IdInv'
  BY NextParts
<1>0. nextId \in Nat /\ \A n \in Live : n \in Names /\ parts[n] \in Nat
  BY AssemblyAssumption DEF TypeOK, Live
<1>1. CASE UNCHANGED <<parts, nextId>>
  BY <1>1 DEF IdInv, Live
<1>2. ASSUME NEW n \in Names, n \notin Live, nextId' = nextId + 1,
             parts' = [parts EXCEPT ![n] = nextId]
      PROVE  IdInv'
  <2>1. parts'[n] = nextId /\ \A k \in Live : parts'[k] = parts[k]
    BY <1>2 DEF TypeOK, Live
  <2>2. Live' \subseteq Live \cup {n}
    BY <1>2 DEF Live, TypeOK
  <2>3. \A k \in Live' : parts'[k] < nextId'
    BY <1>0, <1>2, <2>1, <2>2 DEF IdInv
  <2>4. \A k, l \in Live' : parts'[k] = parts'[l] => k = l
    BY <1>0, <2>1, <2>2 DEF IdInv
  <2>. QED  BY <2>3, <2>4 DEF IdInv
<1>3. ASSUME NEW n \in Live, parts' = [parts EXCEPT ![n] = 0],
             UNCHANGED nextId
      PROVE  IdInv'
  <2>1. Live' \subseteq Live /\ \A k \in Live' : parts'[k] = parts[k]
    BY <1>3 DEF Live, TypeOK
  <2>. QED  BY <1>3, <2>1 DEF IdInv
<1>. QED  BY <1>1, <1>2, <1>3 DEF PartsStep

\* While a call is in progress that takes no lock there is no other.
LEMMA Alone ==
    ASSUME TurnInv, NEW t \in Threads, thr[t].pc \notin LockPC \cup {"idle"}
    PROVE  \A u \in Threads \ {t} : thr[u].pc = "idle"
BY DEF TurnInv, InTurn, Busy

\* A thread without a call relies on nothing but not to own the lock.
LEMMA IdleRelies ==
    ASSUME NEW t \in Threads
    PROVE  /\ thr[t].pc = "idle" => (CallInv(t) <=> lock # t)
           /\ thr'[t].pc = "idle" => (CallInv(t)' <=> lock' # t)
BY DEF CallInv

\* A step that changes nothing other calls rely on.
LEMMA QuietTurn ==
    ASSUME TurnInv, TypeOK', InTurn', IdInv', NEW t \in Threads,
           thr[t].pc # "repoint",
           \A u \in Threads \ {t} : thr'[u] = thr[u],
           UNCHANGED <<parts, active, heap, lock>>,
           CallInv(t)'
    PROVE  TurnInv'
<1>1. Live' = Live
  BY DEF Live
<1>2. \A u \in Threads \ {t} : CallInv(u)'
  BY <1>1 DEF TurnInv, CallInv
<1>3. ActiveExists'
  BY <1>1 DEF TurnInv, ActiveExists
<1>. QED  BY <1>2, <1>3 DEF TurnInv

\* A step of a call that is alone and that ends it.
LEMMA LastTurn ==
    ASSUME TurnInv, TypeOK', InTurn', IdInv', NEW t \in Threads,
           thr[t].pc \notin LockPC \cup {"idle"},
           thr' = [thr EXCEPT ![t] = Idle], UNCHANGED lock, (active \in Live)'
    PROVE  TurnInv'
<1>1. \A u \in Threads : thr'[u].pc = "idle"
  <2>1. \A u \in Threads \ {t} : thr'[u] = thr[u]
    BY DEF TurnInv, TypeOK
  <2>2. thr'[t] = Idle /\ Idle.pc = "idle"
    BY DEF TurnInv, TypeOK, Idle
  <2>. QED  BY <2>1, <2>2, Alone
<1>2. lock \notin Threads
  <2>1. ASSUME lock \in Threads  PROVE FALSE
    <3>1. thr[lock].pc = "run"
      BY <2>1 DEF TurnInv, CallInv
    <3>2. lock # t
      BY <3>1 DEF LockPC
    <3>. QED  BY <2>1, <3>1, <3>2, Alone
  <2>. QED  BY <2>1
<1>3. \A u \in Threads : CallInv(u)'
  BY <1>1, <1>2, IdleRelies
<1>. QED  BY <1>3 DEF TurnInv, ActiveExists

\* What a call sets out with.
LEMMA BeginTurn ==
    ASSUME TurnInv, TypeOK', InTurn', IdInv', NEW t \in Threads, Begin(t)
    PROVE  /\ TurnInv'
           /\ thr[t].pc = "idle"
           /\ thr'[t].pc \in {"exec_wait", "create_wait", "assign", "unlink",
                              "await"}
           /\ \A u \in Threads \ {t} : thr'[u] = thr[u]
           /\ UNCHANGED <<parts, active, heap, nextId, brep, lock>>
<1> DEFINE Kind(pc) == thr'[t].pc = pc
<1>1. UNCHANGED <<parts, active, heap, nextId, brep, lock>>
  BY DEF Begin, ExecCall, CreateCall, CreateCallAuto, SetActiveCall,
         DeleteCall, GenCall
<1>2. PICK frame, tool : Call(t, tool, frame)
  BY DEF Begin, ExecCall, CreateCall, CreateCallAuto, SetActiveCall,
         DeleteCall, GenCall
<1>3. /\ thr[t] = Idle /\ Idle.pc = "idle" /\ thr'[t] = frame
      /\ \A u \in Threads \ {t} : thr'[u] = thr[u]
  BY <1>2 DEF Call, Idle, TurnInv, TypeOK
<1>4. lock' # t /\ Live' = Live
  BY <1>1, <1>3 DEF TurnInv, CallInv, Live
<1>5. /\ Kind("exec_wait") \/ Kind("create_wait") \/ Kind("assign")
         \/ Kind("unlink") \/ Kind("await")
      /\ Kind("assign") => thr'[t].name \in Live
      /\ Kind("unlink") => thr'[t].name \in Live /\ Live # {thr'[t].name}
      /\ Kind("await") => active \in Live /\ thr'[t].pid = parts[active]
  <2>. USE DEF TurnInv, TypeOK, Call, Idle
  <2>1. CASE ExecCall(t)
    BY <2>1 DEF ExecCall
  <2>2. ASSUME NEW n \in Names, NEW c \in Colours, CreateCall(t, n, c)
        PROVE  Kind("create_wait")
    BY <2>2 DEF CreateCall
  <2>3. ASSUME NEW n \in Names, CreateCallAuto(t, n)
        PROVE  Kind("create_wait")
    BY <2>3 DEF CreateCallAuto
  <2>4. ASSUME NEW n \in Names, SetActiveCall(t, n)
        PROVE  Kind("assign") /\ thr'[t].name \in Live
    BY <2>4 DEF SetActiveCall
  <2>5. ASSUME NEW n \in Names, DeleteCall(t, n)
        PROVE  /\ Kind("unlink") /\ thr'[t].name \in Live
               /\ Live # {thr'[t].name}
    <3>1. Kind("unlink") /\ thr'[t].name = n /\ n \in Live
          /\ Cardinality(Live) > 1
      BY <2>5 DEF DeleteCall, MayDelete
    <3>2. Cardinality({n}) = 1
      BY FS_Singleton
    <3>3. Live # {n}
      BY <3>1, <3>2
    <3>. QED  BY <3>1, <3>3
  <2>6. CASE GenCall(t)
    BY <2>6 DEF GenCall
  <2>. QED  BY <2>1, <2>2, <2>3, <2>4, <2>5, <2>6 DEF Begin
<1>6. CallInv(t)'
  BY <1>1, <1>4, <1>5 DEF CallInv
<1>7. TurnInv'
  BY <1>1, <1>3, <1>6, QuietTurn
<1>. QED  BY <1>1, <1>3, <1>5, <1>7

\* A run begins with its history rewritten and the lock in its hands.
LEMMA ExecBeginFacts ==
    ASSUME TurnInv, NEW t \in Threads, NEW c \in Codes,
           NEW m \in {"replace", "append"}, ExecBegin(t, c, m)
    PROVE  /\ active \in Live /\ parts[active] \in Ids
           /\ Reproducible(heap[parts[active]])
           /\ lock = NoThread /\ lock' = t /\ NoThread \notin Threads
           /\ thr'[t].pc = "run" /\ thr'[t].pid = parts[active]
           /\ thr'[t].prev = heap[parts[active]].history
           /\ thr'[t].code = heap'[parts[active]].history
           /\ \E d \in Codes :
                thr'[t].code \in {<<d>>, Append(thr'[t].prev, d)}
           /\ \A u \in Threads \ {t} : thr'[u] = thr[u]
           /\ \A i \in Ids : /\ heap'[i].source = heap[i].source
                             /\ heap'[i].bbox = heap[i].bbox
                             /\ heap'[i].colour = heap[i].colour
                             /\ i # parts[active] => heap'[i] = heap[i]
           /\ UNCHANGED <<parts, active, nextId, brep>>
<1> DEFINE id == parts[active]
           h == NewHistory(heap[id], c, m)
<1>1. active \in Live /\ id \in Ids /\ heap[id] \in Part /\ thr[t] \in Frame
      /\ Reproducible(heap[id])
  BY DEF ExecBegin, Runnable, Live, TurnInv, TypeOK
<1>2. h \in {<<c>>, Append(heap[id].history, c)}
  BY DEF NewHistory
<1>3. /\ thr' = [thr EXCEPT ![t].pc = "run", ![t].pid = id,
                            ![t].prev = heap[id].history, ![t].code = h]
      /\ heap' = [heap EXCEPT ![id].history = h]
      /\ lock = NoThread /\ lock' = t
      /\ UNCHANGED <<parts, active, nextId, brep>>
  BY DEF ExecBegin
<1>. HIDE DEF h
<1>4. /\ thr'[t].pc = "run" /\ thr'[t].pid = id
      /\ thr'[t].prev = heap[id].history /\ thr'[t].code = h
      /\ \A u \in Threads \ {t} : thr'[u] = thr[u]
  BY <1>1, <1>3 DEF TurnInv, TypeOK, Frame
<1>5. /\ heap'[id].history = h
      /\ \A i \in Ids : /\ heap'[i].source = heap[i].source
                        /\ heap'[i].bbox = heap[i].bbox
                        /\ heap'[i].colour = heap[i].colour
                        /\ i # id => heap'[i] = heap[i]
  BY <1>1, <1>3 DEF TurnInv, TypeOK, Part
<1>. QED  BY <1>1, <1>2, <1>3, <1>4, <1>5, AssemblyAssumption

LEMMA ExecBeginTurn ==
    ASSUME TurnInv, TypeOK', InTurn', IdInv', NEW t \in Threads,
           NEW c \in Codes, NEW m \in {"replace", "append"},
           ExecBegin(t, c, m)
    PROVE  TurnInv'
<1>1. thr[t].pc = "exec_wait"
  BY DEF ExecBegin
<1>2. active \in Live /\ lock = NoThread /\ lock' = t /\ Live' = Live
      /\ UNCHANGED <<parts, active>> /\ NoThread \notin Threads
  BY ExecBeginFacts DEF Live
<1>3. CallInv(t)'
  BY <1>2, ExecBeginFacts DEF CallInv
<1>4. \A u \in Threads \ {t} : CallInv(u)'
  <2>. SUFFICES ASSUME NEW u \in Threads \ {t}  PROVE CallInv(u)'
    OBVIOUS
  <2>1. thr'[u] = thr[u] /\ lock' # u /\ thr[u].pc # "run" /\ CallInv(u)
    BY <1>2, ExecBeginFacts DEF TurnInv, CallInv
  <2>. QED  BY <1>2, <2>1 DEF CallInv
<1>. QED  BY <1>2, <1>3, <1>4 DEF TurnInv, ActiveExists

\* A run ends, one way or another: the lock is free and the thread is.
RunEnds(t) ==
    /\ thr[t].pc = "run"
    /\ lock' = NoThread
    /\ thr' = [thr EXCEPT ![t] = Idle]
    /\ UNCHANGED <<parts, active, nextId>>

LEMMA ExecEnds ==
    ASSUME NEW t \in Threads, ExecOk(t) \/ ExecFailed(t) \/ ExecRaised(t)
    PROVE  RunEnds(t)
BY DEF ExecOk, ExecFailed, RollBack, ExecRaised, Return, RunEnds

\* What the thread whose run ends knows.
LEMMA RunFacts ==
    ASSUME TurnInv, NEW t \in Threads, RunEnds(t)
    PROVE  /\ active \in Live /\ active \in Names /\ parts[active] \in Ids
           /\ lock = t /\ thr[t].pid = parts[active]
           /\ thr[t].code = heap[parts[active]].history
           /\ thr[t].code # <<>>
           /\ thr'[t].pc = "idle" /\ NoThread \notin Threads
           /\ \A u \in Threads \ {t} :
                thr'[u] = thr[u] /\ thr[u].pc \in {"idle", "exec_wait",
                                                   "create_wait"}
           /\ Live' = Live
<1>1. /\ active \in Live /\ lock = t /\ thr[t].pid = parts[active]
      /\ thr[t].code = heap[parts[active]].history
      /\ thr[t].pc = "run" /\ Live' = Live
  BY DEF TurnInv, CallInv, RunEnds, Live
<1>2. thr[t].code # <<>>
  <2>1. thr[t].prev \in Seq(Codes)
    BY DEF TurnInv, TypeOK, Frame, History
  <2>2. PICK c \in Codes : thr[t].code \in {<<c>>, Append(thr[t].prev, c)}
    BY <1>1 DEF TurnInv, CallInv
  <2>3. <<c>> # <<>>
    OBVIOUS
  <2>4. Append(thr[t].prev, c) # <<>>
    BY <2>1
  <2>. QED  BY <2>2, <2>3, <2>4
<1>3. thr'[t].pc = "idle" /\ \A u \in Threads \ {t} : thr'[u] = thr[u]
  BY DEF RunEnds, TurnInv, TypeOK, Idle
<1>4. \A u \in Threads \ {t} : thr[u].pc \in {"idle", "exec_wait",
                                              "create_wait"}
  <2>. SUFFICES ASSUME NEW u \in Threads \ {t}, thr[u].pc # "idle"
                PROVE  thr[u].pc \in {"exec_wait", "create_wait"}
    OBVIOUS
  <2>1. thr[u].pc \in LockPC
    BY <1>1 DEF TurnInv, InTurn, Busy
  <2>2. thr[u].pc # "run"
    BY <1>1 DEF TurnInv, CallInv
  <2>. QED  BY <2>1, <2>2 DEF LockPC
<1>. QED
  BY <1>1, <1>2, <1>3, <1>4, AssemblyAssumption DEF TurnInv, TypeOK, Live

LEMMA ExecEndTurn ==
    ASSUME TurnInv, TypeOK', InTurn', IdInv', NEW t \in Threads, RunEnds(t)
    PROVE  TurnInv'
<1>1. \A u \in Threads : CallInv(u)'
  <2>1. \A u \in Threads :
          lock' # u /\ thr'[u].pc \in {"idle", "exec_wait", "create_wait"}
    BY RunFacts DEF RunEnds
  <2>. QED  BY <2>1 DEF CallInv
<1>2. (active \in Live)'
  BY RunFacts DEF RunEnds
<1>. QED  BY <1>1, <1>2 DEF TurnInv, ActiveExists

\* A new part, under a name that was free and an identity that is fresh.
LEMMA InsertFacts ==
    ASSUME TurnInv, NEW t \in Threads, CreateInsert(t)
    PROVE  /\ thr[t].name \in Names \ Live /\ nextId \in Ids /\ nextId # 0
           /\ lock \notin Threads /\ UNCHANGED <<lock, brep>>
           /\ Live' = Live \cup {thr[t].name} /\ active' = thr[t].name
           /\ parts'[thr[t].name] = nextId
           /\ \A n \in Live : parts'[n] = parts[n] /\ parts[n] \in Ids
                              /\ parts[n] # nextId
           /\ heap'[nextId] = NewPart(thr[t].colour)
           /\ \A i \in Ids : i # nextId => heap'[i] = heap[i]
           /\ thr'[t].pc = "idle"
           /\ \A u \in Threads \ {t} :
                thr'[u] = thr[u] /\ thr[u].pc \in {"idle", "exec_wait",
                                                   "create_wait"}
<1> DEFINE n == thr[t].name
<1>1. /\ n \in Names \ Live /\ nextId \in Ids /\ nextId \in Nat /\ nextId # 0
      /\ thr[t].pc = "create_wait" /\ lock \notin Threads
  BY AssemblyAssumption
  DEF CreateInsert, InsertPart, MayInsert, TurnInv, TypeOK, Frame
<1>2. /\ parts' = [parts EXCEPT ![n] = nextId]
      /\ heap' = [heap EXCEPT ![nextId] = NewPart(thr[t].colour)]
      /\ active' = n
      /\ thr' = [thr EXCEPT ![t] = Idle] /\ Idle.pc = "idle"
      /\ UNCHANGED <<lock, brep>>
  BY DEF CreateInsert, InsertPart, Return, Idle
<1>3. Live' = Live \cup {n}
  BY <1>1, <1>2 DEF TurnInv, TypeOK, Live
<1>4. \A k \in Live : parts'[k] = parts[k] /\ parts[k] \in Ids
                      /\ parts[k] # nextId
  <2>. SUFFICES ASSUME NEW k \in Live
                PROVE  parts'[k] = parts[k] /\ parts[k] \in Ids
                       /\ parts[k] # nextId
    OBVIOUS
  <2>1. k \in Names /\ k # n /\ parts[k] \in Ids
    BY <1>1 DEF TurnInv, TypeOK, Live
  <2>2. parts'[k] = parts[k]
    BY <1>2, <2>1 DEF TurnInv, TypeOK
  <2>3. parts[k] \in Nat /\ parts[k] < nextId
    BY <2>1, AssemblyAssumption DEF TurnInv, IdInv
  <2>. QED  BY <1>1, <2>1, <2>2, <2>3
<1>5. /\ parts'[n] = nextId
      /\ heap'[nextId] = NewPart(thr[t].colour)
      /\ \A i \in Ids : i # nextId => heap'[i] = heap[i]
      /\ thr'[t].pc = "idle" /\ \A u \in Threads \ {t} : thr'[u] = thr[u]
  BY <1>1, <1>2 DEF TurnInv, TypeOK
<1>6. \A u \in Threads \ {t} : thr[u].pc \in {"idle", "exec_wait",
                                              "create_wait"}
  <2>. SUFFICES ASSUME NEW u \in Threads \ {t}, thr[u].pc # "idle"
                PROVE  thr[u].pc \in {"exec_wait", "create_wait"}
    OBVIOUS
  <2>1. thr[u].pc \in LockPC
    BY <1>1 DEF TurnInv, InTurn, Busy
  <2>2. thr[u].pc # "run"
    BY <1>1 DEF TurnInv, CallInv
  <2>. QED  BY <2>1, <2>2 DEF LockPC
<1>. QED  BY <1>1, <1>2, <1>3, <1>4, <1>5, <1>6

LEMMA CreateInsertTurn ==
    ASSUME TurnInv, TypeOK', InTurn', IdInv', NEW t \in Threads,
           CreateInsert(t)
    PROVE  TurnInv'
<1>1. \A u \in Threads : CallInv(u)'
  <2>1. \A u \in Threads :
          lock' # u /\ thr'[u].pc \in {"idle", "exec_wait", "create_wait"}
    BY InsertFacts
  <2>. QED  BY <2>1 DEF CallInv
<1>2. (active \in Live)'
  BY InsertFacts
<1>. QED  BY <1>1, <1>2 DEF TurnInv, ActiveExists

LEMMA DeleteEntryTurn ==
    ASSUME TurnInv, TypeOK', InTurn', IdInv', NEW t \in Threads,
           DeleteEntry(t)
    PROVE  TurnInv'
<1> DEFINE n == thr[t].name
<1>1. /\ thr[t].pc = "remove" /\ n \in Names /\ thr[t] \in Frame
      /\ n \in Live /\ Live # {n} /\ lock # t
  BY DEF DeleteEntry, TurnInv, TypeOK, Frame, CallInv, Live
<1>2. Live' = Live \ {n}
  BY <1>1 DEF DeleteEntry, Live, TurnInv, TypeOK
<1>3. /\ thr'[t].pc = "repoint" /\ thr'[t].name = n
      /\ \A u \in Threads \ {t} : thr'[u] = thr[u]
      /\ UNCHANGED <<active, lock>>
  BY <1>1 DEF DeleteEntry, Continue, TurnInv, TypeOK, Frame
<1>4. CallInv(t)'
  BY <1>1, <1>2, <1>3 DEF CallInv
<1>5. \A u \in Threads \ {t} : CallInv(u)'
  <2>1. \A u \in Threads \ {t} : thr[u].pc = "idle"
    BY <1>1, Alone DEF LockPC
  <2>. QED  BY <1>3, <2>1 DEF TurnInv, CallInv
<1>6. ActiveExists'
  <2>1. active \in Live
    <3>1. \A u \in Threads : thr[u].pc # "repoint"
      BY <1>1, Alone DEF LockPC
    <3>. QED  BY <3>1 DEF TurnInv, ActiveExists
  <2>2. CASE active = n
    BY <1>3, <2>2 DEF ActiveExists
  <2>3. CASE active # n
    BY <1>2, <1>3, <2>1, <2>3 DEF ActiveExists
  <2>. QED  BY <2>2, <2>3
<1>. QED  BY <1>4, <1>5, <1>6 DEF TurnInv

\* Outside a repoint the active part is there.
LEMMA ActiveIsLive ==
    ASSUME TurnInv, NEW t \in Threads,
           thr[t].pc \notin LockPC \cup {"idle", "repoint"}
    PROVE  active \in Live
<1>1. \A u \in Threads : thr[u].pc # "repoint"
  BY Alone
<1>. QED  BY <1>1 DEF TurnInv, ActiveExists

LEMMA StepTurn ==
    ASSUME TurnInv, TypeOK', InTurn', IdInv', NEW t \in Threads, Step(t)
    PROVE  TurnInv'
<1>0. TypeOK /\ thr[t] \in Frame /\ CallInv(t)
  BY DEF TurnInv, TypeOK
<1>1. ASSUME NEW c \in Codes, NEW m \in {"replace", "append"},
             ExecBegin(t, c, m)
      PROVE  TurnInv'
  BY <1>1, ExecBeginTurn
<1>2. CASE ExecRefuse(t) \/ CreateRefuse(t)
  <2>1. /\ thr[t].pc \notin {"run", "repoint"}
        /\ thr' = [thr EXCEPT ![t] = Idle] /\ Idle.pc = "idle"
        /\ UNCHANGED <<parts, active, heap, lock>>
    BY <1>2 DEF ExecRefuse, CreateRefuse, Return, Idle
  <2>2. thr'[t] = Idle /\ \A u \in Threads \ {t} : thr'[u] = thr[u]
    BY <1>0, <2>1 DEF TypeOK
  <2>3. CallInv(t)'
    BY <1>0, <2>1, <2>2 DEF CallInv
  <2>. QED  BY <2>1, <2>2, <2>3, QuietTurn
<1>3. CASE ExecOk(t) \/ ExecFailed(t) \/ ExecRaised(t)
  BY <1>3, ExecEnds, ExecEndTurn
<1>4. CASE CreateInsert(t)
  BY <1>4, CreateInsertTurn
<1>5. CASE SetActiveAssign(t)
  <2>1. /\ thr[t].pc = "assign" /\ thr[t].name \in Live
        /\ active' = thr[t].name /\ Live' = Live
        /\ thr' = [thr EXCEPT ![t] = Idle] /\ UNCHANGED lock
    BY <1>0, <1>5 DEF SetActiveAssign, Return, CallInv, Live
  <2>. QED  BY <2>1, LastTurn DEF LockPC
<1>6. CASE DeleteUnlink(t)
  <2>1. /\ thr[t].pc = "unlink" /\ thr'[t].pc = "remove"
        /\ thr'[t].name = thr[t].name
        /\ \A u \in Threads \ {t} : thr'[u] = thr[u]
        /\ UNCHANGED <<parts, active, heap, lock>> /\ Live' = Live
    BY <1>0, <1>6 DEF DeleteUnlink, Continue, TypeOK, Frame, Live
  <2>2. CallInv(t)'
    BY <1>0, <2>1 DEF CallInv
  <2>. QED  BY <2>1, <2>2, QuietTurn
<1>7. CASE DeleteEntry(t)
  BY <1>7, DeleteEntryTurn
<1>8. CASE DeleteKeyError(t)
  BY <1>0, <1>8 DEF DeleteKeyError, CallInv
<1>9. CASE DeleteRepoint(t)
  <2>1. /\ thr[t].pc = "repoint" /\ Live # {} /\ Live' = Live
        /\ thr' = [thr EXCEPT ![t] = Idle] /\ UNCHANGED lock
        /\ active' = IF active = thr[t].name THEN FirstPart ELSE active
    BY <1>0, <1>9 DEF DeleteRepoint, Return, CallInv, Live
  <2>2. active = thr[t].name \/ active \in Live
    <3>1. \A u \in Threads \ {t} : thr[u].pc = "idle"
      BY <2>1, Alone DEF LockPC
    <3>. QED  BY <3>1 DEF TurnInv, ActiveExists
  <2>3. (active \in Live)'
    BY <1>0, <2>1, <2>2, FirstPartIsLive
  <2>. QED  BY <2>1, <2>3, LastTurn DEF LockPC
<1>10. CASE GenFailed(t) \/ GenRecord(t)
  <2>1. /\ thr[t].pc \in {"await", "sew", "record"}
        /\ thr' = [thr EXCEPT ![t] = Idle]
        /\ UNCHANGED <<lock, active>> /\ Live' = Live
    BY <1>10 DEF GenFailed, GenRecord, Return, Live
  <2>2. (active \in Live)'
    BY <2>1, ActiveIsLive DEF LockPC
  <2>. QED  BY <2>1, <2>2, LastTurn DEF LockPC
<1>11. CASE GenSew(t)
  <2>1. /\ thr[t].pc = "sew" /\ thr'[t].pc = "record"
        /\ thr'[t].pid = thr[t].pid
        /\ \A u \in Threads \ {t} : thr'[u] = thr[u]
        /\ UNCHANGED <<parts, active, heap, lock>> /\ Live' = Live
    BY <1>0, <1>11 DEF GenSew, Continue, TypeOK, Frame, Live
  <2>2. CallInv(t)'
    BY <1>0, <2>1 DEF CallInv
  <2>. QED  BY <2>1, <2>2, QuietTurn
<1>12. CASE GenDownloaded(t)
  <2>1. /\ thr[t].pc = "await" /\ thr'[t].pc = "sew"
        /\ thr'[t].pid = thr[t].pid /\ thr'[t].name = active
        /\ \A u \in Threads \ {t} : thr'[u] = thr[u]
        /\ UNCHANGED <<parts, active, heap, lock>> /\ Live' = Live
    BY <1>0, <1>12 DEF GenDownloaded, TypeOK, Frame, Live
  <2>2. CallInv(t)'
    BY <1>0, <2>1 DEF CallInv
  <2>. QED  BY <2>1, <2>2, QuietTurn
<1>. QED
  BY <1>1, <1>2, <1>3, <1>4, <1>5, <1>6, <1>7, <1>8, <1>9, <1>10, <1>11,
     <1>12 DEF Step

LEMMA InitTurn == Init => TurnInv
<1>. SUFFICES ASSUME Init PROVE TurnInv
  OBVIOUS
<1>1. Live = {Main} /\ active = Main
  BY AssemblyAssumption DEF Init, Live
<1>2. \A t \in Threads : thr[t].pc = "idle" /\ lock # t
  BY AssemblyAssumption DEF Init, Idle
<1>3. IdInv
  BY <1>1, AssemblyAssumption DEF Init, IdInv
<1>. QED
  BY <1>1, <1>2, <1>3, InitType, IdleRelies
  DEF TurnInv, InTurn, Busy, ActiveExists

LEMMA NextTurn == TurnInv /\ [Next]_vars /\ InTurn' => TurnInv'
<1>. SUFFICES ASSUME TurnInv, [Next]_vars, InTurn' PROVE TurnInv'
  OBVIOUS
<1>0. TypeOK' /\ IdInv'
  BY NextType, NextIds DEF TurnInv
<1>1. CASE UNCHANGED vars
  BY <1>0, <1>1 DEF vars, TurnInv, CallInv, ActiveExists, Live
<1>2. ASSUME NEW t \in Threads, Begin(t)
      PROVE  TurnInv'
  BY <1>0, <1>2, BeginTurn
<1>3. ASSUME NEW t \in Threads, Step(t)
      PROVE  TurnInv'
  BY <1>0, <1>3, StepTurn
<1>. QED  BY <1>1, <1>2, <1>3 DEF Next

LEMMA CrewStep ==
    /\ CrewInit => TurnInv /\ Disciplined
    /\ Disciplined => InTurn \/ crew \notin {"one", "locked"}
    /\ [CrewNext]_crewVars => [Next]_vars /\ UNCHANGED crew
    /\ Disciplined /\ [CrewNext]_crewVars => Disciplined'
<1>1. CrewInit => TurnInv /\ Disciplined
  BY InitTurn DEF CrewInit, Disciplined, Busy, Init, Idle
<1>2. Disciplined => InTurn \/ crew \notin {"one", "locked"}
  BY DEF Disciplined, InTurn
<1>3. [CrewNext]_crewVars => [Next]_vars /\ UNCHANGED crew
  BY DEF CrewNext, crewVars
<1>4. Disciplined /\ [CrewNext]_crewVars => Disciplined'
  BY DEF CrewNext, crewVars, vars, Disciplined, Busy
<1>. QED  BY <1>1, <1>2, <1>3, <1>4

CrewInv == crew \in {"one", "locked"} /\ Disciplined /\ TurnInv

LEMMA CrewKept ==
    /\ CrewInit => CrewInv
    /\ CrewInv /\ [CrewNext]_crewVars => CrewInv'
<1>1. CrewInit => CrewInv
  BY CrewStep DEF CrewInit, CrewInv
<1>2. ASSUME CrewInv, [CrewNext]_crewVars
      PROVE  CrewInv'
  <2>1. crew' \in {"one", "locked"} /\ Disciplined' /\ [Next]_vars
    BY <1>2, CrewStep DEF CrewInv
  <2>2. InTurn'
    BY <2>1 DEF Disciplined, InTurn
  <2>. QED  BY <1>2, <2>1, <2>2, NextTurn DEF CrewInv
<1>. QED  BY <1>1, <1>2

\* Whichever way a disciplined crew uses a session, and however its runs and
\* imports end, the active part is there except inside a deletion.
THEOREM ActiveKept == CrewSpec => []ActiveExists
<1>1. CrewInv => ActiveExists
  BY DEF CrewInv, TurnInv
<1>. QED  BY <1>1, CrewKept, PTL DEF CrewSpec

-----------------------------------------------------------------------------
(* The files.                                                              *)

\* A run either writes its file or reports a failure.
RunsReport == Outcomes \subseteq {"ok", "failed"}

\* The history without the block of the run in progress, which is the lock
\* owner's.
Kept(id) ==
    IF lock \in Threads /\ thr[lock].pid = id
    THEN thr[lock].prev ELSE heap[id].history

FileOf(id) ==
    IF heap[id].source = "ai_mesh" THEN Mesh(id)
    ELSE IF Kept(id) = <<>> THEN NoGeometry
    ELSE Built(id, Kept(id))

Coherent(n) ==
    IF n \in Live
    THEN brep[n] = FileOf(parts[n]) /\ heap[parts[n]].bbox = brep[n]
    ELSE brep[n] = NoGeometry

FileInv ==
    /\ \A n \in Names : ~ InHand(n) => Coherent(n)
    /\ \A t \in Threads :
         /\ thr[t].pc = "record" => brep[active] = Mesh(thr[t].pid)
         /\ thr[t].pc = "remove" => brep[thr[t].name] = NoGeometry

\* A file is in the middle of a change only in the hands of a call that is
\* alone.
LEMMA NothingInHand ==
    ASSUME \A t \in Threads : thr[t].pc \notin {"record", "remove"}
    PROVE  \A n \in Names : ~ InHand(n)
BY DEF InHand

\* A step that touches neither parts nor files.
LEMMA QuietFile ==
    ASSUME TypeOK, FileInv, NEW t \in Threads, lock # t,
           thr[t].pc \notin {"record", "remove"},
           thr'[t].pc \notin {"record", "remove"},
           \A u \in Threads \ {t} : thr'[u] = thr[u],
           UNCHANGED <<parts, heap, brep, lock>>,
           \/ UNCHANGED active
           \/ \A u \in Threads : thr[u].pc # "record"
    PROVE  FileInv'
<1>1. \A id \in Ids : FileOf(id)' = FileOf(id)
  BY DEF FileOf, Kept
<1>2. \A n \in Names : InHand(n)' <=> InHand(n)
  BY DEF InHand
<1>3. \A n \in Names : Coherent(n)' <=> Coherent(n)
  BY <1>1 DEF Coherent, Live, TypeOK
<1>4. \A u \in Threads :
        /\ thr'[u].pc = "record" => brep'[active'] = Mesh(thr'[u].pid)
        /\ thr'[u].pc = "remove" => brep'[thr'[u].name] = NoGeometry
  BY DEF FileInv
<1>. QED  BY <1>2, <1>3, <1>4 DEF FileInv

LEMMA ExecBeginFile ==
    ASSUME TurnInv, FileInv, NEW t \in Threads, NEW c \in Codes,
           NEW m \in {"replace", "append"}, ExecBegin(t, c, m)
    PROVE  FileInv'
<1>0. thr[t].pc = "exec_wait"
  BY DEF ExecBegin
<1>1. \A id \in Ids : FileOf(id)' = FileOf(id)
  <2>. SUFFICES ASSUME NEW id \in Ids
                PROVE  FileOf(id)' = FileOf(id)
    OBVIOUS
  <2>1. heap'[id].source = heap[id].source
    BY ExecBeginFacts
  <2>2. Kept(id)' = Kept(id)
    BY ExecBeginFacts DEF Kept
  <2>. QED  BY <2>1, <2>2 DEF FileOf
<1>2. \A n \in Names : InHand(n)' <=> InHand(n)
  BY <1>0, ExecBeginFacts DEF InHand
<1>3. \A n \in Names : Coherent(n)' <=> Coherent(n)
  <2>1. Live' = Live /\ \A n \in Live : parts[n] \in Ids
    BY ExecBeginFacts DEF Live, TurnInv, TypeOK
  <2>. QED  BY <1>1, <2>1, ExecBeginFacts DEF Coherent
<1>4. \A u \in Threads :
        /\ thr'[u].pc = "record" => brep'[active'] = Mesh(thr'[u].pid)
        /\ thr'[u].pc = "remove" => brep'[thr'[u].name] = NoGeometry
  BY ExecBeginFacts DEF FileInv
<1>. QED  BY <1>2, <1>3, <1>4 DEF FileInv

\* The end of a run, with or without success.
LEMMA ExecEndFile ==
    ASSUME TurnInv, FileInv, RunsReport, NEW t \in Threads,
           ExecOk(t) \/ ExecFailed(t)
    PROVE  FileInv'
<1> DEFINE id == parts[active]
<1>1. RunEnds(t)
  BY ExecEnds
<1>2. /\ active \in Live /\ active \in Names /\ id \in Ids
      /\ lock = t /\ lock' = NoThread /\ NoThread \notin Threads
      /\ thr[t].pid = id /\ thr[t].code # <<>>
      /\ thr[t].code = heap[id].history
      /\ UNCHANGED <<parts, active>> /\ Live' = Live
  BY <1>1, RunFacts DEF RunEnds
<1>3. \A u \in Threads : /\ thr[u].pc \notin {"record", "remove"}
                         /\ thr'[u].pc \notin {"record", "remove"}
  <2>1. thr[t].pc = "run"
    BY <1>1 DEF RunEnds
  <2>. QED  BY <1>1, <2>1, RunFacts
<1>4. \A n \in Names : Coherent(n)
  BY <1>3, NothingInHand DEF FileInv
<1>5. \A i \in Ids : i # id =>
        heap'[i] = heap[i] /\ FileOf(i)' = FileOf(i)
  <2>1. \A i \in Ids : i # id => heap'[i] = heap[i]
    BY <1>2 DEF ExecOk, ExecFailed, RollBack, TurnInv, TypeOK
  <2>. QED  BY <1>2, <2>1 DEF FileOf, Kept
<1>6. \A n \in Names \ {active} :
        n \in Live => parts[n] \in Ids /\ parts[n] # id
  BY <1>2 DEF TurnInv, IdInv, TypeOK, Live
<1>7. \A n \in Names : Coherent(n)'
  <2>1. CASE ExecOk(t)
    <3>1. brep' = [brep EXCEPT ![active] = Built(id, thr[t].code)]
      BY <1>2, <2>1 DEF ExecOk, RunsReport
    <3>2. /\ heap'[id].history = thr[t].code
          /\ heap'[id].source = "cadquery"
          /\ heap'[id].bbox = Built(id, thr[t].code)
      BY <1>2, <2>1 DEF ExecOk, TurnInv, TypeOK, Part
    <3>3. FileOf(id)' = Built(id, thr[t].code)
      BY <1>2, <3>2 DEF FileOf, Kept
    <3>4. Coherent(active)'
      BY <1>2, <3>1, <3>2, <3>3 DEF Coherent, TurnInv, TypeOK
    <3>5. \A n \in Names \ {active} : brep'[n] = brep[n]
      BY <1>2, <3>1 DEF TurnInv, TypeOK
    <3>6. \A n \in Names \ {active} : Coherent(n)'
      BY <1>2, <1>4, <1>5, <1>6, <3>5 DEF Coherent
    <3>. QED  BY <1>2, <3>4, <3>6
  <2>2. CASE ExecFailed(t)
    <3>1. UNCHANGED brep
      BY <2>2 DEF ExecFailed, RollBack
    <3>2. /\ heap'[id].history = thr[t].prev
          /\ heap'[id].source = heap[id].source
          /\ heap'[id].bbox = heap[id].bbox
      BY <1>2, <2>2 DEF ExecFailed, RollBack, TurnInv, TypeOK, Part
    <3>3. FileOf(id)' = FileOf(id)
      BY <1>2, <3>2 DEF FileOf, Kept
    <3>4. Coherent(active)'
      BY <1>2, <1>4, <3>1, <3>2, <3>3 DEF Coherent
    <3>5. \A n \in Names \ {active} : Coherent(n)'
      BY <1>2, <1>4, <1>5, <1>6, <3>1 DEF Coherent
    <3>. QED  BY <1>2, <3>4, <3>5
  <2>. QED  BY <2>1, <2>2
<1>. QED  BY <1>3, <1>7 DEF FileInv

LEMMA CreateInsertFile ==
    ASSUME TurnInv, FileInv, NEW t \in Threads, CreateInsert(t)
    PROVE  FileInv'
<1> DEFINE n == thr[t].name
<1>0. nextId \in Ids /\ heap'[nextId] = NewPart(thr[t].colour)
  BY InsertFacts
<1>1. \A u \in Threads : /\ thr[u].pc \notin {"record", "remove"}
                         /\ thr'[u].pc \notin {"record", "remove"}
  BY InsertFacts DEF CreateInsert, InsertPart
<1>2. \A k \in Names : Coherent(k)
  BY <1>1, NothingInHand DEF FileInv
<1>3. \A i \in Ids : FileOf(i)' = IF i = nextId THEN NoGeometry ELSE FileOf(i)
  <2>1. \A i \in Ids : Kept(i) = heap[i].history /\ Kept(i)' = heap'[i].history
    BY InsertFacts DEF Kept
  <2>2. heap'[nextId].history = <<>> /\ heap'[nextId].source = "cadquery"
    BY <1>0 DEF NewPart
  <2>3. \A i \in Ids : i = nextId => FileOf(i)' = NoGeometry
    BY <2>1, <2>2 DEF FileOf
  <2>4. \A i \in Ids : i # nextId => FileOf(i)' = FileOf(i)
    BY <2>1, InsertFacts DEF FileOf
  <2>. QED  BY <2>3, <2>4
<1>4. ASSUME NEW k \in Names
      PROVE  Coherent(k)'
  <2>1. CASE k = n
    <3>1. brep'[k] = NoGeometry /\ k \in Live' /\ parts'[k] = nextId
      BY <1>2, <2>1, InsertFacts DEF Coherent
    <3>2. heap'[nextId].bbox = NoGeometry /\ nextId \in Ids
      BY <1>0 DEF NewPart
    <3>3. \A i \in Ids : i = nextId => FileOf(i)' = NoGeometry
      BY <1>3
    <3>4. \A i \in Ids : parts'[k] = i /\ heap'[i].bbox = NoGeometry
                          /\ FileOf(i)' = NoGeometry => Coherent(k)'
      BY <3>1 DEF Coherent
    <3>. QED  BY <3>1, <3>2, <3>3, <3>4
  <2>2. CASE k # n /\ k \in Live
    BY <1>2, <1>3, <2>2, InsertFacts DEF Coherent
  <2>3. CASE k # n /\ k \notin Live
    BY <1>2, <2>3, InsertFacts DEF Coherent
  <2>. QED  BY <2>1, <2>2, <2>3
<1>. QED  BY <1>1, <1>4 DEF FileInv

\* A deletion: the file goes first, then the name.
LEMMA DeleteFile ==
    ASSUME TurnInv, FileInv, NEW t \in Threads,
           DeleteUnlink(t) \/ DeleteEntry(t)
    PROVE  FileInv'
<1> DEFINE n == thr[t].name
<1>1. /\ thr[t].pc \in {"unlink", "remove"} /\ n \in Names /\ n \in Live
      /\ thr[t] \in Frame /\ lock # t
  BY DEF DeleteUnlink, DeleteEntry, TurnInv, CallInv, TypeOK, Frame
<1>2. \A u \in Threads \ {t} : thr[u].pc = "idle" /\ thr'[u] = thr[u]
  <2>1. \A u \in Threads \ {t} : thr[u].pc = "idle"
    BY <1>1, Alone DEF LockPC
  <2>. QED  BY <2>1 DEF DeleteUnlink, DeleteEntry, Continue, TurnInv, TypeOK
<1>3. \A k \in Names \ {n} : ~ InHand(k)
  BY <1>1, <1>2 DEF InHand
<1>4. \A i \in Ids : FileOf(i)' = FileOf(i)
  <2>1. lock \notin Threads /\ UNCHANGED <<heap, lock>>
    BY <1>1, <1>2 DEF TurnInv, CallInv, DeleteUnlink, DeleteEntry
  <2>. QED  BY <2>1 DEF FileOf, Kept
<1>5. \A k \in Names \ {n} : Coherent(k)'
  <2>1. \A k \in Names \ {n} :
          /\ brep'[k] = brep[k] /\ parts'[k] = parts[k] /\ heap' = heap
          /\ k \in Live' <=> k \in Live
          /\ k \in Live => parts[k] \in Ids
    BY <1>1 DEF DeleteUnlink, DeleteEntry, TurnInv, TypeOK, Live
  <2>. QED  BY <1>3, <1>4, <2>1 DEF FileInv, Coherent
<1>6. brep'[n] = NoGeometry
  BY <1>1 DEF DeleteUnlink, DeleteEntry, FileInv, TurnInv, TypeOK
<1>7. CASE DeleteUnlink(t)
  <2>1. thr'[t].pc = "remove" /\ thr'[t].name = n
    BY <1>1, <1>7 DEF DeleteUnlink, Continue, TurnInv, TypeOK, Frame
  <2>2. InHand(n)'
    BY <2>1 DEF InHand
  <2>. QED  BY <1>2, <1>5, <1>6, <2>1, <2>2 DEF FileInv
<1>8. CASE DeleteEntry(t)
  <2>1. thr'[t].pc = "repoint" /\ n \notin Live'
    BY <1>1, <1>8 DEF DeleteEntry, Continue, TurnInv, TypeOK, Frame, Live
  <2>2. \A k \in Names : k = n => Coherent(k)'
    BY <1>6, <2>1 DEF Coherent
  <2>. QED  BY <1>2, <1>5, <2>1, <2>2 DEF FileInv
<1>. QED  BY <1>7, <1>8

\* A mesh: the file is written first, then the part's record.
LEMMA GenFile ==
    ASSUME RunsReport, TurnInv, FileInv, NEW t \in Threads,
           GenSew(t) \/ GenRecord(t)
    PROVE  FileInv'
<1> DEFINE id == parts[active]
<1>1. /\ thr[t].pc \in {"sew", "record"} /\ thr[t] \in Frame /\ lock # t
      /\ thr[t].pc = "sew" => thr[t].name = active
      /\ active \in Live /\ active \in Names /\ thr[t].pid = id /\ id \in Ids
  BY DEF GenSew, GenRecord, TurnInv, CallInv, TypeOK, Frame, Live
<1>2. \A u \in Threads \ {t} : thr[u].pc = "idle" /\ thr'[u] = thr[u]
  <2>1. \A u \in Threads \ {t} : thr[u].pc = "idle"
    BY <1>1, Alone DEF LockPC
  <2>. QED  BY <2>1 DEF GenSew, GenRecord, Continue, Return, TurnInv, TypeOK
<1>3. UNCHANGED <<parts, active, lock>> /\ Live' = Live /\ lock \notin Threads
  BY <1>1, <1>2 DEF TurnInv, CallInv, GenSew, GenRecord, Live
<1>4. \A n \in Names \ {active} :
        ~ InHand(n) /\ (n \in Live => parts[n] \in Ids /\ parts[n] # id)
  <2>1. \A n \in Names \ {active} :
          n \in Live => parts[n] \in Ids /\ parts[n] # id
    BY <1>1 DEF TurnInv, IdInv, TypeOK, Live
  <2>2. 0 \notin Ids
    BY AssemblyAssumption
  <2>3. \A n \in Names \ {active} : parts[n] # id
    BY <1>1, <2>1, <2>2 DEF Live
  <2>. QED  BY <1>1, <1>2, <2>1, <2>3 DEF InHand
<1>5. \A i \in Ids : i # id => heap'[i] = heap[i]
  BY <1>1 DEF GenSew, GenRecord, TurnInv, TypeOK
<1>6. \A i \in Ids : i # id => FileOf(i)' = FileOf(i)
  BY <1>3, <1>5 DEF FileOf, Kept
<1>7. \A n \in Names \ {active} : Coherent(n)'
  <2>1. \A n \in Names \ {active} : brep'[n] = brep[n]
    BY <1>1 DEF GenSew, GenRecord, TurnInv, TypeOK
  <2>. QED  BY <1>3, <1>4, <1>5, <1>6, <2>1 DEF FileInv, Coherent
<1>8. CASE GenSew(t)
  <2>1. thr'[t].pc = "record" /\ thr'[t].pid = id
    BY <1>1, <1>8 DEF GenSew, Continue, TurnInv, TypeOK, Frame
  <2>2. brep'[active] = Mesh(id)
    BY <1>1, <1>8 DEF GenSew, Sewn, RunsReport, TurnInv, TypeOK
  <2>3. InHand(active)'
    BY <1>3, <2>1 DEF InHand
  <2>. QED  BY <1>2, <1>3, <1>7, <2>1, <2>2, <2>3 DEF FileInv
<1>9. CASE GenRecord(t)
  <2>1. thr'[t].pc = "idle" /\ brep' = brep
    BY <1>9 DEF GenRecord, Return, TurnInv, TypeOK, Idle
  <2>2. heap'[id].source = "ai_mesh" /\ heap'[id].bbox = Mesh(id)
    <3>1. heap[id] \in Part
      BY <1>1 DEF TurnInv, TypeOK
    <3>. QED  BY <1>1, <1>9, <3>1 DEF GenRecord, TurnInv, TypeOK, Part
  <2>3. brep[active] = Mesh(id)
    BY <1>1, <1>9 DEF GenRecord, FileInv
  <2>4. Coherent(active)'
    BY <1>1, <1>3, <2>1, <2>2, <2>3 DEF Coherent, FileOf
  <2>. QED  BY <1>2, <1>3, <1>7, <2>1, <2>4 DEF FileInv
<1>. QED  BY <1>8, <1>9

LEMMA InitFile == Init => FileInv
<1>. SUFFICES ASSUME Init PROVE FileInv
  OBVIOUS
<1>1. Live = {Main} /\ parts[Main] = 1 /\ 1 \in Ids /\ NoThread \notin Threads
  BY AssemblyAssumption DEF Init, Live
<1>2. heap[1] = NewPart(0) /\ FileOf(1) = NoGeometry
  BY <1>1 DEF Init, FileOf, Kept, NewPart
<1>3. \A n \in Names : Coherent(n)
  BY <1>1, <1>2 DEF Init, Coherent, NewPart
<1>4. \A t \in Threads : thr[t].pc = "idle"
  BY DEF Init, Idle
<1>. QED  BY <1>3, <1>4 DEF FileInv

LEMMA NextFile ==
    RunsReport /\ TurnInv /\ FileInv /\ [Next]_vars /\ InTurn' => FileInv'
<1>. SUFFICES ASSUME RunsReport, TurnInv, FileInv, [Next]_vars, InTurn'
              PROVE  FileInv'
  OBVIOUS
<1>0. TypeOK /\ TypeOK' /\ IdInv'
  BY NextType, NextIds DEF TurnInv
<1>1. CASE UNCHANGED vars
  BY <1>1 DEF vars, FileInv, Coherent, FileOf, Kept, InHand, Live
<1>2. ASSUME NEW t \in Threads, Begin(t)
      PROVE  FileInv'
  <2>1. /\ thr[t].pc = "idle"
        /\ thr'[t].pc \in {"exec_wait", "create_wait", "assign", "unlink",
                           "await"}
        /\ \A u \in Threads \ {t} : thr'[u] = thr[u]
        /\ UNCHANGED <<parts, active, heap, brep, lock>>
    BY <1>0, <1>2, BeginTurn
  <2>2. lock # t
    BY <2>1 DEF TurnInv, CallInv
  <2>. QED  BY <1>0, <2>1, <2>2, QuietFile
<1>3. ASSUME NEW t \in Threads, Step(t)
      PROVE  FileInv'
  <2>1. ASSUME NEW c \in Codes, NEW m \in {"replace", "append"},
               ExecBegin(t, c, m)
        PROVE  FileInv'
    BY <2>1, ExecBeginFile
  <2>2. CASE ExecOk(t) \/ ExecFailed(t)
    BY <2>2, ExecEndFile
  <2>3. CASE ExecRaised(t)
    BY <2>3 DEF ExecRaised, RunsReport
  <2>4. CASE CreateInsert(t)
    BY <2>4, CreateInsertFile
  <2>5. CASE DeleteUnlink(t) \/ DeleteEntry(t)
    BY <2>5, DeleteFile
  <2>6. CASE DeleteKeyError(t)
    BY <2>6 DEF DeleteKeyError, TurnInv, CallInv
  <2>7. CASE GenSew(t) \/ GenRecord(t)
    BY <2>7, GenFile
  <2>8. CASE \/ ExecRefuse(t) \/ CreateRefuse(t) \/ SetActiveAssign(t)
             \/ DeleteRepoint(t) \/ GenFailed(t)
    <3>1. /\ thr[t].pc \in {"exec_wait", "create_wait", "assign", "repoint",
                            "await", "sew"}
          /\ thr' = [thr EXCEPT ![t] = Idle] /\ Idle.pc = "idle"
          /\ UNCHANGED <<parts, heap, brep, lock>>
          /\ thr[t].pc \in {"exec_wait", "create_wait", "await", "sew"} =>
               UNCHANGED active
      BY <2>8 DEF ExecRefuse, CreateRefuse, SetActiveAssign, DeleteRepoint,
                  GenFailed, Return, RunsReport, Idle
    <3>2. lock # t
      BY <3>1 DEF TurnInv, CallInv
    <3>3. thr'[t] = Idle /\ \A u \in Threads \ {t} : thr'[u] = thr[u]
      BY <1>0, <3>1 DEF TypeOK
    <3>4. UNCHANGED active \/ \A u \in Threads : thr[u].pc # "record"
      <4>1. CASE thr[t].pc \in {"exec_wait", "create_wait", "await", "sew"}
        BY <3>1, <4>1
      <4>2. CASE thr[t].pc \in {"assign", "repoint"}
        BY <4>2, Alone DEF LockPC
      <4>. QED  BY <3>1, <4>1, <4>2
    <3>. QED  BY <1>0, <3>1, <3>2, <3>3, <3>4, QuietFile
  <2>9. CASE GenDownloaded(t)
    <3>1. /\ thr[t].pc = "await" /\ thr'[t].pc = "sew"
          /\ thr'[t].pid = thr[t].pid
          /\ \A u \in Threads \ {t} : thr'[u] = thr[u]
          /\ UNCHANGED <<parts, active, heap, brep, lock>>
      BY <1>0, <2>9 DEF GenDownloaded, TypeOK, Frame
    <3>2. lock # t
      BY <3>1 DEF TurnInv, CallInv
    <3>. QED  BY <1>0, <3>1, <3>2, QuietFile
  <2>. QED
    BY <1>3, <2>1, <2>2, <2>3, <2>4, <2>5, <2>6, <2>7, <2>8, <2>9 DEF Step
<1>. QED  BY <1>1, <1>2, <1>3 DEF Next

LEMMA FilesAreCoherent == TurnInv /\ FileInv => GeometryIsHistory
<1>. SUFFICES ASSUME TurnInv, FileInv, NEW n \in Names, ~ InHand(n)
              PROVE  IF n \in Live
                     THEN /\ brep[n] = Expected(parts[n])
                          /\ heap[parts[n]].bbox = brep[n]
                     ELSE brep[n] = NoGeometry
  BY DEF GeometryIsHistory
<1>1. \A id \in Ids : Settled(id) = Kept(id)
  BY DEF TurnInv, CallInv, Settled, Kept
<1>2. n \in Live => parts[n] \in Ids
  BY DEF TurnInv, TypeOK, Live
<1>3. Coherent(n)
  BY DEF FileInv
<1>. QED  BY <1>1, <1>2, <1>3 DEF Coherent, FileOf, Expected

\* Whichever way a disciplined crew uses a session, of one client that makes
\* one call of any tool after another or of many that call the tools which
\* take the session lock, the file of every part that no call has in hand is
\* what its settled history, or its mesh, gives.
THEOREM CrewCoherent == RunsReport => (CrewSpec => []GeometryIsHistory)
<1>. SUFFICES ASSUME RunsReport PROVE CrewSpec => []GeometryIsHistory
  OBVIOUS
<1>1. CrewInit => CrewInv /\ FileInv
  BY CrewKept, InitFile DEF CrewInit
<1>2. CrewInv /\ FileInv /\ [CrewNext]_crewVars => CrewInv' /\ FileInv'
  <2>1. CrewInv' => InTurn'
    BY DEF CrewInv, TurnInv
  <2>. QED  BY <2>1, CrewKept, CrewStep, NextFile DEF CrewInv
<1>3. CrewInv /\ FileInv => GeometryIsHistory
  BY FilesAreCoherent DEF CrewInv
<1>. QED  BY <1>1, <1>2, <1>3, PTL DEF CrewSpec

\* Clients that call only the tools which take the lock.
LockTakersOnly == ToolsInUse \subseteq {"execute_cad", "create_part"}

LockersOnly == \A t \in Threads : thr[t].pc \in LockPC \cup {"idle"}

LEMMA LockersStayLockers ==
    LockTakersOnly /\ TurnInv /\ LockersOnly /\ [Next]_vars => LockersOnly'
<1>. SUFFICES ASSUME LockTakersOnly, TurnInv, LockersOnly, [Next]_vars
              PROVE  LockersOnly'
  OBVIOUS
<1>. USE DEF LockersOnly, LockPC
<1>1. CASE UNCHANGED vars
  BY <1>1 DEF vars
<1>2. ASSUME NEW t \in Threads, Begin(t)
      PROVE  LockersOnly'
  <2>1. ExecCall(t) \/ (\E n \in Names, c \in Colours : CreateCall(t, n, c))
        \/ \E n \in Names : CreateCallAuto(t, n)
    BY <1>2 DEF Begin, SetActiveCall, DeleteCall, GenCall, Call,
                LockTakersOnly
  <2>. QED
    BY <2>1 DEF ExecCall, CreateCall, CreateCallAuto, Call, Idle, TurnInv,
                TypeOK
<1>3. ASSUME NEW t \in Threads, Step(t)
      PROVE  LockersOnly'
  <2>1. thr[t].pc \in {"idle", "exec_wait", "run", "create_wait"}
    OBVIOUS
  <2>2. ASSUME NEW c \in Codes, NEW m \in {"replace", "append"},
               ExecBegin(t, c, m)
        PROVE  LockersOnly'
    BY <2>2, ExecBeginFacts
  <2>3. CASE \/ ExecRefuse(t) \/ CreateRefuse(t) \/ CreateInsert(t)
             \/ ExecOk(t) \/ ExecFailed(t) \/ ExecRaised(t)
    <3>1. thr' = [thr EXCEPT ![t] = Idle] /\ Idle.pc = "idle"
      BY <2>3 DEF ExecRefuse, CreateRefuse, CreateInsert, InsertPart, ExecOk,
                  ExecFailed, RollBack, ExecRaised, Return, Idle
    <3>. QED  BY <3>1 DEF TurnInv, TypeOK
  <2>. QED
    BY <1>3, <2>1, <2>2, <2>3
    DEF Step, SetActiveAssign, DeleteUnlink, DeleteEntry, DeleteKeyError,
        DeleteRepoint, GenDownloaded, GenFailed, GenSew, GenRecord
<1>. QED  BY <1>1, <1>2, <1>3 DEF Next

\* While clients use only execute_cad and create_part, the tools that take
\* the session lock, the file of every part is what its settled code history
\* gives, for any number of concurrent calls.
THEOREM CacheCoherent ==
    LockTakersOnly /\ RunsReport => (Spec => []GeometryIsHistory)
<1>. SUFFICES ASSUME LockTakersOnly, RunsReport
              PROVE  Spec => []GeometryIsHistory
  OBVIOUS
<1> DEFINE I == TurnInv /\ LockersOnly /\ FileInv
<1>1. Init => I
  BY InitTurn, InitFile DEF LockersOnly, Init, Idle
<1>2. I /\ [Next]_vars => I'
  <2>1. LockersOnly' => InTurn'
    BY DEF LockersOnly, InTurn, Busy
  <2>. QED  BY <2>1, LockersStayLockers, NextTurn, NextFile
<1>3. I => GeometryIsHistory
  BY FilesAreCoherent
<1>. QED  BY <1>1, <1>2, <1>3, PTL DEF Spec

-----------------------------------------------------------------------------
(* The refinement of SerialAssembly.                                       *)

\* What a session shows while only the tools that take the lock are at work.
LockedInv == TurnInv /\ LockersOnly /\ FileInv

LEMMA LockedFacts ==
    ASSUME LockedInv
    PROVE  /\ \A n \in Names : Coherent(n)
           /\ \A i \in Ids : Settled(i) = Kept(i)
           /\ active \in Live
<1>1. \A t \in Threads : thr[t].pc \in {"idle", "exec_wait", "run",
                                        "create_wait"}
  BY DEF LockedInv, LockersOnly, LockPC
<1>2. \A n \in Names : Coherent(n)
  BY <1>1, NothingInHand DEF LockedInv, FileInv
<1>3. \A i \in Ids : Settled(i) = Kept(i)
  BY DEF LockedInv, TurnInv, CallInv, Settled, Kept
<1>4. active \in Live
  BY <1>1 DEF LockedInv, TurnInv, ActiveExists
<1>. QED  BY <1>2, <1>3, <1>4

\* The abstract value of a part is a part.
LEMMA SerialPartFacts ==
    ASSUME LockedInv, NEW n \in Live
    PROVE  /\ SerialPart(n) = [history |-> Kept(parts[n]),
                               geometry |-> brep[n].code,
                               source |-> heap[parts[n]].source,
                               colour |-> heap[parts[n]].colour]
           /\ SerialPart(n) \in SerialParts /\ SerialPart(n) # Absent
           /\ parts[n] \in Ids /\ n \in Names
<1>1. parts[n] \in Ids /\ heap[parts[n]] \in Part /\ brep[n] \in Geometry
      /\ n \in Names
  BY DEF LockedInv, TurnInv, TypeOK, Live
<1>2. Settled(parts[n]) = Kept(parts[n])
  BY <1>1, LockedFacts
<1>3. Kept(parts[n]) \in History
  BY <1>1 DEF Kept, LockedInv, TurnInv, TypeOK, Frame, Part
<1>4. SerialPart(n) \in SerialParts
  BY <1>1, <1>2, <1>3 DEF SerialPart, SerialParts, Part, Geometry
<1>. QED  BY <1>1, <1>2, <1>4, AbsentAssumption DEF SerialPart

LEMMA PresentIsLive == LockedInv => Serial!Present = Live
<1>. SUFFICES ASSUME LockedInv PROVE Serial!Present = Live
  OBVIOUS
<1>1. \A n \in Names : SerialModel[n] # Absent <=> n \in Live
  BY SerialPartFacts DEF SerialModel
<1>. QED  BY <1>1 DEF Serial!Present, Live

\* Nothing shows of a step that leaves every part its file, source, colour
\* and settled history.
LEMMA SerialStutters ==
    ASSUME LockedInv, LockedInv', UNCHANGED <<parts, active, brep>>,
           \A i \in Ids : /\ Kept(i)' = Kept(i)
                          /\ heap'[i].source = heap[i].source
                          /\ heap'[i].colour = heap[i].colour
    PROVE  UNCHANGED Serial!svars
<1>1. Live' = Live
  BY DEF Live
<1>2. \A n \in Live : SerialPart(n)' = SerialPart(n)
  <2>. SUFFICES ASSUME NEW n \in Live
                PROVE  SerialPart(n)' = SerialPart(n)
    OBVIOUS
  <2>1. parts[n] \in Ids
    BY SerialPartFacts
  <2>2. Settled(parts[n])' = Settled(parts[n])
    <3>1. \A i \in Ids : Settled(i) = Kept(i) /\ Settled(i)' = Kept(i)'
      BY LockedFacts, LockedInv' DEF LockedInv, TurnInv, CallInv, Settled, Kept
    <3>. QED  BY <2>1, <3>1
  <2>. QED  BY <2>1, <2>2 DEF SerialPart
<1>3. SerialModel' = SerialModel
  BY <1>1, <1>2 DEF SerialModel
<1>. QED  BY <1>3 DEF Serial!svars

\* The instance of SerialAssembly counts with the same operator.
LEMMA SameCardinality ==
    ASSUME NEW S
    PROVE  Serial!Cardinality(S) = Cardinality(S)
BY DEF Cardinality, Serial!Cardinality

\* The record that a successful run leaves.
LEMMA ExecutedPart ==
    ASSUME NEW r \in SerialParts, NEW h \in History
    PROVE  [r EXCEPT !.history = h, !.geometry = h, !.source = "cadquery"]
           = [history |-> h, geometry |-> h, source |-> "cadquery",
              colour |-> r.colour]
<1> DEFINE q == [r EXCEPT !.history = h, !.geometry = h,
                          !.source = "cadquery"]
           s == [history |-> h, geometry |-> h, source |-> "cadquery",
                 colour |-> r.colour]
<1>1. q \in SerialParts /\ s \in SerialParts
  BY DEF SerialParts, Source
<1>2. /\ q.history = s.history /\ q.geometry = s.geometry
      /\ q.source = s.source /\ q.colour = s.colour
  BY DEF SerialParts
<1>. HIDE DEF q, s
<1>3. q = s
  BY <1>1, <1>2 DEF SerialParts
<1>. QED  BY <1>3 DEF q, s

\* A run that succeeds is Execute, on the history it began with.
LEMMA ExecOkIsExecute ==
    ASSUME LockedInv, LockedInv', RunsReport, NEW t \in Threads, ExecOk(t)
    PROVE  Serial!Execute
<1> DEFINE id == parts[active]
           h == thr[t].code
<1>1. RunEnds(t)
  BY ExecEnds
<1>2. /\ active \in Live /\ active \in Names /\ id \in Ids
      /\ lock = t /\ lock' = NoThread /\ NoThread \notin Threads
      /\ thr[t].pid = id /\ UNCHANGED <<parts, active>> /\ Live' = Live
  BY <1>1, RunFacts DEF RunEnds, LockedInv
<1>3. PICK c \in Codes : h \in {<<c>>, Append(thr[t].prev, c)}
  BY <1>1 DEF RunEnds, LockedInv, TurnInv, CallInv
<1>4. Kept(id) = thr[t].prev /\ \A i \in Ids : Kept(i)' = heap'[i].history
  BY <1>2 DEF Kept
<1>5. brep' = [brep EXCEPT ![active] = Built(id, h)]
  BY <1>2 DEF ExecOk, RunsReport
<1>6. /\ heap'[id].history = heap[id].history
      /\ heap'[id].source = "cadquery"
      /\ heap'[id].colour = heap[id].colour
      /\ heap[id].history = h
      /\ \A i \in Ids : i # id => heap'[i] = heap[i]
  BY <1>1, <1>2, RunFacts DEF ExecOk, LockedInv, TurnInv, TypeOK, Part
<1>7. SerialPart(active)' = [history |-> h, geometry |-> h,
                             source |-> "cadquery", colour |-> heap[id].colour]
  <2>1. brep'[active] = Built(id, h)
    BY <1>2, <1>5 DEF LockedInv, TurnInv, TypeOK
  <2>2. Settled(id)' = h
    <3>1. Settled(id)' = Kept(id)'
      BY <1>2, LockedInv' DEF LockedInv, TurnInv, CallInv, Settled, Kept
    <3>. QED  BY <1>2, <1>4, <1>6, <3>1
  <2>. QED  BY <1>2, <1>6, <2>1, <2>2 DEF SerialPart, Built
<1>8. SerialModel[active] = [history |-> thr[t].prev,
                             geometry |-> brep[active].code,
                             source |-> heap[id].source,
                             colour |-> heap[id].colour]
  BY <1>2, <1>4, SerialPartFacts DEF SerialModel
<1>9. \A n \in Live : n # active => SerialPart(n)' = SerialPart(n)
  <2>. SUFFICES ASSUME NEW n \in Live, n # active
                PROVE  SerialPart(n)' = SerialPart(n)
    OBVIOUS
  <2>1. parts[n] \in Ids /\ parts[n] # id /\ n \in Names
    BY <1>2, SerialPartFacts DEF LockedInv, TurnInv, IdInv
  <2>2. Settled(parts[n]) = Kept(parts[n])
    BY <2>1, LockedFacts
  <2>3. Settled(parts[n])' = Kept(parts[n])'
    BY <1>2, <2>1, LockedInv' DEF LockedInv, TurnInv, CallInv, Settled, Kept
  <2>4. Kept(parts[n])' = Kept(parts[n])
    BY <1>2, <1>6, <2>1 DEF Kept
  <2>5. brep'[n] = brep[n]
    BY <1>5, <2>1 DEF LockedInv, TurnInv, TypeOK
  <2>. QED  BY <1>2, <1>6, <2>1, <2>2, <2>3, <2>4, <2>5 DEF SerialPart
<1>10. SerialModel' = [SerialModel EXCEPT ![active].history = h,
                                          ![active].geometry = h,
                                          ![active].source = "cadquery"]
  <2>1. \A n \in Names : SerialModel'[n] =
          IF n = active THEN SerialPart(active)' ELSE SerialModel[n]
    BY <1>2, <1>9 DEF SerialModel
  <2>2. \A n \in Names : SerialModel'[n] =
          IF n = active THEN [SerialModel[active] EXCEPT !.history = h,
                                                        !.geometry = h,
                                                        !.source = "cadquery"]
          ELSE SerialModel[n]
    <3>. HIDE DEF h
    <3>0. h \in History /\ SerialModel[active] \in SerialParts
          /\ SerialModel[active].colour = heap[id].colour
      <4>1. h \in History
        BY DEF h, LockedInv, TurnInv, TypeOK, Frame
      <4>. QED  BY <1>2, <1>8, <4>1, SerialPartFacts DEF SerialModel
    <3>1. [SerialModel[active] EXCEPT !.history = h, !.geometry = h,
                                      !.source = "cadquery"]
            = [history |-> h, geometry |-> h, source |-> "cadquery",
               colour |-> heap[id].colour]
      BY <3>0, ExecutedPart
    <3>. QED  BY <1>7, <2>1, <3>1
  <2>3. SerialModel' = [n \in Names |-> SerialModel'[n]]
    BY DEF SerialModel
  <2>4. SerialModel = [n \in Names |-> SerialModel[n]]
    BY DEF SerialModel
  <2>. HIDE DEF h
  <2>. QED  BY <1>2, <2>2, <2>3, <2>4
<1>11. h \in {<<c>>, Append(SerialModel[active].history, c)}
  BY <1>3, <1>8
<1>. HIDE DEF h
<1>. QED
  BY <1>2, <1>10, <1>11, PresentIsLive DEF Serial!Execute

\* An insertion is Create, with the colour chosen before the lock was taken.
LEMMA CreateInsertIsCreate ==
    ASSUME LockedInv, LockedInv', NEW t \in Threads, CreateInsert(t)
    PROVE  Serial!Create(thr[t].name, thr[t].colour)
<1> DEFINE n == thr[t].name
           c == thr[t].colour
<1>0. TurnInv
  BY DEF LockedInv
<1>1. n \in Names \ Live /\ Cardinality(Live) < MaxParts
  BY <1>0, InsertFacts DEF CreateInsert, InsertPart, MayInsert
<1>2. /\ lock \notin Threads /\ lock' \notin Threads
      /\ Live' = Live \cup {n} /\ active' = n
      /\ parts'[n] = nextId /\ nextId \in Ids /\ brep' = brep
      /\ heap'[nextId] = NewPart(c)
  BY <1>0, InsertFacts
<1>4. \A i \in Ids : Settled(i) = heap[i].history
                     /\ Settled(i)' = heap'[i].history
  <2>1. \A u \in Threads : thr[u].pc # "run"
    BY <1>0, <1>2 DEF TurnInv, CallInv
  <2>2. \A u \in Threads : thr'[u].pc # "run"
    BY <1>2, LockedInv' DEF LockedInv, TurnInv, CallInv
  <2>. QED  BY <2>1, <2>2 DEF Settled
<1>5. brep[n] = NoGeometry
  BY <1>1, LockedFacts DEF Coherent
<1>6. SerialModel'[n] = Serial!EmptyPart(c)
  <2>1. SerialModel'[n] = [history |-> heap'[nextId].history,
                           geometry |-> brep[n].code,
                           source |-> heap'[nextId].source,
                           colour |-> heap'[nextId].colour]
    BY <1>1, <1>2, <1>4 DEF SerialModel, SerialPart
  <2>. QED
    BY <1>2, <1>5, <2>1 DEF NewPart, NoGeometry, Serial!EmptyPart
<1>7. \A m \in Live : SerialPart(m)' = SerialPart(m)
  <2>. SUFFICES ASSUME NEW m \in Live
                PROVE  SerialPart(m)' = SerialPart(m)
    OBVIOUS
  <2>1. parts'[m] = parts[m] /\ parts[m] \in Ids /\ parts[m] # nextId
        /\ heap'[parts[m]] = heap[parts[m]]
    BY <1>0, InsertFacts
  <2>. QED  BY <1>2, <1>4, <2>1 DEF SerialPart
<1>8. \A m \in Names : SerialModel'[m] =
        IF m = n THEN Serial!EmptyPart(c) ELSE SerialModel[m]
  <2>1. \A m \in Names \ {n} : SerialModel'[m] = SerialModel[m]
    BY <1>1, <1>2, <1>7 DEF SerialModel
  <2>. QED  BY <1>6, <2>1
<1>9. SerialModel' = [SerialModel EXCEPT ![n] = Serial!EmptyPart(c)]
  BY <1>8 DEF SerialModel
<1>10. Serial!Cardinality(Serial!Present) < MaxParts
  BY <1>1, PresentIsLive, SameCardinality
<1>. QED  BY <1>1, <1>2, <1>9, <1>10, PresentIsLive DEF Serial!Create

\* Every other step of a tool that takes the lock shows nothing.
LEMMA LockedStep ==
    RunsReport /\ LockedInv /\ LockedInv' /\ [Next]_vars
        => [Serial!SNext]_(Serial!svars)
<1>. SUFFICES ASSUME RunsReport, LockedInv, LockedInv', [Next]_vars
              PROVE  Serial!SNext \/ UNCHANGED Serial!svars
  OBVIOUS
<1>0. TurnInv /\ TurnInv' /\ TypeOK /\ TypeOK' /\ InTurn' /\ IdInv'
  BY LockedInv' DEF LockedInv, TurnInv
<1> DEFINE Same == /\ UNCHANGED <<parts, active, brep>>
                   /\ \A i \in Ids : /\ Kept(i)' = Kept(i)
                                     /\ heap'[i].source = heap[i].source
                                     /\ heap'[i].colour = heap[i].colour
<1>1. CASE UNCHANGED vars
  <2>1. Same
    BY <1>1 DEF vars, Kept
  <2>. QED  BY <2>1, SerialStutters
<1>2. ASSUME NEW t \in Threads, Begin(t)
      PROVE  UNCHANGED Serial!svars
  <2>1. /\ thr[t].pc = "idle" /\ \A u \in Threads \ {t} : thr'[u] = thr[u]
        /\ UNCHANGED <<parts, active, heap, brep, lock>>
    BY <1>0, <1>2, BeginTurn
  <2>2. lock # t
    BY <1>0, <2>1 DEF TurnInv, CallInv
  <2>3. Same
    BY <2>1, <2>2 DEF Kept
  <2>. QED  BY <2>3, SerialStutters
<1>3. ASSUME NEW t \in Threads, Step(t)
      PROVE  Serial!SNext \/ UNCHANGED Serial!svars
  <2>0. thr[t].pc \in {"idle", "exec_wait", "run", "create_wait"}
    BY DEF LockedInv, LockersOnly, LockPC
  <2>1. ASSUME NEW c \in Codes, NEW m \in {"replace", "append"},
               ExecBegin(t, c, m)
        PROVE  UNCHANGED Serial!svars
    <3>1. Same
      BY <1>0, <2>1, ExecBeginFacts DEF Kept
    <3>. QED  BY <3>1, SerialStutters
  <2>2. CASE ExecRefuse(t) \/ CreateRefuse(t)
    <3>1. /\ thr[t].pc # "run" /\ thr' = [thr EXCEPT ![t] = Idle]
          /\ UNCHANGED <<parts, active, heap, brep, lock>>
      BY <2>2 DEF ExecRefuse, CreateRefuse, Return
    <3>2. lock # t /\ \A u \in Threads \ {t} : thr'[u] = thr[u]
      BY <1>0, <3>1 DEF TurnInv, CallInv, TypeOK
    <3>3. Same
      BY <3>1, <3>2 DEF Kept
    <3>. QED  BY <3>3, SerialStutters
  <2>3. CASE ExecOk(t)
    BY <2>3, ExecOkIsExecute DEF Serial!SNext
  <2>4. CASE ExecFailed(t)
    <3>1. RunEnds(t)
      BY <2>4, ExecEnds
    <3>2. /\ lock = t /\ lock' = NoThread /\ NoThread \notin Threads
          /\ thr[t].pid = parts[active] /\ parts[active] \in Ids
          /\ UNCHANGED <<parts, active>>
      BY <1>0, <3>1, RunFacts DEF RunEnds
    <3>3. /\ heap' = [heap EXCEPT ![thr[t].pid].history = thr[t].prev]
          /\ UNCHANGED brep
      BY <2>4 DEF ExecFailed, RollBack
    <3>4. /\ heap'[thr[t].pid].history = thr[t].prev
          /\ \A i \in Ids : /\ i # thr[t].pid => heap'[i] = heap[i]
                            /\ heap'[i].source = heap[i].source
                            /\ heap'[i].colour = heap[i].colour
      BY <1>0, <3>2, <3>3 DEF TypeOK, Part
    <3>5. Same
      BY <3>2, <3>3, <3>4 DEF Kept
    <3>. QED  BY <3>5, SerialStutters
  <2>5. CASE CreateInsert(t)
    <3>1. thr[t].name \in Names /\ thr[t].colour \in Colours
      BY <1>0 DEF TypeOK, Frame
    <3>. QED  BY <2>5, <3>1, CreateInsertIsCreate DEF Serial!SNext
  <2>. QED
    BY <1>3, <2>0, <2>1, <2>2, <2>3, <2>4, <2>5
    DEF Step, ExecRaised, RunsReport, SetActiveAssign, DeleteUnlink,
        DeleteEntry, DeleteKeyError, DeleteRepoint, GenDownloaded, GenFailed,
        GenSew, GenRecord
<1>. QED  BY <1>1, <1>2, <1>3 DEF Next

LEMMA InitSerial == Init => Serial!SInit
<1>. SUFFICES ASSUME Init PROVE Serial!SInit
  OBVIOUS
<1>1. Live = {Main} /\ parts[Main] = 1 /\ 1 \in Ids /\ 0 \in Colours
  BY AssemblyAssumption DEF Init, Live, Colours
<1>2. Settled(1) = <<>>
  BY <1>1 DEF Init, Settled, Idle, NewPart
<1>3. SerialPart(Main) = Serial!EmptyPart(0)
  BY <1>1, <1>2, AssemblyAssumption
  DEF Init, SerialPart, NewPart, NoGeometry, Serial!EmptyPart
<1>4. SerialModel = [n \in Names |-> IF n = Main THEN Serial!EmptyPart(0)
                                     ELSE Absent]
  BY <1>1, <1>3 DEF SerialModel
<1>. QED  BY <1>1, <1>4 DEF Init, Serial!SInit

\* Calls of execute_cad and create_part that overlap on a session look, to
\* whoever inspects it, as if they had been made one after another: a session
\* on which no other tool is called implements SerialAssembly.
THEOREM LockersAreSerial ==
    LockTakersOnly /\ RunsReport => (Spec => Serial!SSpec)
<1>. SUFFICES ASSUME LockTakersOnly, RunsReport
              PROVE  Spec => Serial!SSpec
  OBVIOUS
<1>1. Init => LockedInv /\ Serial!SInit
  BY InitTurn, InitFile, InitSerial DEF LockedInv, LockersOnly, Init, Idle
<1>2. LockedInv /\ [Next]_vars => LockedInv'
  <2>1. LockersOnly' => InTurn'
    BY DEF LockersOnly, InTurn, Busy
  <2>. QED  BY <2>1, LockersStayLockers, NextTurn, NextFile DEF LockedInv
<1>3. LockedInv /\ LockedInv' /\ [Next]_vars => [Serial!SNext]_(Serial!svars)
  BY LockedStep
<1>. QED  BY <1>1, <1>2, <1>3, PTL DEF Spec, Serial!SSpec

\* The same of a crew that keeps to these tools, whatever tools the session
\* would offer it: each of its steps is a step of SerialAssembly or shows
\* nothing.
THEOREM CrewIsSerial == RunsReport => (CrewSpec => LockedCallsAreAtomic)
<1>. SUFFICES ASSUME RunsReport PROVE CrewSpec => LockedCallsAreAtomic
  OBVIOUS
<1> DEFINE I == CrewInv /\ FileInv
           A == crew = "locked" => Serial!SNext
<1>1. CrewInit => I /\ Serial!SInit
  BY CrewKept, InitFile, InitSerial DEF CrewInit
<1>2. I /\ [CrewNext]_crewVars => I'
  <2>1. CrewInv' => InTurn'
    BY DEF CrewInv, TurnInv
  <2>. QED  BY <2>1, CrewKept, CrewStep, NextFile DEF CrewInv
<1>3. I /\ I' /\ [CrewNext]_crewVars => [A]_(Serial!svars)
  <2>. SUFFICES ASSUME I, I', [CrewNext]_crewVars, crew = "locked"
                PROVE  [Serial!SNext]_(Serial!svars)
    OBVIOUS
  <2>1. [Next]_vars /\ crew' = "locked"
    BY CrewStep
  <2>2. LockedInv /\ LockedInv'
    BY <2>1, I' DEF CrewInv, Disciplined, LockedInv, LockersOnly, Busy
  <2>. QED  BY <2>1, <2>2, LockedStep
<1>. QED  BY <1>1, <1>2, <1>3, PTL DEF CrewSpec, LockedCallsAreAtomic


-----------------------------------------------------------------------------
(* Colours.                                                                *)

\* Calls one after another: a colour chosen is free until it is used.
ColourInv ==
    /\ \A t, u \in Busy : t = u
    /\ \A t \in Threads :
         (thr[t].pc = "create_wait" /\ thr[t].auto /\ FreeColours # {})
             => thr[t].colour \in FreeColours

LEMMA NextColourInv ==
    ASSUME TurnInv, ColourInv, [Next]_vars, \A t, u \in Busy' : t = u
    PROVE  ColourInv'
<1>1. CASE UNCHANGED vars
  BY <1>1 DEF vars, ColourInv, Busy, FreeColours, UsedColours, Live
<1>2. ASSUME NEW t \in Threads, Begin(t)
      PROVE  ColourInv'
  <2>1. UNCHANGED <<parts, heap>> /\ FreeColours' = FreeColours
    BY <1>2 DEF Begin, ExecCall, CreateCall, CreateCallAuto, SetActiveCall,
                DeleteCall, GenCall, FreeColours, UsedColours, Live
  <2>2. /\ thr'[t].pc # "idle"
        /\ thr'[t].pc = "create_wait" /\ thr'[t].auto
             => thr'[t].colour = NextColour
        /\ \A u \in Threads \ {t} : thr'[u] = thr[u]
    <3>. USE DEF TurnInv, TypeOK, Call, Idle
    <3>1. CASE ExecCall(t) \/ GenCall(t)
      BY <3>1 DEF ExecCall, GenCall
    <3>2. ASSUME NEW n \in Names, NEW c \in Colours, CreateCall(t, n, c)
          PROVE  thr'[t].pc # "idle" /\ thr'[t].auto = FALSE
                 /\ \A u \in Threads \ {t} : thr'[u] = thr[u]
      BY <3>2 DEF CreateCall
    <3>3. ASSUME NEW n \in Names, CreateCallAuto(t, n)
          PROVE  thr'[t].pc # "idle" /\ thr'[t].colour = NextColour
                 /\ \A u \in Threads \ {t} : thr'[u] = thr[u]
      BY <3>3 DEF CreateCallAuto
    <3>4. ASSUME NEW n \in Names, SetActiveCall(t, n) \/ DeleteCall(t, n)
          PROVE  thr'[t].pc \in {"assign", "unlink"}
                 /\ \A u \in Threads \ {t} : thr'[u] = thr[u]
      BY <3>4 DEF SetActiveCall, DeleteCall
    <3>. QED  BY <1>2, <3>1, <3>2, <3>3, <3>4 DEF Begin
  <2>3. \A u \in Threads \ {t} : thr'[u].pc = "idle"
    BY <2>2 DEF Busy
  <2>. QED  BY <2>1, <2>2, <2>3, NextColourIsFree DEF ColourInv
<1>3. ASSUME NEW t \in Threads, Step(t)
      PROVE  ColourInv'
  <2>1. /\ thr[t].pc # "idle" /\ thr'[t].pc # "create_wait"
        /\ \A u \in Threads \ {t} : thr'[u] = thr[u]
    <3>1. ASSUME NEW c \in Codes, NEW m \in {"replace", "append"},
                 ExecBegin(t, c, m)
          PROVE  thr[t].pc # "idle" /\ thr'[t].pc = "run"
                 /\ \A u \in Threads \ {t} : thr'[u] = thr[u]
      BY <3>1, ExecBeginFacts DEF ExecBegin
    <3>2. ASSUME NEW pc \in {"remove", "repoint", "record"}, Continue(t, pc)
          PROVE  /\ thr'[t].pc # "create_wait"
                 /\ \A u \in Threads \ {t} : thr'[u] = thr[u]
      BY <3>2 DEF Continue, TurnInv, TypeOK, Frame
    <3>3. ASSUME Return(t)
          PROVE  /\ thr'[t].pc # "create_wait"
                 /\ \A u \in Threads \ {t} : thr'[u] = thr[u]
      BY <3>3 DEF Return, TurnInv, TypeOK, Idle
    <3>4. ASSUME GenDownloaded(t)
          PROVE  /\ thr[t].pc # "idle" /\ thr'[t].pc = "sew"
                 /\ \A u \in Threads \ {t} : thr'[u] = thr[u]
      BY <3>4 DEF GenDownloaded, TurnInv, TypeOK, Frame
    <3>. QED
      BY <1>3, <3>1, <3>2, <3>3, <3>4
      DEF Step, ExecRefuse, ExecOk, ExecFailed, RollBack, ExecRaised,
          CreateInsert, InsertPart, CreateRefuse, SetActiveAssign,
          DeleteUnlink, DeleteEntry, DeleteKeyError, DeleteRepoint,
          GenFailed, GenSew, GenRecord
  <2>2. \A u \in Threads \ {t} : thr'[u].pc = "idle"
    BY <2>1 DEF ColourInv, Busy
  <2>. QED  BY <2>1, <2>2 DEF ColourInv
<1>. QED  BY <1>1, <1>2, <1>3 DEF Next

\* SPEC A4, "Each part gets a distinct color": when parts are created one
\* after another and colours are left, a part created without an explicit
\* colour gets one that no other part has.
THEOREM ColourFreshInTurn == CrewSpec => ColourIsFreshInTurn
<1> DEFINE I == CrewInv /\ (crew = "one" => ColourInv)
           Fresh == \A t \in Threads :
                      (crew = "one" /\ CreateInsert(t) /\ thr[t].auto
                         /\ FreeColours # {}) => thr[t].colour \in FreeColours
<1>1. CrewInit => I
  <2>1. Init => ColourInv
    BY DEF Init, Idle, ColourInv, Busy
  <2>. QED  BY <2>1, CrewKept DEF CrewInit
<1>2. I /\ [CrewNext]_crewVars => I'
  <2>. SUFFICES ASSUME I, [CrewNext]_crewVars PROVE I'
    OBVIOUS
  <2>1. CrewInv' /\ [Next]_vars /\ crew' = crew
    BY CrewKept, CrewStep
  <2>2. CASE crew = "one"
    <3>1. \A t, u \in Busy' : t = u
      BY <2>1, <2>2 DEF CrewInv, Disciplined
    <3>. QED  BY <2>1, <2>2, <3>1, NextColourInv DEF CrewInv
  <2>3. CASE crew # "one"
    BY <2>1, <2>3
  <2>. QED  BY <2>2, <2>3
<1>3. I => [Fresh]_vars
  BY DEF ColourInv, CreateInsert, InsertPart
<1>. QED  BY <1>1, <1>2, <1>3, PTL DEF CrewSpec, ColourIsFreshInTurn

=============================================================================
