---------------------------- MODULE SessionsProofs --------------------------
(***************************************************************************)
(* Theorems about Sessions, for any number of threads, ids and objects.    *)
(***************************************************************************)
EXTENDS Sessions, TLAPS

\* A call that sweeps, and nobody else, owns the registry lock.
Sweeping(t) == thr[t].pc \in {"sweep", "drop"}

RegistryInv == \A t \in Threads : Sweeping(t) <=> registry = t

\* No two ids share an object, and the next one is fresh.
ObjInv ==
    /\ \A s \in Registered : sessions[s] < nextObj
    /\ \A s, r \in Registered : sessions[s] = sessions[r] => s = r

\* A frame without a call is Idle, and reset_session enters no registry.
CallInv ==
    \A t \in Threads :
        /\ thr[t].pc = "idle" => thr[t] = Idle
        /\ thr[t].pc = "enter" => thr[t].tool # "reset"

\* While a sweep lasts nobody registers anything, so what it is to try is
\* registered as it was, or a reset has taken it out.
SweepInv ==
    \A t \in Threads : Sweeping(t) =>
        /\ \A e \in thr[t].todo :
             /\ e.sid \notin {thr[t].sid, Default}
             /\ sessions[e.sid] \in {0, e.obj}
             /\ \A s \in Sids : sessions[s] = e.obj => s = e.sid
        /\ thr[t].pc = "drop" => thr[t].victim \notin {thr[t].sid, Default}

\* A session's lock is held by the call that works on it or by the sweep that
\* takes it out.
HeldInv ==
    /\ \A t \in Threads : thr[t].pc = "work" => held[thr[t].obj] = t
    /\ \A o \in Objs : held[o] \in Threads =>
         LET f == thr[held[o]]
         IN f.pc = "drop" \/ (f.pc = "work" /\ f.obj = o)

\* The object that a call works on is, or was, its own session's.
OwnInv ==
    \A t \in Threads : InFlight(t) =>
        /\ thr[t].obj < nextObj
        /\ \A s \in Registered : sessions[s] = thr[t].obj => s = thr[t].sid

BaseInv == TypeOK /\ RegistryInv /\ ObjInv /\ CallInv /\ SweepInv

-----------------------------------------------------------------------------
(* Patient clients.                                                        *)

\* A client waits for the answer of a call before the next one on its
\* session.
OneCallEach ==
    \A t, u \in Threads :
        (thr[t].pc # "idle" /\ thr[u].pc # "idle" /\ thr[t].sid = thr[u].sid)
            => t = u

\* A call whose session no sweep may take.
Safe(t) == InFlight(t) /\ ~ Overdue(t)

KeptInv ==
    \A t \in Threads :
        /\ Safe(t) =>
             sessions[thr[t].sid] = thr[t].obj /\ thr[t].obj \in dirs
        /\ Sweeping(t) => sessions[thr[t].sid] = thr[t].obj

\* A call that waits for its session's lock has been handed it a moment ago.
ClockInv ==
    \A t \in Threads : thr[t].pc = "wait" => lastUsed[thr[t].obj] = now

\* Of the sessions that a sweep is to try, those in use are locked, except by
\* overdue calls.
VictimInv ==
    \A t \in Threads : Sweeping(t) =>
        /\ \A e \in thr[t].todo, u \in Threads :
             Safe(u) /\ thr[u].obj = e.obj => thr[u].pc = "work"
        /\ thr[t].pc = "drop" =>
             \A u \in Threads : Safe(u) => thr[u].sid # thr[t].victim

DirInv == \A s \in Registered : BeingDropped(s) \/ sessions[s] \in dirs

PatientInv == OneCallEach /\ KeptInv /\ ClockInv /\ VictimInv /\ DirInv

Inv == BaseInv /\ HeldInv /\ OwnInv /\ (patient => PatientInv)

-----------------------------------------------------------------------------
(* Frames.                                                                 *)

Outside == [pc: {"idle", "enter", "reset", "reset_del"}, tool: Tools,
            sid: Sids, obj: {0}, todo: {{}}, victim: Sids]
InRegistry == [pc: {"sweep", "drop"}, tool: {"locking", "awaiting"},
               sid: Sids, obj: Objs \union {0}, todo: SUBSET Entry,
               victim: Sids]
AtWork == [pc: {"wait", "work", "await"}, tool: {"locking", "awaiting"},
           sid: Sids, obj: Objs, todo: {{}}, victim: Sids]

LEMMA FrameParts == Frame = Outside \union InRegistry \union AtWork
BY DEF Frame, Outside, InRegistry, AtWork

LEMMA FrameFacts ==
    ASSUME NEW f \in Frame
    PROVE  /\ f.sid \in Sids /\ f.victim \in Sids /\ f.tool \in Tools
           /\ f.obj \in Objs \union {0}
           /\ f.todo \subseteq Entry
           /\ f.pc \in {"idle", "enter", "reset", "reset_del", "sweep", "drop",
                        "wait", "work", "await"}
           /\ f.pc \in {"idle", "enter", "reset", "reset_del"} => f \in Outside
           /\ f.pc \in {"sweep", "drop"} => f \in InRegistry
           /\ f.pc \in {"wait", "work", "await"} =>
                f \in AtWork /\ f.obj \in Objs
BY FrameParts DEF Outside, InRegistry, AtWork, Tools

LEMMA IdleFrame == Idle \in Frame /\ Idle \in Outside /\ Idle.pc = "idle"
BY FrameParts, SessionsAssumption DEF Idle, Outside, Tools

LEMMA ObjFacts == 0 \notin Objs /\ \A o \in Objs : o \in Nat
BY SessionsAssumption

\* The thread that a step is of, and the others.
Others(t) == \A u \in Threads \ {t} : thr'[u] = thr[u]

LEMMA Returns ==
    ASSUME TypeOK, NEW t \in Threads, Return(t)
    PROVE  /\ thr' \in [Threads -> Frame]
           /\ thr'[t] = Idle /\ thr'[t].pc = "idle"
           /\ Others(t)
BY IdleFrame DEF TypeOK, Return, Others

-----------------------------------------------------------------------------
(* What each step does to its own frame.                                   *)

LEMMA CallMoves ==
    ASSUME TypeOK, NEW t \in Threads, NEW tool \in Tools, NEW s \in Sids,
           Call(t, tool, s)
    PROVE  /\ thr' \in [Threads -> Frame] /\ Others(t)
           /\ thr[t] = Idle
           /\ thr'[t].pc \in {"enter", "reset"} /\ thr'[t].sid = s
           /\ thr'[t].pc = "enter" => thr'[t].tool # "reset"
<1> DEFINE pc == IF tool = "reset" THEN "reset" ELSE "enter"
           f == [Idle EXCEPT !.pc = pc, !.tool = tool, !.sid = s]
<1>1. f \in Outside
  BY SessionsAssumption DEF Outside, Idle
<1>2. f \in Frame /\ f.pc = pc /\ f.tool = tool /\ f.sid = s
  BY <1>1, FrameParts DEF Idle
<1>3. thr' = [thr EXCEPT ![t] = f]
  BY DEF Call
<1>4. thr'[t] = f
  BY <1>3 DEF TypeOK
<1> QED
  BY <1>2, <1>3, <1>4 DEF TypeOK, Call, Others

LEMMA EnterMoves ==
    ASSUME TypeOK, CallInv, NEW t \in Threads, Enter(t)
    PROVE  /\ thr' \in [Threads -> Frame] /\ Others(t)
           /\ thr[t].pc = "enter" /\ thr'[t].pc = "sweep"
           /\ thr'[t].sid = thr[t].sid
           /\ thr'[t].obj = sessions[thr[t].sid]
           /\ thr'[t].todo = ToSweep(thr[t].sid)
<1> DEFINE s == thr[t].sid
           f == [thr[t] EXCEPT !.pc = "sweep", !.obj = sessions[s],
                               !.todo = ToSweep(s)]
<1>1. thr[t] \in Frame /\ thr[t].pc = "enter" /\ thr[t].tool # "reset"
  BY DEF TypeOK, CallInv, Enter
<1>2. thr[t] \in Outside /\ s \in Sids /\ thr[t].tool \in Tools
  BY <1>1, FrameFacts
<1>3. ToSweep(s) \in SUBSET Entry /\ sessions[s] \in Objs \union {0}
  BY <1>2 DEF TypeOK, ToSweep, Snapshot
<1>4. f \in InRegistry
  <2> HIDE DEF ToSweep
  <2> QED  BY <1>1, <1>2, <1>3 DEF Outside, InRegistry, Tools
<1>5. /\ f \in Frame /\ f.pc = "sweep" /\ f.sid = s /\ f.obj = sessions[s]
      /\ f.todo = ToSweep(s)
  BY <1>2, <1>4, FrameParts DEF Outside
<1>6. thr' = [thr EXCEPT ![t] = f]
  BY <1>1 DEF Enter, TypeOK
<1>7. thr'[t] = f
  BY <1>6 DEF TypeOK
<1> QED
  BY <1>1, <1>5, <1>6, <1>7 DEF TypeOK, Others

LEMMA SkipMoves ==
    ASSUME TypeOK, NEW t \in Threads, SweepSkip(t)
    PROVE  /\ thr' \in [Threads -> Frame] /\ Others(t)
           /\ thr[t].pc = "sweep" /\ thr'[t].pc = "sweep"
           /\ thr'[t].sid = thr[t].sid /\ thr'[t].obj = thr[t].obj
           /\ thr'[t].todo \subseteq thr[t].todo
<1> PICK e \in thr[t].todo : thr' = [thr EXCEPT ![t].todo = @ \ {e}]
  BY DEF SweepSkip
<1> DEFINE f == [thr[t] EXCEPT !.todo = @ \ {e}]
<1>1. thr[t] \in Frame /\ thr[t].pc = "sweep"
  BY DEF TypeOK, SweepSkip
<1>2. thr[t] \in InRegistry
  BY <1>1, FrameFacts
<1>3. /\ f \in InRegistry /\ f.pc = "sweep" /\ f.sid = thr[t].sid
      /\ f.obj = thr[t].obj /\ f.todo = thr[t].todo \ {e}
  BY <1>1, <1>2 DEF InRegistry
<1>4. thr' = [thr EXCEPT ![t] = f]
  BY DEF TypeOK
<1>5. thr'[t] = f
  BY <1>4 DEF TypeOK
<1> QED
  BY <1>1, <1>3, <1>4, <1>5, FrameParts DEF TypeOK, Others

LEMMA CleanMoves ==
    ASSUME TypeOK, NEW t \in Threads, NEW e \in thr[t].todo,
           thr[t].pc = "sweep",
           thr' = [thr EXCEPT ![t].pc = "drop", ![t].victim = e.sid,
                              ![t].todo = @ \ {e}]
    PROVE  /\ thr' \in [Threads -> Frame] /\ Others(t)
           /\ e \in Entry
           /\ thr'[t].pc = "drop" /\ thr'[t].victim = e.sid
           /\ thr'[t].sid = thr[t].sid /\ thr'[t].obj = thr[t].obj
           /\ thr'[t].todo = thr[t].todo \ {e}
<1> DEFINE f == [thr[t] EXCEPT !.pc = "drop", !.victim = e.sid,
                               !.todo = @ \ {e}]
<1>1. thr[t] \in Frame
  BY DEF TypeOK
<1>2. thr[t] \in InRegistry /\ e \in Entry
  BY <1>1, FrameFacts
<1>3. /\ f \in InRegistry /\ f.pc = "drop" /\ f.victim = e.sid
      /\ f.sid = thr[t].sid
      /\ f.obj = thr[t].obj /\ f.todo = thr[t].todo \ {e}
  BY <1>2 DEF InRegistry, Entry
<1>4. thr' = [thr EXCEPT ![t] = f]
  BY DEF TypeOK
<1>5. thr'[t] = f
  BY <1>4 DEF TypeOK
<1> QED
  BY <1>2, <1>3, <1>4, <1>5, FrameParts DEF TypeOK, Others

\* Back to the sweep, or from the lock to work: only the place changes.
LEMMA PlaceMoves ==
    ASSUME TypeOK, NEW t \in Threads, NEW pc,
           \/ thr[t].pc = "drop" /\ pc = "sweep"
           \/ thr[t].pc = "wait" /\ pc = "work"
           \/ thr[t].pc = "reset" /\ pc = "reset_del",
           thr' = [thr EXCEPT ![t].pc = pc]
    PROVE  /\ thr' \in [Threads -> Frame] /\ Others(t)
           /\ thr'[t].pc = pc
           /\ thr'[t].sid = thr[t].sid /\ thr'[t].obj = thr[t].obj
           /\ thr'[t].todo = thr[t].todo
<1> DEFINE f == [thr[t] EXCEPT !.pc = pc]
<1>1. thr[t] \in Frame
  BY DEF TypeOK
<1>2. /\ f \in Frame /\ f.pc = pc /\ f.sid = thr[t].sid
      /\ f.obj = thr[t].obj /\ f.todo = thr[t].todo
  <2>1. CASE thr[t].pc = "drop" /\ pc = "sweep"
    BY <1>1, <2>1, FrameFacts, FrameParts DEF InRegistry
  <2>2. CASE thr[t].pc = "wait" /\ pc = "work"
    BY <1>1, <2>2, FrameFacts, FrameParts DEF AtWork
  <2>3. CASE thr[t].pc = "reset" /\ pc = "reset_del"
    BY <1>1, <2>3, FrameFacts, FrameParts DEF Outside
  <2> QED  BY <2>1, <2>2, <2>3
<1>3. thr' = [thr EXCEPT ![t] = f]
  BY DEF TypeOK
<1>4. thr'[t] = f
  BY <1>3 DEF TypeOK
<1> QED
  BY <1>2, <1>3, <1>4 DEF TypeOK, Others

LEMMA HandOutMoves ==
    ASSUME TypeOK, NEW t \in Threads, HandOut(t), NEW o,
           o = IF thr[t].sid \in Registered
               THEN sessions[thr[t].sid] ELSE nextObj
    PROVE  /\ thr' \in [Threads -> Frame] /\ Others(t)
           /\ o \in Objs
           /\ thr[t].pc = "sweep" /\ thr'[t].pc \in {"wait", "await"}
           /\ thr'[t].sid = thr[t].sid /\ thr'[t].obj = o
<1> DEFINE pc == IF thr[t].tool = "locking" THEN "wait" ELSE "await"
           f == [thr[t] EXCEPT !.obj = o, !.pc = pc]
<1>1. thr[t] \in Frame /\ thr[t].pc = "sweep" /\ thr[t].todo = {}
  BY DEF TypeOK, HandOut
<1>2. thr[t] \in InRegistry
  BY <1>1, FrameFacts
<1>3. o \in Objs /\ thr' = [thr EXCEPT ![t].obj = o, ![t].pc = pc]
  BY DEF HandOut
<1>4. /\ f \in AtWork /\ f.pc = pc /\ f.sid = thr[t].sid /\ f.obj = o
  BY <1>1, <1>2, <1>3 DEF InRegistry, AtWork
<1>5. thr' = [thr EXCEPT ![t] = f]
  BY <1>3 DEF TypeOK
<1>6. thr'[t] = f
  BY <1>5 DEF TypeOK
<1> QED
  BY <1>1, <1>3, <1>4, <1>5, <1>6, FrameParts DEF TypeOK, Others

-----------------------------------------------------------------------------
(* The part that no habit of the clients matters to.                       *)

LEMMA BaseInit == Init => BaseInv
<1> SUFFICES ASSUME Init PROVE BaseInv
  OBVIOUS
<1>1. TypeOK
  BY IdleFrame, SessionsAssumption DEF Init, TypeOK
<1>2. \A t \in Threads : thr[t] = Idle /\ ~ Sweeping(t)
  BY DEF Init, Sweeping, Idle
<1>3. RegistryInv
  BY <1>2, SessionsAssumption DEF Init, RegistryInv
<1>4. ObjInv
  BY DEF Init, ObjInv, Registered
<1>5. CallInv
  BY <1>2 DEF CallInv, Idle
<1>6. SweepInv
  BY <1>2 DEF SweepInv
<1> QED
  BY <1>1, <1>3, <1>4, <1>5, <1>6 DEF BaseInv

\* A step that leaves the registry and its lock alone, of a thread that does
\* not sweep before it nor after.
LEMMA OutsideTheRegistry ==
    ASSUME BaseInv, TypeOK', NEW t \in Threads, Others(t),
           ~ Sweeping(t), ~ Sweeping(t)',
           thr'[t].pc = "idle" => thr'[t] = Idle,
           thr'[t].pc = "enter" => thr'[t].tool # "reset",
           UNCHANGED <<sessions, registry, nextObj>>
    PROVE  BaseInv'
<1>1. RegistryInv'
  BY DEF BaseInv, RegistryInv, Sweeping, Others
<1>2. ObjInv'
  BY DEF BaseInv, ObjInv, Registered
<1>3. CallInv'
  BY DEF BaseInv, CallInv, Others
<1>4. SweepInv'
  BY DEF BaseInv, SweepInv, Sweeping, Others
<1> QED
  BY <1>1, <1>2, <1>3, <1>4 DEF BaseInv

LEMMA CallBase ==
    ASSUME BaseInv, NEW t \in Threads, NEW tool \in Tools, NEW s \in Sids,
           Call(t, tool, s)
    PROVE  BaseInv'
<1>1. TypeOK
  BY DEF BaseInv
<1>2. /\ thr' \in [Threads -> Frame] /\ Others(t) /\ thr[t] = Idle
      /\ thr'[t].pc \in {"enter", "reset"}
      /\ thr'[t].pc = "enter" => thr'[t].tool # "reset"
  BY <1>1, CallMoves
<1>3. calls' \in Nat
  BY <1>1 DEF TypeOK, Call
<1>4. TypeOK'
  BY <1>1, <1>2, <1>3 DEF TypeOK, Call
<1>5. ~ Sweeping(t) /\ ~ Sweeping(t)'
  BY <1>2, IdleFrame DEF Sweeping
<1> QED
  BY <1>2, <1>4, <1>5, OutsideTheRegistry DEF Call

LEMMA EnterBase ==
    ASSUME BaseInv, NEW t \in Threads, Enter(t)
    PROVE  BaseInv'
<1> DEFINE s == thr[t].sid
<1>1. TypeOK /\ CallInv
  BY DEF BaseInv
<1>2. TypeOK'
  BY <1>1, EnterMoves DEF TypeOK, Enter
<1>3. \A u \in Threads : ~ Sweeping(u)
  BY SessionsAssumption DEF BaseInv, RegistryInv, Enter
<1>4. \A u \in Threads : Sweeping(u)' <=> u = t
  BY <1>1, <1>3, EnterMoves DEF Sweeping, Others
<1>5. RegistryInv'
  BY <1>4 DEF RegistryInv, Enter
<1>6. ObjInv'
  BY DEF BaseInv, ObjInv, Registered, Enter
<1>7. CallInv'
  BY <1>1, EnterMoves DEF CallInv, Others
<1>8. SweepInv'
  <2> SUFFICES ASSUME NEW e \in ToSweep(s)
               PROVE  /\ e.sid \notin {s, Default}
                      /\ sessions[e.sid] = e.obj
                      /\ \A r \in Sids : sessions[r] = e.obj => r = e.sid
    <3> HIDE DEF s
    <3>1. sessions' = sessions /\ thr'[t].todo = ToSweep(s)
          /\ thr'[t].pc = "sweep" /\ thr'[t].sid = s
      BY <1>1, EnterMoves DEF Enter, s
    <3> QED  BY <1>4, <3>1 DEF SweepInv
  <2>1. e \in Entry /\ e.sid \notin {s, Default} /\ sessions[e.sid] = e.obj
    BY DEF ToSweep, Snapshot
  <2>2. e.sid \in Registered
    BY <2>1, ObjFacts DEF Entry, Registered
  <2>3. ASSUME NEW r \in Sids, sessions[r] = e.obj PROVE r = e.sid
    BY <2>1, <2>2, <2>3, ObjFacts DEF BaseInv, ObjInv, Registered
  <2> QED  BY <2>1, <2>3
<1> QED
  BY <1>2, <1>5, <1>6, <1>7, <1>8 DEF BaseInv

LEMMA SkipBase ==
    ASSUME BaseInv, NEW t \in Threads, SweepSkip(t)
    PROVE  BaseInv'
<1>1. TypeOK /\ TypeOK'
  BY SkipMoves DEF BaseInv, TypeOK, SweepSkip
<1>2. RegistryInv'
  BY <1>1, SkipMoves DEF BaseInv, RegistryInv, Sweeping, Others, SweepSkip
<1>3. ObjInv'
  BY DEF BaseInv, ObjInv, Registered, SweepSkip
<1>4. CallInv'
  BY <1>1, SkipMoves DEF BaseInv, CallInv, Others
<1>5. SweepInv'
  BY <1>1, SkipMoves DEF BaseInv, SweepInv, Sweeping, Others, SweepSkip
<1> QED
  BY <1>1, <1>2, <1>3, <1>4, <1>5 DEF BaseInv

LEMMA CleanBase ==
    ASSUME BaseInv, NEW t \in Threads, SweepClean(t)
    PROVE  BaseInv'
<1> PICK e \in thr[t].todo :
      /\ CleanVictim(t, e)
      /\ thr' = [thr EXCEPT ![t].pc = "drop", ![t].victim = e.sid,
                            ![t].todo = @ \ {e}]
  BY DEF SweepClean
<1>1. TypeOK /\ thr[t].pc = "sweep"
  BY DEF BaseInv, SweepClean
<1>2. TypeOK'
  BY <1>1, CleanMoves DEF TypeOK, SweepClean, CleanVictim
<1>3. RegistryInv'
  BY <1>1, CleanMoves DEF BaseInv, RegistryInv, Sweeping, Others, SweepClean
<1>4. ObjInv'
  BY DEF BaseInv, ObjInv, Registered, SweepClean
<1>5. CallInv'
  BY <1>1, CleanMoves DEF BaseInv, CallInv, Others
<1>6. SweepInv'
  <2>1. /\ Others(t) /\ thr'[t].pc = "drop" /\ thr'[t].victim = e.sid
        /\ thr'[t].sid = thr[t].sid /\ thr'[t].todo = thr[t].todo \ {e}
        /\ sessions' = sessions
    BY <1>1, CleanMoves DEF SweepClean
  <2>2. \A u \in Threads : Sweeping(u)' => u = t
    BY <1>3, <1>1, <2>1 DEF RegistryInv, Sweeping, BaseInv, Others
  <2>3. e.sid \notin {thr[t].sid, Default}
    BY <1>1 DEF BaseInv, SweepInv, Sweeping
  <2> QED
    BY <1>1, <2>1, <2>2, <2>3 DEF BaseInv, SweepInv, Sweeping
<1> QED
  BY <1>2, <1>3, <1>4, <1>5, <1>6 DEF BaseInv

\* What is taken out of the registry was in it: nobody else has to change.
LEMMA TakenOut ==
    ASSUME BaseInv, NEW s \in Sids, sessions' = [sessions EXCEPT ![s] = 0],
           UNCHANGED nextObj
    PROVE  /\ ObjInv'
           /\ sessions' \in [Sids -> Objs \union {0}]
           /\ \A r \in Sids : sessions'[r] \in {0, sessions[r]}
BY ObjFacts DEF BaseInv, TypeOK, ObjInv, Registered

LEMMA DropBase ==
    ASSUME BaseInv, NEW t \in Threads, SweepDrop(t)
    PROVE  BaseInv'
<1> DEFINE v == thr[t].victim
<1>1. /\ TypeOK /\ thr[t].pc = "drop" /\ v \in Sids
      /\ sessions' = [sessions EXCEPT ![v] = 0]
      /\ thr' = [thr EXCEPT ![t].pc = "sweep"]
  BY FrameFacts DEF BaseInv, SweepDrop, TypeOK
<1>2. /\ thr' \in [Threads -> Frame] /\ Others(t) /\ thr'[t].pc = "sweep"
      /\ thr'[t].sid = thr[t].sid /\ thr'[t].todo = thr[t].todo
  BY <1>1, PlaceMoves
<1>3. /\ ObjInv' /\ sessions' \in [Sids -> Objs \union {0}]
      /\ \A r \in Sids : sessions'[r] \in {0, sessions[r]}
  BY <1>1, TakenOut DEF SweepDrop
<1>4. TypeOK'
  BY <1>1, <1>2, <1>3 DEF TypeOK, SweepDrop, ReleaseVictim
<1>5. RegistryInv'
  BY <1>1, <1>2 DEF BaseInv, RegistryInv, Sweeping, Others, SweepDrop
<1>6. CallInv'
  BY <1>1, <1>2 DEF BaseInv, CallInv, Others
<1>7. SweepInv'
  <2> SUFFICES ASSUME NEW u \in Threads, Sweeping(u)'
               PROVE  /\ \A e \in thr'[u].todo :
                           /\ e.sid \notin {thr'[u].sid, Default}
                           /\ sessions'[e.sid] \in {0, e.obj}
                           /\ \A s \in Sids : sessions'[s] = e.obj => s = e.sid
                      /\ thr'[u].pc # "drop"
    BY DEF SweepInv
  <2>1. u = t
    BY <1>1, <1>2 DEF BaseInv, RegistryInv, Sweeping, Others
  <2>2. ASSUME NEW e \in thr[t].todo
        PROVE  /\ e.sid \notin {thr[t].sid, Default}
               /\ sessions'[e.sid] \in {0, e.obj}
               /\ \A s \in Sids : sessions'[s] = e.obj => s = e.sid
    <3>1. e \in Entry /\ e.sid \in Sids /\ e.obj # 0
      BY <1>1, FrameFacts, ObjFacts DEF TypeOK, Entry
    <3> QED
      BY <1>1, <1>3, <3>1 DEF BaseInv, SweepInv, Sweeping
  <2> QED
    BY <1>2, <2>1, <2>2
<1> QED
  BY <1>3, <1>4, <1>5, <1>6, <1>7 DEF BaseInv

\* The call that owns the registry lock leaves it.
LEMMA LeavesRegistry ==
    ASSUME BaseInv, NEW t \in Threads, Sweeping(t), Others(t), ~ Sweeping(t)',
           registry' = NoThread
    PROVE  /\ RegistryInv' /\ SweepInv'
           /\ \A u \in Threads : Sweeping(u) => u = t
<1>1. \A u \in Threads : Sweeping(u) => u = t
  BY DEF BaseInv, RegistryInv
<1>2. \A u \in Threads : ~ Sweeping(u)'
  BY <1>1 DEF Sweeping, Others
<1> QED
  BY <1>1, <1>2, SessionsAssumption DEF RegistryInv, SweepInv

LEMMA KeyErrorBase ==
    ASSUME BaseInv, NEW t \in Threads, SweepKeyError(t)
    PROVE  BaseInv'
<1>1. TypeOK /\ Return(t)
  BY DEF BaseInv, SweepKeyError
<1>2. TypeOK'
  BY <1>1, Returns DEF TypeOK, SweepKeyError, ReleaseVictim
<1>3. Sweeping(t) /\ ~ Sweeping(t)' /\ Others(t)
  BY <1>1, Returns DEF Sweeping, SweepKeyError
<1>4. RegistryInv' /\ SweepInv'
  BY <1>3, LeavesRegistry DEF SweepKeyError
<1>5. ObjInv'
  BY DEF BaseInv, ObjInv, Registered, SweepKeyError
<1>6. CallInv'
  BY <1>1, Returns DEF BaseInv, CallInv, Others
<1> QED
  BY <1>2, <1>4, <1>5, <1>6 DEF BaseInv

\* The object a call is handed.
Handed(t) == IF thr[t].sid \in Registered
             THEN sessions[thr[t].sid] ELSE nextObj

LEMMA HandOutBase ==
    ASSUME BaseInv, NEW t \in Threads, HandOut(t)
    PROVE  BaseInv'
<1> DEFINE s == thr[t].sid
           o == Handed(t)
<1>1. TypeOK /\ thr[t].pc = "sweep" /\ s \in Sids
  BY FrameFacts DEF BaseInv, HandOut, TypeOK
<1>2. /\ thr' \in [Threads -> Frame] /\ Others(t) /\ o \in Objs
      /\ thr'[t].pc \in {"wait", "await"}
  BY <1>1, HandOutMoves DEF Handed
<1>3. /\ sessions' = [sessions EXCEPT ![s] = o]
      /\ dirs' = IF s \notin Registered THEN dirs \union {o} ELSE dirs
      /\ nextObj' = IF s \notin Registered THEN nextObj + 1 ELSE nextObj
      /\ lastUsed' = [lastUsed EXCEPT ![o] = now]
      /\ registry' = NoThread
      /\ UNCHANGED <<held, now, calls, patient>>
  BY DEF HandOut, Handed
<1> HIDE DEF o
<1>4. TypeOK'
  BY <1>1, <1>2, <1>3 DEF TypeOK
<1>5. Sweeping(t) /\ ~ Sweeping(t)'
  BY <1>1, <1>2 DEF Sweeping
<1>6. RegistryInv' /\ SweepInv'
  BY <1>2, <1>3, <1>5, LeavesRegistry
<1>7. ObjInv'
  <2>1. CASE s \in Registered
    <3>1. o = sessions[s]
      BY <2>1 DEF o, Handed
    <3> QED
      BY <1>1, <1>3, <2>1, <3>1 DEF BaseInv, ObjInv, Registered, TypeOK
  <2>2. CASE s \notin Registered
    <3>1. o = nextObj /\ nextObj \in Nat
      BY <2>2, <1>1 DEF o, Handed, TypeOK
    <3>2. \A r \in Sids : sessions[r] # 0 => sessions[r] < o /\ sessions[r] \in Nat
      BY <3>1, ObjFacts DEF BaseInv, ObjInv, Registered, TypeOK
    <3>3. \A r \in Sids : sessions'[r] = IF r = s THEN o ELSE sessions[r]
      BY <1>1, <1>3 DEF TypeOK
    <3>4. nextObj' = o + 1
      BY <1>3, <2>2, <3>1
    <3>5. \A r \in Registered' : sessions'[r] < nextObj'
      BY <3>1, <3>2, <3>3, <3>4 DEF Registered
    <3>6. \A r, q \in Registered' : sessions'[r] = sessions'[q] => r = q
      BY <3>1, <3>2, <3>3 DEF BaseInv, ObjInv, Registered
    <3> QED
      BY <3>5, <3>6 DEF ObjInv
  <2> QED  BY <2>1, <2>2
<1>8. CallInv'
  BY <1>2 DEF BaseInv, CallInv, Others
<1> QED
  BY <1>4, <1>6, <1>7, <1>8 DEF BaseInv

LEMMA LockBase ==
    ASSUME BaseInv, NEW t \in Threads, Lock(t)
    PROVE  BaseInv'
<1> DEFINE o == thr[t].obj
<1>1. /\ TypeOK /\ thr[t].pc = "wait" /\ o \in Objs
      /\ thr' = [thr EXCEPT ![t].pc = "work"]
  BY FrameFacts DEF BaseInv, Lock, TypeOK
<1>2. thr' \in [Threads -> Frame] /\ Others(t) /\ thr'[t].pc = "work"
  BY <1>1, PlaceMoves
<1>3. TypeOK'
  BY <1>1, <1>2 DEF TypeOK, Lock
<1> QED
  BY <1>1, <1>2, <1>3, OutsideTheRegistry DEF Lock, Sweeping

\* The calls that end outside the registry.
LEMMA ReturnBase ==
    ASSUME BaseInv, NEW t \in Threads, ~ Sweeping(t), Return(t),
           dirs' \subseteq Objs, held' \in [Objs -> Threads \union {NoThread}],
           UNCHANGED <<sessions, registry, lastUsed, nextObj, now, calls,
                       patient>>
    PROVE  BaseInv'
<1>1. TypeOK
  BY DEF BaseInv
<1>2. TypeOK'
  BY <1>1, Returns DEF TypeOK
<1> QED
  BY <1>1, <1>2, Returns, OutsideTheRegistry DEF Sweeping

LEMMA UnlockBase ==
    ASSUME BaseInv, NEW t \in Threads, Unlock(t)
    PROVE  BaseInv'
<1>1. dirs' \subseteq Objs /\ held' \in [Objs -> Threads \union {NoThread}]
  BY DEF BaseInv, TypeOK, Unlock
<1> QED
  BY <1>1, ReturnBase DEF Unlock, Sweeping

LEMMA AwaitBase ==
    ASSUME BaseInv, NEW t \in Threads, Download(t) \/ ServiceFails(t)
    PROVE  BaseInv'
<1>1. thr[t].pc = "await" /\ thr[t].obj \in Objs
  BY FrameFacts DEF BaseInv, TypeOK, Download, ServiceFails
<1>2. dirs' \subseteq Objs /\ held' \in [Objs -> Threads \union {NoThread}]
  BY <1>1 DEF BaseInv, TypeOK, Download, ServiceFails
<1> QED
  BY <1>1, <1>2, ReturnBase DEF Download, ServiceFails, Sweeping

LEMMA ResetCleanBase ==
    ASSUME BaseInv, NEW t \in Threads, ResetClean(t)
    PROVE  BaseInv'
<1>1. TypeOK /\ thr[t].pc = "reset" /\ ~ Sweeping(t)
  BY DEF BaseInv, ResetClean, Sweeping
<1>2. CASE thr[t].sid \in Registered
  <2>1. thr' = [thr EXCEPT ![t].pc = "reset_del"]
    BY <1>2 DEF ResetClean
  <2>2. thr' \in [Threads -> Frame] /\ Others(t) /\ thr'[t].pc = "reset_del"
    BY <1>1, <2>1, PlaceMoves
  <2>3. TypeOK'
    BY <1>1, <1>2, <2>2 DEF TypeOK, ResetClean
  <2> QED
    BY <1>1, <2>2, <2>3, OutsideTheRegistry DEF ResetClean, Sweeping
<1>3. CASE thr[t].sid \notin Registered
  BY <1>1, <1>3, ReturnBase DEF ResetClean, TypeOK
<1> QED  BY <1>2, <1>3

LEMMA ResetDelBase ==
    ASSUME BaseInv, NEW t \in Threads, ResetDel(t)
    PROVE  BaseInv'
<1> DEFINE s == thr[t].sid
<1>1. /\ TypeOK /\ thr[t].pc = "reset_del" /\ s \in Sids /\ Return(t)
      /\ sessions' = [sessions EXCEPT ![s] = 0]
  BY FrameFacts DEF BaseInv, ResetDel, TypeOK
<1>2. /\ ObjInv' /\ sessions' \in [Sids -> Objs \union {0}]
      /\ \A r \in Sids : sessions'[r] \in {0, sessions[r]}
  BY <1>1, TakenOut DEF ResetDel
<1>3. thr' \in [Threads -> Frame] /\ thr'[t] = Idle /\ thr'[t].pc = "idle"
      /\ Others(t)
  BY <1>1, Returns
<1>4. TypeOK'
  BY <1>1, <1>2, <1>3 DEF TypeOK, ResetDel
<1>5. RegistryInv'
  BY <1>1, <1>3 DEF BaseInv, RegistryInv, Sweeping, Others, ResetDel
<1>6. CallInv'
  BY <1>3 DEF BaseInv, CallInv, Others
<1>7. SweepInv'
  <2> SUFFICES ASSUME NEW u \in Threads, Sweeping(u)'
               PROVE  /\ \A e \in thr[u].todo :
                           /\ e.sid \notin {thr[u].sid, Default}
                           /\ sessions'[e.sid] \in {0, e.obj}
                           /\ \A r \in Sids : sessions'[r] = e.obj => r = e.sid
                      /\ thr[u].pc = "drop" =>
                           thr[u].victim \notin {thr[u].sid, Default}
    <3>1. \A u \in Threads : Sweeping(u)' => thr'[u] = thr[u]
      BY <1>3 DEF Sweeping, Others
    <3> QED  BY <3>1 DEF SweepInv
  <2>1. Sweeping(u)
    BY <1>3 DEF Sweeping, Others
  <2>2. ASSUME NEW e \in thr[u].todo
        PROVE  /\ e.sid \notin {thr[u].sid, Default}
               /\ sessions'[e.sid] \in {0, e.obj}
               /\ \A r \in Sids : sessions'[r] = e.obj => r = e.sid
    <3>1. e \in Entry /\ e.sid \in Sids /\ e.obj # 0
      BY <1>1, FrameFacts, ObjFacts DEF TypeOK, Entry
    <3> QED
      BY <1>2, <2>1, <3>1 DEF BaseInv, SweepInv
  <2> QED
    BY <2>1, <2>2 DEF BaseInv, SweepInv
<1> QED
  BY <1>2, <1>4, <1>5, <1>6, <1>7 DEF BaseInv

LEMMA TickBase ==
    ASSUME BaseInv, Tick
    PROVE  BaseInv'
<1>1. TypeOK'
  BY DEF BaseInv, TypeOK, Tick
<1>2. RegistryInv' /\ CallInv' /\ SweepInv'
  BY DEF BaseInv, RegistryInv, CallInv, SweepInv, Sweeping, Tick
<1>3. ObjInv'
  BY DEF BaseInv, ObjInv, Registered, Tick
<1> QED
  BY <1>1, <1>2, <1>3 DEF BaseInv

LEMMA BaseStep == BaseInv /\ [Next]_vars => BaseInv'
<1> SUFFICES ASSUME BaseInv, [Next]_vars PROVE BaseInv'
  OBVIOUS
<1>1. CASE UNCHANGED vars
  BY <1>1 DEF vars, BaseInv, TypeOK, RegistryInv, ObjInv, CallInv, SweepInv,
              Sweeping, Registered
<1>2. CASE \E t \in Threads, tool \in Tools, s \in Sids : Call(t, tool, s)
  BY <1>2, CallBase
<1>3. ASSUME NEW t \in Threads, Step(t) PROVE BaseInv'
  BY <1>3, EnterBase, SkipBase, CleanBase, DropBase, KeyErrorBase,
     HandOutBase, LockBase, UnlockBase, AwaitBase, ResetCleanBase, ResetDelBase
     DEF Step
<1>4. CASE Tick
  BY <1>4, TickBase
<1> QED
  BY <1>1, <1>2, <1>3, <1>4 DEF Next

LEMMA Base == Spec => []BaseInv
BY BaseInit, BaseStep, PTL DEF Spec

\* Every reachable state is well typed.
THEOREM TypeCorrect == Spec => []TypeOK
<1>1. BaseInv => TypeOK
  BY DEF BaseInv
<1> QED
  BY <1>1, Base, PTL

\* The session of the stdio client leaves the registry by its own client's
\* reset only, whatever the clients' habits and however long they wait.
THEOREM DefaultKept == Spec => DefaultIsKept
<1> DEFINE ByItsClient == sessions[Default] # 0
                   /\ sessions'[Default] # sessions[Default]
                     => \E t \in Threads : ResetDel(t) /\ thr[t].sid = Default
<1>1. ASSUME BaseInv, Next PROVE ByItsClient
  <2> SUFFICES ASSUME sessions[Default] # 0,
                      sessions'[Default] # sessions[Default]
               PROVE  \E t \in Threads : ResetDel(t) /\ thr[t].sid = Default
    OBVIOUS
  <2>1. PICK t \in Threads : SweepDrop(t) \/ HandOut(t) \/ ResetDel(t)
    BY <1>1 DEF Next, Step, Call, Tick, Enter, SweepSkip, SweepClean,
                SweepKeyError, Lock, Unlock, Download, ServiceFails, ResetClean
  <2>2. TypeOK /\ Default \in Registered /\ thr[t] \in Frame
    BY <1>1, SessionsAssumption DEF BaseInv, TypeOK, Registered
  <2>3. ~ SweepDrop(t)
    <3> SUFFICES ASSUME SweepDrop(t) PROVE FALSE
      OBVIOUS
    <3>1. thr[t].victim # Default
      BY <1>1 DEF SweepDrop, BaseInv, SweepInv, Sweeping
    <3>2. sessions' = [sessions EXCEPT ![thr[t].victim] = 0]
      BY DEF SweepDrop
    <3> QED  BY <2>2, <3>1, <3>2, SessionsAssumption DEF TypeOK
  <2>4. ~ HandOut(t)
    <3> SUFFICES ASSUME HandOut(t) PROVE FALSE
      OBVIOUS
    <3>1. sessions' = [sessions EXCEPT ![thr[t].sid] = Handed(t)]
      BY DEF HandOut, Handed
    <3>2. thr[t].sid = Default => Handed(t) = sessions[Default]
      BY <2>2 DEF Handed
    <3> QED  BY <2>2, <3>1, <3>2, SessionsAssumption DEF TypeOK
  <2>5. ResetDel(t) => thr[t].sid = Default
    BY <2>2 DEF ResetDel, TypeOK
  <2> QED
    BY <2>1, <2>3, <2>4, <2>5
<1>2. BaseInv /\ [Next]_vars => [ByItsClient]_vars
  BY <1>1
<1> QED
  BY <1>2, Base, PTL DEF Spec, DefaultIsKept

-----------------------------------------------------------------------------
(* The locks of the sessions, for every client.                            *)

\* Who neither works nor drops holds no session's lock.
LEMMA HoldsNothing ==
    ASSUME HeldInv, NEW t \in Threads, thr[t].pc \notin {"work", "drop"}
    PROVE  \A o \in Objs : held[o] # t
BY DEF HeldInv

\* What a thread holds is given back.
Released(t) == [o \in Objs |-> IF held[o] = t THEN NoThread ELSE held[o]]

LEMMA HeldAfterRelease ==
    ASSUME TypeOK, HeldInv, NEW t \in Threads, Others(t),
           thr'[t].pc # "work", held' = Released(t)
    PROVE  HeldInv'
<1>1. \A o \in Objs : held'[o] \in Threads => held'[o] = held[o] /\ held[o] # t
  BY SessionsAssumption DEF Released
<1>2. \A u \in Threads \ {t} :
        thr[u].pc = "work" => thr[u].obj \in Objs /\ held[thr[u].obj] = u
  BY FrameFacts DEF HeldInv, TypeOK
<1>3. \A u \in Threads : thr'[u].pc = "work" => held'[thr'[u].obj] = u
  BY <1>2 DEF Released, Others
<1>4. \A o \in Objs : held'[o] \in Threads =>
        LET f == thr'[held'[o]]
        IN f.pc = "drop" \/ (f.pc = "work" /\ f.obj = o)
  BY <1>1 DEF HeldInv, Others
<1> QED
  BY <1>3, <1>4 DEF HeldInv

\* A step of a thread that holds nothing, before and after.
LEMMA HeldElsewhere ==
    ASSUME TypeOK, HeldInv, NEW t \in Threads, Others(t),
           thr[t].pc \notin {"work", "drop"}, thr'[t].pc # "work",
           held' = held
    PROVE  HeldInv'
<1>1. held' = Released(t)
  BY HoldsNothing DEF Released, TypeOK
<1> QED
  BY <1>1, HeldAfterRelease

\* A thread that holds nothing takes a lock that is free.
LEMMA HeldAfterAcquire ==
    ASSUME TypeOK, HeldInv, NEW t \in Threads, NEW o \in Objs, Others(t),
           thr[t].pc \notin {"work", "drop"},
           thr'[t].pc = "drop" \/ (thr'[t].pc = "work" /\ thr'[t].obj = o),
           held[o] = NoThread, held' = [held EXCEPT ![o] = t]
    PROVE  HeldInv'
<1>1. \A p \in Objs : held'[p] = IF p = o THEN t ELSE held[p]
  BY DEF TypeOK
<1>2. \A p \in Objs : held[p] # t
  BY HoldsNothing
<1>3. ASSUME NEW u \in Threads, thr'[u].pc = "work"
      PROVE  held'[thr'[u].obj] = u
  <2>1. CASE u = t
    BY <1>1, <1>3, <2>1
  <2>2. CASE u # t
    <3>1. thr'[u] = thr[u] /\ thr[u].obj \in Objs /\ held[thr[u].obj] = u
      BY <1>3, <2>2, FrameFacts DEF Others, TypeOK, HeldInv
    <3> QED
      BY <1>1, <3>1, SessionsAssumption
  <2> QED  BY <2>1, <2>2
<1>4. ASSUME NEW p \in Objs, held'[p] \in Threads
      PROVE  LET f == thr'[held'[p]]
             IN f.pc = "drop" \/ (f.pc = "work" /\ f.obj = p)
  <2>1. CASE p = o
    BY <1>1, <2>1
  <2>2. CASE p # o
    <3>1. held'[p] = held[p] /\ thr'[held[p]] = thr[held[p]]
      BY <1>1, <1>2, <1>4, <2>2 DEF Others
    <3> QED
      BY <1>4, <3>1 DEF HeldInv
  <2> QED  BY <2>1, <2>2
<1> QED
  BY <1>3, <1>4 DEF HeldInv

LEMMA HeldInit == Init => HeldInv
<1> SUFFICES ASSUME Init PROVE HeldInv
  OBVIOUS
<1>1. \A t \in Threads : thr[t].pc = "idle"
  BY IdleFrame DEF Init
<1>2. \A o \in Objs : held[o] = NoThread
  BY DEF Init
<1> QED
  BY <1>1, <1>2, SessionsAssumption DEF HeldInv

LEMMA HeldStep == BaseInv /\ HeldInv /\ [Next]_vars => HeldInv'
<1> SUFFICES ASSUME BaseInv, HeldInv, [Next]_vars PROVE HeldInv'
  OBVIOUS
<1>1. TypeOK /\ CallInv
  BY DEF BaseInv
<1>2. CASE UNCHANGED vars
  BY <1>2 DEF vars, HeldInv
<1>3. ASSUME NEW t \in Threads, NEW tool \in Tools, NEW s \in Sids,
             Call(t, tool, s)
      PROVE  HeldInv'
  <2>1. held' = held
    BY <1>3 DEF Call
  <2> QED  BY <1>1, <1>3, <2>1, CallMoves, IdleFrame, HeldElsewhere
<1>4. ASSUME NEW t \in Threads, Enter(t) PROVE HeldInv'
  <2>1. held' = held
    BY <1>4 DEF Enter
  <2> QED  BY <1>1, <1>4, <2>1, EnterMoves, HeldElsewhere
<1>5. ASSUME NEW t \in Threads, SweepSkip(t) PROVE HeldInv'
  <2>1. held' = held
    BY <1>5 DEF SweepSkip
  <2> QED  BY <1>1, <1>5, <2>1, SkipMoves, HeldElsewhere
<1>6. ASSUME NEW t \in Threads, SweepClean(t) PROVE HeldInv'
  <2>1. PICK e \in thr[t].todo :
          /\ CleanVictim(t, e) /\ thr[t].pc = "sweep"
          /\ thr' = [thr EXCEPT ![t].pc = "drop", ![t].victim = e.sid,
                                ![t].todo = @ \ {e}]
    BY <1>6 DEF SweepClean
  <2>2. e.obj \in Objs /\ Others(t) /\ thr'[t].pc = "drop"
    BY <1>1, <2>1, CleanMoves DEF Entry
  <2>3. held[e.obj] = NoThread /\ held' = [held EXCEPT ![e.obj] = t]
    BY <2>1 DEF CleanVictim
  <2> QED  BY <1>1, <2>1, <2>2, <2>3, HeldAfterAcquire
<1>7. ASSUME NEW t \in Threads, SweepDrop(t) PROVE HeldInv'
  <2>1. /\ thr[t].pc = "drop" /\ thr' = [thr EXCEPT ![t].pc = "sweep"]
        /\ held' = Released(t)
    BY <1>7 DEF SweepDrop, ReleaseVictim, Released
  <2>2. Others(t) /\ thr'[t].pc = "sweep"
    BY <1>1, <2>1, PlaceMoves
  <2> QED  BY <1>1, <2>1, <2>2, HeldAfterRelease
<1>8. ASSUME NEW t \in Threads, SweepKeyError(t) PROVE HeldInv'
  <2>1. Return(t) /\ held' = Released(t)
    BY <1>8 DEF SweepKeyError, ReleaseVictim, Released
  <2> QED  BY <1>1, <2>1, Returns, HeldAfterRelease
<1>9. ASSUME NEW t \in Threads, HandOut(t) PROVE HeldInv'
  <2>1. held' = held
    BY <1>9 DEF HandOut
  <2> QED  BY <1>1, <1>9, <2>1, HandOutMoves, HeldElsewhere
<1>10. ASSUME NEW t \in Threads, Lock(t) PROVE HeldInv'
  <2>1. /\ thr[t].pc = "wait" /\ thr' = [thr EXCEPT ![t].pc = "work"]
        /\ held[thr[t].obj] = NoThread
        /\ held' = [held EXCEPT ![thr[t].obj] = t]
    BY <1>10 DEF Lock
  <2>2. thr[t].obj \in Objs
    BY <1>1, <2>1, FrameFacts DEF TypeOK
  <2>3. Others(t) /\ thr'[t].pc = "work" /\ thr'[t].obj = thr[t].obj
    BY <1>1, <2>1, PlaceMoves
  <2> QED  BY <1>1, <2>1, <2>2, <2>3, HeldAfterAcquire
<1>11. ASSUME NEW t \in Threads, Unlock(t) PROVE HeldInv'
  <2>1. /\ thr[t].pc = "work" /\ Return(t)
        /\ held' = [held EXCEPT ![thr[t].obj] = NoThread]
    BY <1>11 DEF Unlock
  <2>2. \A o \in Objs : held[o] = t <=> o = thr[t].obj
    BY <1>1, <2>1, FrameFacts DEF HeldInv, TypeOK
  <2>3. held' = Released(t)
    BY <1>1, <2>1, <2>2 DEF Released, TypeOK
  <2> QED  BY <1>1, <2>1, <2>3, Returns, HeldAfterRelease
<1>12. ASSUME NEW t \in Threads, Download(t) \/ ServiceFails(t) PROVE HeldInv'
  <2>1. thr[t].pc = "await" /\ Return(t) /\ held' = held
    BY <1>12 DEF Download, ServiceFails
  <2> QED  BY <1>1, <2>1, Returns, HeldElsewhere
<1>13. ASSUME NEW t \in Threads, ResetClean(t) PROVE HeldInv'
  <2>1. /\ thr[t].pc = "reset" /\ held' = held
        /\ Return(t) \/ thr' = [thr EXCEPT ![t].pc = "reset_del"]
    BY <1>13 DEF ResetClean
  <2> QED  BY <1>1, <2>1, PlaceMoves, Returns, HeldElsewhere
<1>14. ASSUME NEW t \in Threads, ResetDel(t) PROVE HeldInv'
  <2>1. thr[t].pc = "reset_del" /\ Return(t) /\ held' = held
    BY <1>14 DEF ResetDel
  <2> QED  BY <1>1, <2>1, Returns, HeldElsewhere
<1>15. CASE Tick
  BY <1>15 DEF Tick, HeldInv
<1> QED
  BY <1>2, <1>3, <1>4, <1>5, <1>6, <1>7, <1>8, <1>9, <1>10, <1>11, <1>12,
     <1>13, <1>14, <1>15 DEF Next, Step

\* Whoever has a lock that another call waits for is in the middle of a sweep
\* or of a run and waits for no lock itself, whatever the clients' habits: the
\* safety half of the claim that every call returns.
THEOREM NoCircularWait == Spec => []NobodyWaitsForAWaiter
<1>1. BaseInv /\ HeldInv => NobodyWaitsForAWaiter
  <2> SUFFICES ASSUME BaseInv, HeldInv,
                      NEW t \in Threads, NEW u \in Threads, WaitsFor(t, u)
               PROVE  thr[u].pc \in {"sweep", "drop", "work"}
    BY DEF NobodyWaitsForAWaiter
  <2>1. CASE registry = u
    BY <2>1 DEF BaseInv, RegistryInv, Sweeping
  <2>2. CASE thr[t].pc = "wait" /\ held[thr[t].obj] = u
    BY <2>2, FrameFacts DEF BaseInv, TypeOK, HeldInv
  <2> QED
    BY <2>1, <2>2 DEF WaitsFor
<1>2. Spec => [](BaseInv /\ HeldInv)
  BY BaseInit, BaseStep, HeldInit, HeldStep, PTL DEF Spec
<1> QED
  BY <1>1, <1>2, PTL

-----------------------------------------------------------------------------
(* Patient clients.                                                        *)

\* A step that registers nothing and hands nothing out.
LEMMA OwnStays ==
    ASSUME OwnInv, NEW t \in Threads, Others(t),
           InFlight(t)' => /\ InFlight(t) /\ thr'[t].obj = thr[t].obj
                           /\ thr'[t].sid = thr[t].sid,
           UNCHANGED nextObj, \A s \in Sids : sessions'[s] \in {0, sessions[s]}
    PROVE  OwnInv'
BY DEF OwnInv, InFlight, Registered, Others

LEMMA OwnHandOut ==
    ASSUME BaseInv, OwnInv, NEW t \in Threads, HandOut(t)
    PROVE  OwnInv'
<1> DEFINE s == thr[t].sid
           o == Handed(t)
<1>1. TypeOK /\ thr[t].pc = "sweep" /\ s \in Sids
  BY FrameFacts DEF BaseInv, HandOut, TypeOK
<1>2. /\ Others(t) /\ o \in Objs /\ o \in Nat
      /\ thr'[t].sid = s /\ thr'[t].obj = o
  BY <1>1, HandOutMoves, ObjFacts DEF Handed
<1>3. /\ \A r \in Sids : sessions'[r] = IF r = s THEN o ELSE sessions[r]
      /\ nextObj \in Nat
      /\ nextObj' = IF s \in Registered THEN nextObj ELSE nextObj + 1
  BY <1>1 DEF HandOut, Handed, TypeOK
<1>4. s \in Registered => o = sessions[s] /\ o < nextObj
  BY DEF Handed, BaseInv, ObjInv
<1>5. s \notin Registered =>
        o = nextObj /\ \A r \in Registered : sessions[r] < nextObj
  BY DEF Handed, BaseInv, ObjInv
<1> HIDE DEF s, o
<1>6. o < nextObj'
  BY <1>2, <1>3, <1>4, <1>5
<1>7. ASSUME NEW r \in Registered', sessions'[r] = o PROVE r = s
  <2>1. r \in Sids /\ (r # s => r \in Registered /\ sessions[r] = o)
    BY <1>3, <1>7 DEF Registered
  <2>2. CASE s \in Registered
    BY <1>4, <2>1, <2>2 DEF BaseInv, ObjInv
  <2>3. CASE s \notin Registered
    BY <1>2, <1>5, <2>1, <2>3
  <2> QED  BY <2>2, <2>3
<1>8. ASSUME NEW u \in Threads \ {t}, InFlight(u)'
      PROVE  /\ thr'[u].obj < nextObj'
             /\ \A r \in Registered' : sessions'[r] = thr'[u].obj
                                         => r = thr'[u].sid
  <2>1. thr'[u] = thr[u] /\ InFlight(u)
    BY <1>2, <1>8 DEF InFlight, Others
  <2>2. thr[u].obj \in Nat /\ thr[u].obj < nextObj
    BY <1>1, <2>1, FrameFacts, ObjFacts DEF TypeOK, InFlight, OwnInv
  <2>3. ASSUME NEW r \in Registered', sessions'[r] = thr[u].obj
        PROVE  r = thr[u].sid
    <3>1. CASE r = s /\ s \notin Registered
      BY <1>2, <1>3, <1>5, <2>2, <2>3, <3>1 DEF Registered
    <3>2. CASE r # s \/ s \in Registered
      BY <1>3, <1>4, <2>1, <2>3, <3>2 DEF OwnInv, Registered
    <3> QED  BY <3>1, <3>2
  <2> QED
    BY <1>3, <2>1, <2>2, <2>3
<1> QED
  BY <1>2, <1>6, <1>7, <1>8 DEF OwnInv

LEMMA OwnStep == BaseInv /\ OwnInv /\ [Next]_vars => OwnInv'
<1> SUFFICES ASSUME BaseInv, OwnInv, [Next]_vars PROVE OwnInv'
  OBVIOUS
<1>1. TypeOK /\ \A s \in Sids : sessions[s] \in {0, sessions[s]}
  BY DEF BaseInv
<1>2. CASE UNCHANGED vars
  BY <1>2 DEF vars, OwnInv, InFlight, Registered
<1>3. ASSUME NEW t \in Threads, NEW tool \in Tools, NEW s \in Sids,
             Call(t, tool, s)
      PROVE  OwnInv'
  <2>1. Others(t) /\ ~ InFlight(t)'
    BY <1>1, <1>3, CallMoves DEF InFlight
  <2> QED  BY <1>1, <1>3, <2>1, OwnStays DEF Call
<1>4. ASSUME NEW t \in Threads, Step(t) PROVE OwnInv'
  <2>1. CASE Enter(t)
    <3>1. Others(t) /\ ~ InFlight(t)'
      BY <1>1, <2>1, EnterMoves DEF BaseInv, InFlight
    <3> QED  BY <1>1, <2>1, <3>1, OwnStays DEF Enter
  <2>2. CASE SweepSkip(t)
    <3>1. Others(t) /\ ~ InFlight(t)'
      BY <1>1, <2>2, SkipMoves DEF InFlight
    <3> QED  BY <1>1, <2>2, <3>1, OwnStays DEF SweepSkip
  <2>3. CASE SweepClean(t)
    <3>1. Others(t) /\ ~ InFlight(t)'
      BY <1>1, <2>3, CleanMoves DEF SweepClean, InFlight
    <3> QED  BY <1>1, <2>3, <3>1, OwnStays DEF SweepClean
  <2>4. CASE SweepDrop(t)
    <3>1. thr[t].pc = "drop" /\ thr' = [thr EXCEPT ![t].pc = "sweep"]
      BY <2>4 DEF SweepDrop
    <3>2. Others(t) /\ thr'[t].pc = "sweep"
      BY <1>1, <3>1, PlaceMoves
    <3>3. ~ InFlight(t)'
      BY <3>2 DEF InFlight
    <3>4. \A s \in Sids : sessions'[s] \in {0, sessions[s]}
      BY <1>1, <2>4 DEF SweepDrop, TypeOK
    <3> QED  BY <2>4, <3>2, <3>3, <3>4, OwnStays DEF SweepDrop
  <2>5. CASE SweepKeyError(t) \/ Unlock(t) \/ Download(t) \/ ServiceFails(t)
    <3>1. Others(t) /\ ~ InFlight(t)'
      BY <1>1, <2>5, Returns
         DEF SweepKeyError, Unlock, Download, ServiceFails, InFlight
    <3> QED
      BY <1>1, <2>5, <3>1, OwnStays
         DEF SweepKeyError, Unlock, Download, ServiceFails
  <2>6. CASE HandOut(t)
    BY <2>6, OwnHandOut
  <2>7. CASE Lock(t)
    <3>1. /\ Others(t) /\ InFlight(t) /\ thr'[t].obj = thr[t].obj
          /\ thr'[t].sid = thr[t].sid
      BY <1>1, <2>7, PlaceMoves DEF Lock, InFlight
    <3> QED  BY <1>1, <2>7, <3>1, OwnStays DEF Lock
  <2>8. CASE ResetClean(t)
    <3>1. Others(t) /\ ~ InFlight(t)'
      BY <1>1, <2>8, Returns, PlaceMoves DEF ResetClean, InFlight
    <3> QED  BY <1>1, <2>8, <3>1, OwnStays DEF ResetClean
  <2>9. CASE ResetDel(t)
    <3>1. Others(t) /\ ~ InFlight(t)'
      BY <1>1, <2>9, Returns DEF ResetDel, InFlight
    <3>2. \A s \in Sids : sessions'[s] \in {0, sessions[s]}
      BY <1>1, <2>9 DEF ResetDel, TypeOK
    <3> QED  BY <2>9, <3>1, <3>2, OwnStays DEF ResetDel
  <2> QED
    BY <1>4, <2>1, <2>2, <2>3, <2>4, <2>5, <2>6, <2>7, <2>8, <2>9 DEF Step
<1>5. CASE Tick
  BY <1>5 DEF Tick, OwnInv, InFlight, Registered
<1> QED
  BY <1>2, <1>3, <1>4, <1>5 DEF Next

LEMMA SweeperAlone ==
    ASSUME BaseInv, NEW t \in Threads, NEW u \in Threads,
           Sweeping(t), Sweeping(u)
    PROVE  t = u
BY DEF BaseInv, RegistryInv

\* Two calls at work do not share an object.
LEMMA OneCallPerObject ==
    ASSUME BaseInv, PatientInv, NEW t \in Threads, NEW u \in Threads,
           Safe(t), Safe(u), thr[t].obj = thr[u].obj
    PROVE  t = u
<1>1. thr[t] \in Frame /\ thr[u] \in Frame
  BY DEF BaseInv, TypeOK
<1>2. /\ thr[t].sid \in Sids /\ thr[u].sid \in Sids
      /\ thr[t].obj \in Objs /\ thr[u].obj \in Objs
  BY <1>1, FrameFacts DEF InFlight, Safe
<1>3. sessions[thr[t].sid] = sessions[thr[u].sid] /\ sessions[thr[t].sid] # 0
  BY <1>2, ObjFacts DEF PatientInv, KeptInv
<1>4. thr[t].sid = thr[u].sid
  BY <1>2, <1>3 DEF BaseInv, ObjInv, Registered
<1> QED
  BY <1>4 DEF PatientInv, OneCallEach, InFlight, Safe

\* A call goes on in its session, or ends.
LEMMA OneCallStays ==
    ASSUME OneCallEach, NEW t \in Threads, Others(t),
           \/ thr'[t].pc = "idle"
           \/ thr[t].pc # "idle" /\ thr'[t].sid = thr[t].sid
    PROVE  OneCallEach'
BY DEF OneCallEach, Others

\* No directory becomes one that nobody can find again.
NothingStrays == Stray' \subseteq Stray

LEMMA KeptStays ==
    ASSUME UNCHANGED sessions, dirs' \subseteq dirs,
           \A s \in Registered : BeingDropped(s)' <=> BeingDropped(s)
    PROVE  NothingStrays
<1>1. Kept' = Kept
  BY DEF Kept, Registered
<1> QED
  BY <1>1 DEF NothingStrays, Stray

\* While no time passes and no session is touched, a call of another thread is
\* as safe as it was.
LEMMA SafeStays ==
    ASSUME NEW u \in Threads, thr'[u] = thr[u], UNCHANGED <<now, lastUsed>>
    PROVE  Safe(u)' <=> Safe(u)
BY DEF Safe, InFlight, Overdue, IdleTooLong

\* A call that took no part in the registry returns.
LEMMA ReturnPatient ==
    ASSUME BaseInv, PatientInv, NEW t \in Threads, Others(t),
           thr'[t].pc = "idle",
           thr[t].pc \notin {"sweep", "drop", "reset_del"},
           UNCHANGED <<sessions, dirs, lastUsed, now>>
    PROVE  PatientInv' /\ NothingStrays
<1>1. OneCallEach'
  BY OneCallStays DEF PatientInv
<1>2. KeptInv'
  BY DEF PatientInv, KeptInv, Safe, Overdue, IdleTooLong, InFlight, Sweeping, Others
<1>3. ClockInv'
  BY DEF PatientInv, ClockInv, Others
<1>4. VictimInv'
  BY DEF PatientInv, VictimInv, Safe, Overdue, IdleTooLong, InFlight, Sweeping, Others
<1>5. \A s \in Sids : BeingDropped(s)' <=> BeingDropped(s)
  BY DEF BeingDropped, Others
<1>6. DirInv'
  BY <1>5 DEF PatientInv, DirInv, Registered
<1>7. NothingStrays
  BY <1>5, KeptStays DEF Registered
<1> QED
  BY <1>1, <1>2, <1>3, <1>4, <1>6, <1>7 DEF PatientInv

LEMMA CallPatient ==
    ASSUME BaseInv, PatientInv, patient, NEW t \in Threads,
           NEW tool \in Tools, NEW s \in Sids, Call(t, tool, s)
    PROVE  PatientInv' /\ NothingStrays
<1>1. /\ Others(t) /\ thr[t] = Idle /\ thr[t].pc = "idle"
      /\ thr'[t].pc \in {"enter", "reset"} /\ thr'[t].sid = s
  BY CallMoves, IdleFrame DEF BaseInv
<1>2. /\ UNCHANGED <<sessions, dirs, lastUsed, held, now>>
      /\ \A u \in Threads : thr[u] = Idle \/ thr[u].sid # s
  BY DEF Call
<1>3. OneCallEach'
  BY <1>1, <1>2, IdleFrame DEF PatientInv, OneCallEach, Others
<1>4. KeptInv'
  BY <1>1, <1>2 DEF PatientInv, KeptInv, Safe, Overdue, IdleTooLong, InFlight, Sweeping, Others
<1>5. ClockInv'
  BY <1>1, <1>2 DEF PatientInv, ClockInv, Others
<1>6. VictimInv'
  BY <1>1, <1>2 DEF PatientInv, VictimInv, Safe, Overdue, IdleTooLong, InFlight, Sweeping, Others
<1>7. \A r \in Sids : BeingDropped(r)' <=> BeingDropped(r)
  BY <1>1 DEF BeingDropped, Others
<1>8. DirInv'
  BY <1>2, <1>7 DEF PatientInv, DirInv, Registered
<1>9. NothingStrays
  BY <1>2, <1>7, KeptStays DEF Registered
<1> QED
  BY <1>3, <1>4, <1>5, <1>6, <1>8, <1>9 DEF PatientInv

\* The snapshot: a session that has been idle for long enough is not one that
\* a client waits on, for a lock or for a service.
LEMMA EnterPatient ==
    ASSUME BaseInv, PatientInv, NEW t \in Threads, Enter(t)
    PROVE  PatientInv' /\ NothingStrays
<1>1. /\ Others(t) /\ thr[t].pc = "enter" /\ thr'[t].pc = "sweep"
      /\ thr'[t].sid = thr[t].sid /\ thr'[t].obj = sessions[thr[t].sid]
      /\ thr'[t].todo = ToSweep(thr[t].sid)
  BY EnterMoves DEF BaseInv
<1>2. UNCHANGED <<sessions, dirs, lastUsed, held, now>>
  BY DEF Enter
<1>3. OneCallEach'
  BY <1>1, OneCallStays DEF PatientInv
<1>4. KeptInv'
  BY <1>1, <1>2 DEF PatientInv, KeptInv, Safe, Overdue, IdleTooLong, InFlight, Sweeping, Others
<1>5. ClockInv'
  BY <1>1, <1>2 DEF PatientInv, ClockInv, Others
<1>6. VictimInv'
  <2>1. ASSUME NEW e \in ToSweep(thr[t].sid), NEW u \in Threads,
               Safe(u), thr[u].obj = e.obj
        PROVE  thr[u].pc = "work"
    <3>1. /\ e \in Entry /\ e.obj \in Objs
          /\ Timeout > 0 /\ now - lastUsed[e.obj] > Timeout
      BY DEF ToSweep, Snapshot, IdleTooLong, Entry
    <3>2. now \in Nat /\ lastUsed[e.obj] \in Nat
      BY <3>1 DEF BaseInv, TypeOK
    <3>3. thr[u].pc # "wait"
      BY <2>1, <3>1, <3>2, SessionsAssumption DEF PatientInv, ClockInv
    <3>4. thr[u].pc # "await"
      BY <2>1, <3>1 DEF Safe, Overdue, IdleTooLong
    <3> QED
      BY <2>1, <3>3, <3>4 DEF Safe, InFlight
  <2>2. \A u \in Threads : Sweeping(u)' => u = t
    BY <1>1, SessionsAssumption
       DEF BaseInv, RegistryInv, Enter, Sweeping, Others
  <2>3. \A u \in Threads : Safe(u)' => u # t /\ Safe(u)
    BY <1>1, <1>2, SafeStays DEF Safe, InFlight, Others
  <2> QED
    BY <1>1, <2>1, <2>2, <2>3 DEF VictimInv, Others
<1>7. \A r \in Sids : BeingDropped(r)' <=> BeingDropped(r)
  BY <1>1 DEF BeingDropped, Others
<1>8. DirInv'
  BY <1>2, <1>7 DEF PatientInv, DirInv, Registered
<1>9. NothingStrays
  BY <1>2, <1>7, KeptStays DEF Registered
<1> QED
  BY <1>3, <1>4, <1>5, <1>6, <1>8, <1>9 DEF PatientInv

LEMMA SkipPatient ==
    ASSUME BaseInv, PatientInv, NEW t \in Threads, SweepSkip(t)
    PROVE  PatientInv' /\ NothingStrays
<1>1. /\ Others(t) /\ thr[t].pc = "sweep" /\ thr'[t].pc = "sweep"
      /\ thr'[t].sid = thr[t].sid /\ thr'[t].obj = thr[t].obj
      /\ thr'[t].todo \subseteq thr[t].todo
  BY SkipMoves DEF BaseInv
<1>2. UNCHANGED <<sessions, dirs, lastUsed, held, now>>
  BY DEF SweepSkip
<1>3. OneCallEach'
  BY <1>1, OneCallStays DEF PatientInv
<1>4. KeptInv'
  BY <1>1, <1>2 DEF PatientInv, KeptInv, Safe, Overdue, IdleTooLong, InFlight, Sweeping, Others
<1>5. ClockInv'
  BY <1>1, <1>2 DEF PatientInv, ClockInv, Others
<1>6. VictimInv'
  BY <1>1, <1>2 DEF PatientInv, VictimInv, Safe, Overdue, IdleTooLong, InFlight, Sweeping, Others
<1>7. \A r \in Sids : BeingDropped(r)' <=> BeingDropped(r)
  BY <1>1 DEF BeingDropped, Others
<1>8. DirInv'
  BY <1>2, <1>7 DEF PatientInv, DirInv, Registered
<1>9. NothingStrays
  BY <1>2, <1>7, KeptStays DEF Registered
<1> QED
  BY <1>3, <1>4, <1>5, <1>6, <1>8, <1>9 DEF PatientInv

\* A session whose lock nobody holds is not in use: its directory can go.
LEMMA CleanPatient ==
    ASSUME BaseInv, HeldInv, PatientInv, NEW t \in Threads, SweepClean(t)
    PROVE  PatientInv' /\ NothingStrays
<1> PICK e \in thr[t].todo :
      /\ CleanVictim(t, e)
      /\ thr' = [thr EXCEPT ![t].pc = "drop", ![t].victim = e.sid,
                            ![t].todo = @ \ {e}]
  BY DEF SweepClean
<1>1. /\ TypeOK /\ thr[t].pc = "sweep" /\ Sweeping(t)
      /\ UNCHANGED <<sessions, lastUsed, now>>
  BY DEF BaseInv, SweepClean, Sweeping
<1>2. /\ Others(t) /\ e \in Entry /\ e.sid \in Sids /\ e.obj \in Objs
      /\ thr'[t].pc = "drop" /\ thr'[t].victim = e.sid
      /\ thr'[t].sid = thr[t].sid /\ thr'[t].obj = thr[t].obj
      /\ thr'[t].todo = thr[t].todo \ {e}
  BY <1>1, CleanMoves DEF Entry
<1>3. /\ held[e.obj] = NoThread /\ held' = [held EXCEPT ![e.obj] = t]
      /\ dirs' = dirs \ {e.obj}
  BY DEF CleanVictim
<1>4. /\ sessions[e.sid] \in {0, e.obj}
      /\ \A s \in Sids : sessions[s] = e.obj => s = e.sid
  BY <1>1 DEF BaseInv, SweepInv
<1>5. ASSUME NEW u \in Threads, Safe(u)
      PROVE  thr[u].obj # e.obj /\ thr[u].sid # e.sid
  <2>1. thr[u].obj \in Objs
    BY <1>1, <1>5, FrameFacts DEF TypeOK, Safe, InFlight
  <2>2. thr[u].obj # e.obj
    BY <1>1, <1>3, <1>5, SessionsAssumption
       DEF PatientInv, VictimInv, HeldInv
  <2>3. sessions[thr[u].sid] = thr[u].obj
    BY <1>5 DEF PatientInv, KeptInv
  <2> QED
    BY <1>4, <2>1, <2>2, <2>3, ObjFacts
<1>6. \A u \in Threads : Safe(u)' => u # t /\ Safe(u)
  BY <1>1, <1>2, SafeStays DEF Safe, InFlight, Others
<1>7. OneCallEach'
  BY <1>1, <1>2, OneCallStays DEF PatientInv
<1>8. KeptInv'
  <2>1. ASSUME NEW u \in Threads, Safe(u)'
        PROVE  /\ sessions'[thr'[u].sid] = thr'[u].obj
               /\ thr'[u].obj \in dirs'
    <3>1. Safe(u) /\ thr'[u] = thr[u]
      BY <1>2, <1>6, <2>1 DEF Others
    <3> QED
      BY <1>1, <1>3, <1>5, <3>1 DEF PatientInv, KeptInv
  <2>2. ASSUME NEW u \in Threads, Sweeping(u)'
        PROVE  sessions'[thr'[u].sid] = thr'[u].obj
    BY <1>1, <1>2, <2>2 DEF PatientInv, KeptInv, Sweeping, Others
  <2> QED  BY <2>1, <2>2 DEF KeptInv
<1>9. ClockInv'
  BY <1>1, <1>2 DEF PatientInv, ClockInv, Others
<1>10. \A u \in Threads : Sweeping(u)' => u = t
  BY <1>1, <1>2, SweeperAlone DEF Sweeping, Others
<1>11. VictimInv'
  <2>1. ASSUME NEW u \in Threads, Safe(u)'
        PROVE  /\ thr'[u].sid # thr'[t].victim
               /\ \A d \in thr'[t].todo :
                    thr'[u].obj = d.obj => thr'[u].pc = "work"
    <3>1. Safe(u) /\ thr'[u] = thr[u]
      BY <1>2, <1>6, <2>1 DEF Others
    <3> QED
      BY <1>1, <1>2, <1>5, <3>1 DEF PatientInv, VictimInv
  <2> QED
    BY <1>10, <2>1 DEF VictimInv
<1>12. \A s \in Sids : BeingDropped(s)' <=> BeingDropped(s) \/ s = e.sid
  BY <1>1, <1>2 DEF BeingDropped, Others
<1>13. NothingStrays
  <2>1. \A s \in Registered :
          (~ BeingDropped(s) /\ sessions[s] # e.obj) => ~ BeingDropped(s)'
    BY <1>4, <1>12 DEF Registered
  <2> QED
    BY <1>1, <1>3, <2>1 DEF NothingStrays, Stray, Kept, Registered
<1>14. DirInv'
  BY <1>1, <1>3, <1>4, <1>12 DEF PatientInv, DirInv, Registered
<1> QED
  BY <1>7, <1>8, <1>9, <1>11, <1>13, <1>14 DEF PatientInv

\* The victim of a sweep is nobody's session by then, and has no directory.
LEMMA DropPatient ==
    ASSUME BaseInv, PatientInv, NEW t \in Threads, SweepDrop(t)
    PROVE  PatientInv' /\ NothingStrays
<1> DEFINE v == thr[t].victim
<1>1. /\ TypeOK /\ thr[t].pc = "drop" /\ Sweeping(t)
      /\ v \in Registered /\ v # thr[t].sid
      /\ thr' = [thr EXCEPT ![t].pc = "sweep"]
      /\ UNCHANGED <<dirs, lastUsed, now>>
  BY DEF BaseInv, SweepDrop, Sweeping, SweepInv
<1>2. /\ Others(t) /\ thr'[t].pc = "sweep" /\ thr'[t].sid = thr[t].sid
      /\ thr'[t].obj = thr[t].obj /\ thr'[t].todo = thr[t].todo
  BY <1>1, PlaceMoves
<1>3. \A s \in Sids : sessions'[s] = IF s = v THEN 0 ELSE sessions[s]
  BY <1>1 DEF SweepDrop, TypeOK
<1>4. \A u \in Threads : Safe(u)' => u # t /\ Safe(u) /\ thr'[u] = thr[u]
  BY <1>1, <1>2, SafeStays DEF Safe, InFlight, Others
<1>5. \A u \in Threads : Sweeping(u)' => u = t
  BY <1>1, <1>2, SweeperAlone DEF Sweeping, Others
<1>6. \A u \in Threads : thr[u].sid \in Sids
  BY <1>1, FrameFacts DEF TypeOK
<1>7. \A u \in Threads : Safe(u) => thr[u].sid # v
  BY <1>1 DEF PatientInv, VictimInv
<1>8. OneCallEach'
  BY <1>1, <1>2, OneCallStays DEF PatientInv
<1>9. KeptInv'
  <2>1. ASSUME NEW u \in Threads, Safe(u)'
        PROVE  sessions'[thr'[u].sid] = thr'[u].obj /\ thr'[u].obj \in dirs'
    BY <1>1, <1>3, <1>4, <1>6, <1>7, <2>1 DEF PatientInv, KeptInv
  <2>2. sessions'[thr'[t].sid] = thr'[t].obj
    BY <1>1, <1>2, <1>3, <1>6 DEF PatientInv, KeptInv
  <2> QED  BY <1>5, <2>1, <2>2 DEF KeptInv
<1>10. ClockInv'
  BY <1>1, <1>2 DEF PatientInv, ClockInv, Others
<1>11. VictimInv'
  <2>1. ASSUME NEW u \in Threads, Safe(u)', NEW e \in thr'[t].todo,
               thr'[u].obj = e.obj
        PROVE  thr'[u].pc = "work"
    BY <1>1, <1>2, <1>4, <2>1 DEF PatientInv, VictimInv
  <2> QED  BY <1>2, <1>5, <2>1 DEF VictimInv
<1>12. BeingDropped(v)
  BY <1>1 DEF BeingDropped
<1>13. \A s \in Sids \ {v} : BeingDropped(s)' <=> BeingDropped(s)
  BY <1>1, <1>2 DEF BeingDropped, Others
<1>14. \A s \in Sids : s \in Registered' <=> s \in Registered /\ s # v
  BY <1>3 DEF Registered
<1>15. DirInv'
  BY <1>1, <1>3, <1>13, <1>14 DEF PatientInv, DirInv, Registered
<1>16. NothingStrays
  <2>1. \A s \in Registered : ~ BeingDropped(s) =>
          s \in Registered' /\ ~ BeingDropped(s)' /\ sessions'[s] = sessions[s]
    BY <1>3, <1>12, <1>13, <1>14 DEF Registered
  <2>2. Kept \subseteq Kept'
    BY <2>1 DEF Kept
  <2> QED
    BY <1>1, <2>2 DEF NothingStrays, Stray
<1> QED
  BY <1>8, <1>9, <1>10, <1>11, <1>15, <1>16 DEF PatientInv

\* A reset has taken the entry out: nothing but the call that sweeps goes.
LEMMA KeyErrorPatient ==
    ASSUME BaseInv, PatientInv, NEW t \in Threads, SweepKeyError(t)
    PROVE  PatientInv' /\ NothingStrays
<1>1. /\ TypeOK /\ thr[t].pc = "drop" /\ Return(t)
      /\ thr[t].victim \notin Registered
      /\ UNCHANGED <<sessions, dirs, lastUsed, now>>
  BY DEF BaseInv, SweepKeyError
<1>2. Others(t) /\ thr'[t].pc = "idle"
  BY <1>1, Returns
<1>3. OneCallEach'
  BY <1>2, OneCallStays DEF PatientInv
<1>4. KeptInv'
  BY <1>1, <1>2 DEF PatientInv, KeptInv, Safe, Overdue, IdleTooLong, InFlight, Sweeping, Others
<1>5. ClockInv'
  BY <1>1, <1>2 DEF PatientInv, ClockInv, Others
<1>6. VictimInv'
  BY <1>1, <1>2 DEF PatientInv, VictimInv, Safe, Overdue, IdleTooLong, InFlight, Sweeping, Others
<1>7. \A r \in Registered : BeingDropped(r)' <=> BeingDropped(r)
  BY <1>1, <1>2 DEF BeingDropped, Others
<1>8. DirInv'
  BY <1>1, <1>7 DEF PatientInv, DirInv, Registered
<1>9. NothingStrays
  BY <1>1, <1>7, KeptStays
<1> QED
  BY <1>3, <1>4, <1>5, <1>6, <1>8, <1>9 DEF PatientInv

\* A session that is handed out has its directory: nobody is taking it out.
LEMMA HandOutPatient ==
    ASSUME BaseInv, OwnInv, PatientInv, NEW t \in Threads, HandOut(t)
    PROVE  PatientInv' /\ NothingStrays
<1> DEFINE s == thr[t].sid
           o == Handed(t)
<1>1. TypeOK /\ thr[t].pc = "sweep" /\ Sweeping(t) /\ s \in Sids
  BY FrameFacts DEF BaseInv, HandOut, TypeOK, Sweeping
<1>2. /\ Others(t) /\ o \in Objs /\ o \in Nat
      /\ thr'[t].pc \in {"wait", "await"}
      /\ thr'[t].sid = s /\ thr'[t].obj = o
  BY <1>1, HandOutMoves, ObjFacts DEF Handed
<1>3. /\ sessions' = [sessions EXCEPT ![s] = o]
      /\ dirs' = IF s \notin Registered THEN dirs \union {o} ELSE dirs
      /\ lastUsed' = [lastUsed EXCEPT ![o] = now]
      /\ UNCHANGED <<held, now>>
  BY DEF HandOut, Handed
<1>4. s \in Registered => o = sessions[s]
  BY DEF Handed
<1>5. s \notin Registered => o = nextObj
  BY DEF Handed
<1> HIDE DEF s, o
<1>6. \A r \in Sids : sessions'[r] = IF r = s THEN o ELSE sessions[r]
  BY <1>1, <1>3 DEF TypeOK
<1>7. \A r \in Sids \ {s} : sessions[r] # o
  <2>1. CASE s \in Registered
    BY <1>1, <1>2, <1>4, <2>1, ObjFacts DEF BaseInv, ObjInv, Registered
  <2>2. CASE s \notin Registered
    BY <1>1, <1>2, <1>5, <2>2, ObjFacts DEF BaseInv, ObjInv, Registered
  <2> QED  BY <2>1, <2>2
<1>19. ASSUME NEW u \in Threads, InFlight(u), thr[u].obj = o
       PROVE  thr[u].sid = s
  BY <1>2, <1>4, <1>5, <1>19, ObjFacts DEF OwnInv, BaseInv, TypeOK
<1>8. \A u \in Threads \ {t} : thr[u].pc # "idle" => thr[u].sid # s
  BY <1>1 DEF PatientInv, OneCallEach, s
<1>9. \A u \in Threads \ {t} : ~ Sweeping(u)
  BY <1>1, SweeperAlone
<1>10. ~ BeingDropped(s)
  BY <1>1, <1>8, <1>9 DEF BeingDropped, Sweeping
<1>11. o \in dirs'
  BY <1>1, <1>3, <1>4, <1>10 DEF PatientInv, DirInv
<1>12. OneCallEach'
  BY <1>1, <1>2, OneCallStays DEF PatientInv, s
<1>13. KeptInv'
  <2>1. ASSUME NEW u \in Threads \ {t}, Safe(u)'
        PROVE  sessions'[thr'[u].sid] = thr'[u].obj /\ thr'[u].obj \in dirs'
    <3>1. thr'[u] = thr[u] /\ InFlight(u) /\ thr[u].sid # s
      BY <1>2, <1>8, <2>1 DEF Others, Safe, InFlight
    <3>2. /\ thr[u].sid \in Sids /\ thr[u].obj \in Objs
      BY <1>1, <3>1, FrameFacts DEF TypeOK, InFlight
    <3>3. thr[u].obj # o
      BY <1>19, <3>1
    <3>4. Safe(u)
      BY <1>1, <1>3, <2>1, <3>1, <3>2, <3>3
         DEF TypeOK, Safe, Overdue, IdleTooLong
    <3> QED
      BY <1>3, <1>6, <3>1, <3>2, <3>4 DEF PatientInv, KeptInv
  <2>2. sessions'[thr'[t].sid] = thr'[t].obj /\ thr'[t].obj \in dirs'
    BY <1>1, <1>2, <1>6, <1>11
  <2>3. \A u \in Threads : ~ Sweeping(u)'
    BY <1>2, <1>9 DEF Sweeping, Others
  <2> QED  BY <2>1, <2>2, <2>3 DEF KeptInv
<1>14. ClockInv'
  <2>1. ASSUME NEW u \in Threads \ {t}, thr'[u].pc = "wait"
        PROVE  lastUsed'[thr'[u].obj] = now'
    <3>1. thr'[u] = thr[u] /\ thr[u].obj \in Objs
      BY <1>1, <1>2, <2>1, FrameFacts DEF TypeOK, Others
    <3> QED
      BY <1>1, <1>3, <2>1, <3>1 DEF PatientInv, ClockInv, TypeOK
  <2>2. lastUsed'[thr'[t].obj] = now'
    BY <1>1, <1>2, <1>3 DEF TypeOK
  <2> QED  BY <2>1, <2>2 DEF ClockInv
<1>15. VictimInv'
  BY <1>2, <1>9 DEF VictimInv, Sweeping, Others
<1>16. \A r \in Sids : BeingDropped(r)' <=> BeingDropped(r)
  BY <1>1, <1>2 DEF BeingDropped, Others
<1>17. DirInv'
  BY <1>3, <1>6, <1>11, <1>16 DEF PatientInv, DirInv, Registered
<1>18. NothingStrays
  <2>1. Kept \subseteq Kept'
    BY <1>4, <1>6, <1>16 DEF Kept, Registered
  <2>2. o \in Kept'
    BY <1>1, <1>2, <1>6, <1>10, <1>16, ObjFacts DEF Kept, Registered
  <2> QED
    BY <1>3, <2>1, <2>2 DEF NothingStrays, Stray
<1> QED
  BY <1>12, <1>13, <1>14, <1>15, <1>17, <1>18 DEF PatientInv

LEMMA LockPatient ==
    ASSUME BaseInv, PatientInv, NEW t \in Threads, Lock(t)
    PROVE  PatientInv' /\ NothingStrays
<1> DEFINE o == thr[t].obj
<1>1. /\ TypeOK /\ thr[t].pc = "wait" /\ InFlight(t) /\ o \in Objs
      /\ thr' = [thr EXCEPT ![t].pc = "work"]
      /\ held[o] = NoThread /\ held' = [held EXCEPT ![o] = t]
      /\ UNCHANGED <<sessions, lastUsed, now>>
  BY FrameFacts DEF BaseInv, Lock, TypeOK, InFlight
<1>2. /\ Others(t) /\ thr'[t].pc = "work" /\ thr'[t].sid = thr[t].sid
      /\ thr'[t].obj = o /\ thr'[t].todo = thr[t].todo
  BY <1>1, PlaceMoves
<1>3. dirs' = dirs
  BY <1>1 DEF Lock, PatientInv, KeptInv, Safe, Overdue
<1>4. OneCallEach'
  BY <1>1, <1>2, OneCallStays DEF PatientInv
<1>5. KeptInv'
  BY <1>1, <1>2, <1>3 DEF PatientInv, KeptInv, Safe, Overdue, IdleTooLong, InFlight, Sweeping, Others
<1>6. ClockInv'
  BY <1>1, <1>2 DEF PatientInv, ClockInv, Others
<1>7. VictimInv'
  BY <1>1, <1>2 DEF PatientInv, VictimInv, Safe, Overdue, IdleTooLong, InFlight, Sweeping, Others
<1>8. \A r \in Sids : BeingDropped(r)' <=> BeingDropped(r)
  BY <1>1, <1>2 DEF BeingDropped, Others
<1>9. DirInv'
  BY <1>1, <1>3, <1>8 DEF PatientInv, DirInv, Registered
<1>10. NothingStrays
  BY <1>1, <1>3, <1>8, KeptStays DEF Registered
<1> QED
  BY <1>4, <1>5, <1>6, <1>7, <1>9, <1>10 DEF PatientInv

LEMMA UnlockPatient ==
    ASSUME BaseInv, PatientInv, NEW t \in Threads, Unlock(t)
    PROVE  PatientInv' /\ NothingStrays
<1>1. /\ TypeOK /\ thr[t].pc = "work" /\ Return(t)
      /\ UNCHANGED <<sessions, dirs, lastUsed, now>>
  BY DEF BaseInv, Unlock
<1> QED
  BY <1>1, Returns, ReturnPatient

\* The directory that a download makes is there already, if it is in time.
LEMMA AwaitPatient ==
    ASSUME BaseInv, PatientInv, NEW t \in Threads,
           Download(t) \/ ServiceFails(t)
    PROVE  /\ PatientInv'
           /\ \A d \in Stray' \ Stray :
                Overdue(t) /\ Download(t) /\ thr[t].obj = d
<1>1. /\ TypeOK /\ thr[t].pc = "await" /\ InFlight(t) /\ Return(t)
      /\ UNCHANGED <<sessions, held, lastUsed, now>>
  BY DEF BaseInv, Download, ServiceFails, InFlight
<1>2. CASE dirs' = dirs
  <2>1. PatientInv' /\ NothingStrays
    BY <1>1, <1>2, Returns, ReturnPatient
  <2> QED  BY <2>1 DEF NothingStrays
<1>3. CASE dirs' # dirs
  <2>1. Download(t) /\ dirs' = dirs \union {thr[t].obj} /\ Overdue(t)
    BY <1>1, <1>3 DEF Download, ServiceFails, PatientInv, KeptInv, Safe
  <2>2. Others(t) /\ thr'[t].pc = "idle"
    BY <1>1, Returns
  <2>3. OneCallEach'
    BY <2>2, OneCallStays DEF PatientInv
  <2>4. KeptInv'
    BY <1>1, <2>1, <2>2
       DEF PatientInv, KeptInv, Safe, Overdue, IdleTooLong, InFlight, Sweeping,
           Others
  <2>5. ClockInv' /\ VictimInv'
    BY <1>1, <2>2
       DEF PatientInv, ClockInv, VictimInv, Safe, Overdue, IdleTooLong,
           InFlight, Sweeping, Others
  <2>6. \A r \in Sids : BeingDropped(r)' <=> BeingDropped(r)
    BY <1>1, <2>2 DEF BeingDropped, Others
  <2>7. DirInv' /\ Kept' = Kept
    BY <1>1, <2>1, <2>6 DEF PatientInv, DirInv, Kept, Registered
  <2> QED
    BY <2>1, <2>3, <2>4, <2>5, <2>7 DEF PatientInv, Stray
<1> QED
  BY <1>2, <1>3

\* A reset removes the directory of a session that no other call is on.
LEMMA ResetCleanPatient ==
    ASSUME BaseInv, PatientInv, NEW t \in Threads, ResetClean(t)
    PROVE  PatientInv' /\ NothingStrays
<1> DEFINE s == thr[t].sid
<1>1. /\ TypeOK /\ thr[t].pc = "reset" /\ s \in Sids
      /\ UNCHANGED <<sessions, held, lastUsed, now>>
  BY FrameFacts DEF BaseInv, TypeOK, ResetClean
<1>2. CASE s \in Registered
  <2>1. dirs' = dirs \ {sessions[s]} /\ thr' = [thr EXCEPT ![t].pc = "reset_del"]
    BY <1>2 DEF ResetClean
  <2>2. /\ Others(t) /\ thr'[t].pc = "reset_del" /\ thr'[t].sid = s
    BY <1>1, <2>1, PlaceMoves
  <2>3. \A u \in Threads \ {t} : thr[u].pc # "idle" => thr[u].sid # s
    BY <1>1 DEF PatientInv, OneCallEach
  <2>4. \A r \in Registered : sessions[r] = sessions[s] => r = s
    BY <1>2 DEF BaseInv, ObjInv
  <2>5. ASSUME NEW u \in Threads, Safe(u)'
        PROVE  /\ u # t /\ thr'[u] = thr[u] /\ Safe(u)
               /\ thr[u].obj # sessions[s]
    <3>1. u # t /\ thr'[u] = thr[u] /\ Safe(u)
      BY <1>1, <2>2, <2>5, SafeStays DEF Safe, InFlight, Others
    <3>2. /\ thr[u].sid \in Sids /\ thr[u].obj \in Objs /\ thr[u].sid # s
          /\ sessions[thr[u].sid] = thr[u].obj
      BY <1>1, <2>3, <3>1, FrameFacts
         DEF TypeOK, Safe, InFlight, PatientInv, KeptInv
    <3> QED
      BY <2>4, <3>1, <3>2, ObjFacts DEF Registered
  <2>6. OneCallEach'
    BY <1>1, <2>2, OneCallStays DEF PatientInv
  <2>7. KeptInv'
    <3>1. \A u \in Threads : Safe(u)' =>
            sessions'[thr'[u].sid] = thr'[u].obj /\ thr'[u].obj \in dirs'
      BY <1>1, <2>1, <2>5 DEF PatientInv, KeptInv
    <3>2. \A u \in Threads : Sweeping(u)' => sessions'[thr'[u].sid] = thr'[u].obj
      BY <1>1, <2>2 DEF PatientInv, KeptInv, Sweeping, Others
    <3> QED  BY <3>1, <3>2 DEF KeptInv
  <2>8. ClockInv'
    BY <1>1, <2>2 DEF PatientInv, ClockInv, Others
  <2>9. VictimInv'
    BY <1>1, <2>2 DEF PatientInv, VictimInv, Safe, Overdue, IdleTooLong, InFlight, Sweeping, Others
  <2>10. \A r \in Sids : BeingDropped(r)' <=> BeingDropped(r) \/ r = s
    BY <1>1, <2>2 DEF BeingDropped, Others
  <2>11. NothingStrays
    <3>1. \A r \in Registered :
            (~ BeingDropped(r) /\ sessions[r] # sessions[s])
              => ~ BeingDropped(r)'
      BY <2>10 DEF Registered
    <3> QED
      BY <1>1, <2>1, <3>1 DEF NothingStrays, Stray, Kept, Registered
  <2>12. DirInv'
    BY <1>1, <2>1, <2>4, <2>10 DEF PatientInv, DirInv, Registered
  <2> QED
    BY <2>6, <2>7, <2>8, <2>9, <2>11, <2>12 DEF PatientInv
<1>3. CASE s \notin Registered
  <2>1. Return(t) /\ dirs' = dirs
    BY <1>3 DEF ResetClean
  <2> QED
    BY <1>1, <2>1, Returns, ReturnPatient
<1> QED  BY <1>2, <1>3

LEMMA ResetDelPatient ==
    ASSUME BaseInv, PatientInv, NEW t \in Threads, ResetDel(t)
    PROVE  PatientInv' /\ NothingStrays
<1> DEFINE s == thr[t].sid
<1>1. /\ TypeOK /\ thr[t].pc = "reset_del" /\ s \in Sids /\ Return(t)
      /\ UNCHANGED <<dirs, held, lastUsed, now>>
  BY FrameFacts DEF BaseInv, TypeOK, ResetDel
<1>2. Others(t) /\ thr'[t].pc = "idle"
  BY <1>1, Returns
<1>3. \A r \in Sids : sessions'[r] = IF r = s THEN 0 ELSE sessions[r]
  BY <1>1 DEF ResetDel, TypeOK
<1>4. \A u \in Threads \ {t} : thr[u].pc # "idle" => thr[u].sid # s
  BY <1>1 DEF PatientInv, OneCallEach
<1>5. \A u \in Threads : thr[u].sid \in Sids
  BY <1>1, FrameFacts DEF TypeOK
<1>6. OneCallEach'
  BY <1>2, OneCallStays DEF PatientInv
<1>7. KeptInv'
  <2>1. ASSUME NEW u \in Threads, Safe(u)' \/ Sweeping(u)'
        PROVE  /\ thr'[u] = thr[u] /\ thr[u].sid # s
               /\ Safe(u)' => Safe(u)
               /\ Sweeping(u)' => Sweeping(u)
    BY <1>1, <1>2, <1>4, <2>1, SafeStays DEF Safe, InFlight, Sweeping, Others
  <2> QED
    BY <1>1, <1>3, <1>5, <2>1 DEF PatientInv, KeptInv
<1>8. ClockInv'
  BY <1>1, <1>2 DEF PatientInv, ClockInv, Others
<1>9. VictimInv'
  BY <1>1, <1>2 DEF PatientInv, VictimInv, Safe, Overdue, IdleTooLong, InFlight, Sweeping, Others
<1>10. BeingDropped(s)
  BY <1>1 DEF BeingDropped
<1>11. \A r \in Sids \ {s} : BeingDropped(r)' <=> BeingDropped(r)
  BY <1>1, <1>2 DEF BeingDropped, Others
<1>12. \A r \in Sids : r \in Registered' <=> r \in Registered /\ r # s
  BY <1>3 DEF Registered
<1>13. DirInv'
  BY <1>1, <1>3, <1>11, <1>12 DEF PatientInv, DirInv, Registered
<1>14. NothingStrays
  <2>1. \A r \in Registered : ~ BeingDropped(r) =>
          r \in Registered' /\ ~ BeingDropped(r)' /\ sessions'[r] = sessions[r]
    BY <1>3, <1>10, <1>11, <1>12 DEF Registered
  <2>2. Kept \subseteq Kept'
    BY <2>1 DEF Kept
  <2> QED
    BY <1>1, <2>2 DEF NothingStrays, Stray
<1> QED
  BY <1>6, <1>7, <1>8, <1>9, <1>13, <1>14 DEF PatientInv

\* Nobody waits for a session's lock while time passes: the call that has it
\* would be a second one on that session.
LEMMA TickPatient ==
    ASSUME BaseInv, HeldInv, PatientInv, Tick
    PROVE  PatientInv' /\ NothingStrays
<1>1. /\ TypeOK /\ now' = now + 1 /\ now \in Nat
      /\ UNCHANGED <<sessions, dirs, lastUsed, held, thr>>
      /\ \A t \in Threads : ~ Busy(t)
  BY DEF BaseInv, Tick, TypeOK
<1>2. \A t \in Threads : thr[t].pc # "wait"
  <2> SUFFICES ASSUME NEW t \in Threads, thr[t].pc = "wait" PROVE FALSE
    OBVIOUS
  <2> DEFINE o == thr[t].obj
             u == held[o]
  <2>1. o \in Objs
    BY <1>1, FrameFacts DEF TypeOK
  <2>2. u \in Threads
    BY <1>1, <2>1 DEF Busy, TypeOK
  <2>3. thr[u].pc # "drop"
    BY <1>1, <2>2 DEF Busy
  <2>4. thr[u].pc = "work" /\ thr[u].obj = o
    BY <2>1, <2>2, <2>3 DEF HeldInv
  <2>5. t = u
    BY <2>2, <2>4, OneCallPerObject DEF Safe, Overdue, InFlight
  <2> QED  BY <2>4, <2>5
<1>3. ClockInv'
  BY <1>1, <1>2 DEF ClockInv
<1>4. ASSUME NEW t \in Threads, Safe(t)' PROVE Safe(t)
  <2>1. InFlight(t) => thr[t].obj \in Objs
    BY <1>1, FrameFacts DEF TypeOK, InFlight
  <2>2. InFlight(t) => lastUsed[thr[t].obj] \in Nat
    BY <1>1, <2>1 DEF TypeOK
  <2> QED
    BY <1>1, <1>4, <2>2, SessionsAssumption
       DEF Safe, Overdue, IdleTooLong, InFlight
<1>5. OneCallEach' /\ KeptInv' /\ VictimInv'
  BY <1>1, <1>4 DEF PatientInv, OneCallEach, KeptInv, VictimInv, Sweeping
<1>6. DirInv' /\ NothingStrays
  BY <1>1
     DEF PatientInv, DirInv, NothingStrays, Stray, Kept, Registered, BeingDropped
<1> QED
  BY <1>3, <1>5, <1>6 DEF PatientInv

LEMMA InvInit == Init => Inv
<1> SUFFICES ASSUME Init PROVE OwnInv /\ PatientInv
  BY BaseInit, HeldInit DEF Inv
<1>1. \A t \in Threads : thr[t].pc = "idle"
  BY IdleFrame DEF Init
<1>2. OwnInv /\ OneCallEach /\ KeptInv /\ ClockInv /\ VictimInv
  BY <1>1 DEF OwnInv, OneCallEach, KeptInv, ClockInv, VictimInv, Safe, InFlight,
              Sweeping
<1>3. DirInv
  BY DEF Init, DirInv, Registered
<1> QED
  BY <1>2, <1>3 DEF PatientInv

LEMMA PatientStep ==
    ASSUME BaseInv, HeldInv, OwnInv, PatientInv, patient, [Next]_vars
    PROVE  PatientInv' /\ StrayStep
<1>1. CASE UNCHANGED vars
  BY <1>1 DEF vars, PatientInv, OneCallEach, KeptInv, ClockInv, VictimInv,
              DirInv, Safe, Overdue, IdleTooLong, InFlight, Sweeping,
              Registered, BeingDropped, StrayStep, Stray, Kept
<1>2. ASSUME NEW t \in Threads, NEW tool \in Tools, NEW s \in Sids,
             Call(t, tool, s)
      PROVE  PatientInv' /\ NothingStrays
  BY <1>2, CallPatient
<1>3. ASSUME NEW t \in Threads, Step(t), ~ Download(t), ~ ServiceFails(t)
      PROVE  PatientInv' /\ NothingStrays
  BY <1>3, EnterPatient, SkipPatient, CleanPatient, DropPatient,
     KeyErrorPatient, HandOutPatient, LockPatient, UnlockPatient,
     ResetCleanPatient, ResetDelPatient
     DEF Step
<1>4. ASSUME NEW t \in Threads, Download(t) \/ ServiceFails(t)
      PROVE  PatientInv' /\ StrayStep
  BY <1>4, AwaitPatient DEF StrayStep
<1>5. CASE Tick
  BY <1>5, TickPatient DEF NothingStrays, StrayStep
<1> QED
  BY <1>1, <1>2, <1>3, <1>4, <1>5 DEF Next, NothingStrays, StrayStep

LEMMA InvStep == Inv /\ [Next]_vars => Inv'
<1> SUFFICES ASSUME Inv, [Next]_vars PROVE Inv'
  OBVIOUS
<1>1. BaseInv' /\ HeldInv' /\ OwnInv'
  BY BaseStep, HeldStep, OwnStep DEF Inv
<1>2. patient' = patient
  BY DEF Next, Step, vars, Call, Tick, Enter, SweepSkip, SweepClean, SweepDrop,
         SweepKeyError, HandOut, Lock, Unlock, Download, ServiceFails,
         ResetClean, ResetDel
<1> QED
  BY <1>1, <1>2, PatientStep DEF Inv

LEMMA Invariance == Spec => []Inv
BY InvInit, InvStep, PTL DEF Spec

\* The object a call works on stays registered, and its directory there, until
\* the call returns or has waited for a service for longer than the idle
\* timeout, if its client waits for each answer: the sweep takes nothing else
\* that is in use.
THEOREM InFlightKept == Spec => []InFlightIsKept
<1>1. Inv => InFlightIsKept
  BY DEF Inv, PatientInv, KeptInv, Safe, InFlightIsKept
<1> QED
  BY <1>1, Invariance, PTL

\* For clients with one call at a time on a session, every session that a
\* client can reach has its directory, and no directory is lost to the registry
\* but by the download of a call that has waited for longer than the idle
\* timeout.
THEOREM DirectoriesMatch == Spec => DirectoriesAreSessions
<1>1. Inv => (patient => Kept \subseteq dirs)
  BY DEF Inv, PatientInv, DirInv, Kept
<1>2. Inv /\ [Next]_vars => [patient => StrayStep]_vars
  BY PatientStep DEF Inv
<1> QED
  BY <1>1, <1>2, Invariance, PTL DEF Spec, DirectoriesAreSessions

\* A client that comes back after any pause is handed the session that it had
\* when its call arrived.
THEOREM RequestedKept == Spec => RequestedIsKept
<1> DEFINE Same == \A t \in Threads :
                     (patient /\ HandOut(t) /\ thr[t].obj # 0)
                       => thr'[t].obj = thr[t].obj
<1>1. ASSUME Inv, Next PROVE Same
  <2> SUFFICES ASSUME NEW t \in Threads, patient, HandOut(t), thr[t].obj # 0
               PROVE  thr'[t].obj = thr[t].obj
    OBVIOUS
  <2>1. BaseInv /\ TypeOK /\ PatientInv /\ thr[t].pc = "sweep"
    BY <1>1 DEF Inv, BaseInv, HandOut
  <2>2. thr[t].sid \in Sids
    BY <2>1, FrameFacts DEF TypeOK
  <2>3. sessions[thr[t].sid] = thr[t].obj
    BY <2>1 DEF PatientInv, KeptInv, Sweeping
  <2>4. Handed(t) = thr[t].obj
    BY <2>2, <2>3 DEF Handed, Registered
  <2> QED
    BY <2>1, <2>4, HandOutMoves DEF Handed
<1>2. Inv /\ [Next]_vars => [Same]_vars
  BY <1>1
<1> QED
  BY <1>2, Invariance, PTL DEF Spec, RequestedIsKept

=============================================================================
