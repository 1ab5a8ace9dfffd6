--------------------------- MODULE WarmSpareProofs --------------------------
(***************************************************************************)
(* Theorems about WarmSpare, for any number of runs, background threads    *)
(* and processes, and with every fault.                                    *)
(***************************************************************************)
EXTENDS WarmSpare, FiniteSetTheorems, TLAPS

Thread == Runs \union Spawners

\* Runs and background threads go through places of their own.
RoleInv ==
    /\ \A t \in Runs : thr[t].pc \in {"idle", "take", "terminate", "prewarm",
                                      "start", "communicate"}
    /\ \A s \in Spawners : thr[s].pc \in {"idle", "boot", "install"}

\* A process is in one pair of hands, and the spare in nobody's.
OwnerInv ==
    /\ \A t, u \in Thread :
         (thr[t].proc = thr[u].proc /\ thr[t].proc # 0) => t = u
    /\ \A t \in Thread : thr[t].proc # 0 => thr[t].proc # spare

\* Nobody but the spawner that waits for it has a process that is still
\* importing CadQuery.
WarmInv ==
    \A p \in Procs : proc[p] = "booting" =>
        /\ spare # p
        /\ \A t \in Thread : thr[t].proc = p => thr[t].pc = "boot"

HeldInv ==
    \A p \in Procs : Alive(p) => spare = p \/ \E t \in Thread : thr[t].proc = p

Inv == TypeOK /\ RoleInv /\ OwnerInv /\ WarmInv /\ HeldInv

-----------------------------------------------------------------------------
(* Frames.                                                                 *)

\* The places where a thread has a process, may have one, has none.
Having == {"communicate", "boot", "install"}
Perhaps == {"prewarm", "start"}
Lacking == {"idle", "take", "terminate"}

LEMMA FrameFacts ==
    ASSUME NEW f \in Frame
    PROVE  /\ f.pc \in Having => f.proc \in Procs
           /\ f.pc \in Perhaps => f.proc \in Procs \union {0}
           /\ f.pc \in Lacking => f.proc = 0
           /\ f.proc \in Procs \union {0}
           /\ f.pc \in Having \union Perhaps \union Lacking
BY WarmSpareAssumption DEF Frame, Having, Perhaps, Lacking

\* A thread moves on and takes a process, keeps its own or gives it up.
LEMMA Moves ==
    ASSUME TypeOK, NEW t \in Thread, NEW pc, NEW p,
           \/ Hold(t, pc, p)
           \/ (Goto(t, pc) /\ p = thr[t].proc),
           \/ pc \in Having /\ p \in Procs
           \/ pc \in Perhaps /\ p \in Procs \union {0}
           \/ pc \in Lacking /\ p = 0
    PROVE  /\ thr' \in [Thread -> Frame]
           /\ thr'[t].pc = pc /\ thr'[t].proc = p
           /\ \A u \in Thread \ {t} : thr'[u] = thr[u]
<1>1. thr \in [Thread -> Frame] /\ thr[t] \in Frame
  BY DEF TypeOK, Thread
<1>2. CASE Hold(t, pc, p)
  <2>1. [pc |-> pc, proc |-> p] \in Frame
    BY DEF Frame, Having, Perhaps, Lacking
  <2>. QED  BY <1>1, <1>2, <2>1 DEF Hold
<1>3. CASE Goto(t, pc) /\ p = thr[t].proc
  <2>1. /\ [thr[t] EXCEPT !.pc = pc] \in Frame
        /\ [thr[t] EXCEPT !.pc = pc].pc = pc
        /\ [thr[t] EXCEPT !.pc = pc].proc = p
    <3>1. CASE thr[t] \in [pc: {"idle", "take", "terminate"}, proc: {0}]
      BY <1>3, <3>1 DEF Frame, Having, Perhaps, Lacking
    <3>2. CASE thr[t] \in [pc: {"prewarm", "start"}, proc: Procs \union {0}]
      BY <1>3, <3>2 DEF Frame, Having, Perhaps, Lacking
    <3>3. CASE thr[t] \in [pc: {"communicate", "boot", "install"}, proc: Procs]
      BY <1>3, <3>3 DEF Frame, Having, Perhaps, Lacking
    <3>. QED  BY <1>1, <3>1, <3>2, <3>3 DEF Frame
  <2>. QED  BY <1>1, <1>3, <2>1 DEF Goto
<1>. QED  BY <1>2, <1>3

-----------------------------------------------------------------------------
(* Every action keeps the invariant.                                       *)

LEMMA InitInv == Init => Inv
<1>. SUFFICES ASSUME Init PROVE Inv
  OBVIOUS
<1>1. Idle \in Frame /\ Idle.pc = "idle" /\ Idle.proc = 0
  BY DEF Idle, Frame
<1>2. TypeOK
  BY <1>1, WarmSpareAssumption DEF Init, TypeOK, ProcState
<1>. QED
  BY <1>1, <1>2 DEF Init, Inv, RoleInv, OwnerInv, WarmInv, HeldInv, Alive,
                    Thread

\* A process that ends by itself or is killed from outside.
LEMMA EnvironmentInv ==
    ASSUME Inv, NEW p \in Procs, Finish(p) \/ Die(p)
    PROVE  Inv'
<1>1. /\ proc' = [proc EXCEPT ![p] = "gone"]
      /\ UNCHANGED <<spare, spawnSet, thr, ops, world>>
  BY DEF Finish, Die
<1>2. TypeOK'
  BY <1>1 DEF Inv, TypeOK, ProcState
<1>3. WarmInv' /\ HeldInv'
  BY <1>1 DEF Inv, TypeOK, WarmInv, HeldInv, Alive
<1>. QED  BY <1>1, <1>2, <1>3 DEF Inv, RoleInv, OwnerInv

\* A new process is nobody's, and a new background thread is idle.
LEMMA StartFacts ==
    ASSUME TypeOK, NEW s \in Spawners, NEW p \in Procs, StartSpawner(s, p)
    PROVE  /\ p # 0 /\ p # spare
           /\ \A t \in Thread : thr[t].proc # p
           /\ thr[s] = Idle /\ Idle.pc = "idle" /\ Idle.proc = 0
           /\ proc' = [proc EXCEPT ![p] = "booting"]
BY WarmSpareAssumption
DEF StartSpawner, NewProc, NewSpawner, FirstOf, Holders, Idle, Thread

\* The new process is in the hands of its background thread.
LEMMA StartKeeps ==
    ASSUME Inv, NEW s \in Spawners, NEW p \in Procs, StartSpawner(s, p),
           thr'[s].pc = "boot", thr'[s].proc = p, UNCHANGED spare,
           \A u \in Thread \ {s} : /\ thr'[u].proc = thr[u].proc
                                   /\ thr[u].pc = "boot" => thr'[u] = thr[u]
    PROVE  OwnerInv' /\ WarmInv' /\ HeldInv'
<1>1. /\ p # 0 /\ p # spare /\ \A t \in Thread : thr[t].proc # p
      /\ thr[s].proc = 0 /\ proc' = [proc EXCEPT ![p] = "booting"]
      /\ s \in Thread /\ TypeOK
  BY StartFacts DEF Inv, Thread
<1>2. OwnerInv'
  BY <1>1 DEF Inv, OwnerInv
<1>3. WarmInv'
  <2>. SUFFICES ASSUME NEW q \in Procs, proc'[q] = "booting"
                PROVE  /\ spare # q
                       /\ \A t \in Thread :
                            thr'[t].proc = q => thr'[t].pc = "boot"
    BY DEF WarmInv
  <2>1. CASE q = p
    BY <1>1, <2>1
  <2>2. CASE q # p
    <3>1. proc[q] = "booting"
      BY <1>1, <2>2 DEF TypeOK
    <3>. QED  BY <2>2, <3>1 DEF Inv, WarmInv
  <2>. QED  BY <2>1, <2>2
<1>4. HeldInv'
  <2>. SUFFICES ASSUME NEW q \in Procs, proc'[q] # "gone"
                PROVE  spare = q \/ \E t \in Thread : thr'[t].proc = q
    BY DEF HeldInv, Alive
  <2>1. CASE q = p
    BY <1>1, <2>1
  <2>2. CASE q # p
    <3>1. proc[q] # "gone" /\ q # 0
      BY <1>1, <2>2, WarmSpareAssumption DEF TypeOK
    <3>. QED  BY <1>1, <3>1 DEF Inv, HeldInv, Alive
  <2>. QED  BY <2>1, <2>2
<1>. QED  BY <1>2, <1>3, <1>4

LEMMA ConfigureInv ==
    ASSUME Inv, Configure
    PROVE  Inv'
<1>1. PICK s \in Spawners, p \in Procs :
        StartSpawner(s, p) /\ Hold(s, "boot", p)
  BY DEF Configure
<1>2. s \in Thread /\ TypeOK
  BY DEF Inv, Thread
<1>3. /\ thr' \in [Thread -> Frame] /\ thr'[s].pc = "boot"
      /\ thr'[s].proc = p /\ \A u \in Thread \ {s} : thr'[u] = thr[u]
  BY <1>1, <1>2, Moves DEF Having
<1>4. /\ p # 0 /\ p # spare /\ \A t \in Thread : thr[t].proc # p
      /\ thr[s].proc = 0 /\ proc' = [proc EXCEPT ![p] = "booting"]
  BY <1>1, <1>2, StartFacts
<1>5. TypeOK'
  BY <1>3, <1>4 DEF Configure, Inv, TypeOK, ProcState, Thread
<1>6. RoleInv'
  BY <1>3, WarmSpareAssumption DEF Inv, RoleInv, Thread
<1>7. OwnerInv' /\ WarmInv' /\ HeldInv'
  BY <1>1, <1>3, StartKeeps DEF Configure
<1>. QED  BY <1>5, <1>6, <1>7 DEF Inv

LEMMA SpawnedReadyInv ==
    ASSUME Inv, NEW s \in Spawners, SpawnedReady(s)
    PROVE  Inv'
<1> DEFINE p == thr[s].proc
<1>1. /\ s \in Thread /\ TypeOK /\ p \in Procs
      /\ thr[s].pc = "boot" /\ proc[p] = "booting"
  BY FrameFacts DEF SpawnedReady, Inv, TypeOK, Thread, Having
<1>2. /\ proc' = [proc EXCEPT ![p] = "warm"] /\ Goto(s, "install")
      /\ UNCHANGED <<spare, spawnSet, ops, world>>
  BY DEF SpawnedReady
<1>3. /\ thr' \in [Thread -> Frame] /\ thr'[s].pc = "install"
      /\ thr'[s].proc = p /\ \A u \in Thread \ {s} : thr'[u] = thr[u]
  BY <1>1, <1>2, Moves DEF Having
<1>. HIDE DEF p
<1>4. TypeOK'
  BY <1>1, <1>2, <1>3 DEF TypeOK, ProcState, Thread
<1>5. RoleInv'
  BY <1>3, WarmSpareAssumption DEF Inv, RoleInv, Thread
<1>6. \A u \in Thread : thr'[u].proc = thr[u].proc
  BY <1>3 DEF p
<1>7. OwnerInv'
  BY <1>2, <1>6 DEF Inv, OwnerInv
<1>8. WarmInv'
  <2>. SUFFICES ASSUME NEW q \in Procs, proc'[q] = "booting"
                PROVE  /\ spare # q
                       /\ \A t \in Thread :
                            thr'[t].proc = q => thr'[t].pc = "boot"
    BY <1>2 DEF WarmInv
  <2>1. q # p /\ proc[q] = "booting"
    BY <1>1, <1>2 DEF TypeOK
  <2>. QED  BY <1>3, <2>1 DEF Inv, WarmInv
<1>9. HeldInv'
  BY <1>1, <1>2, <1>6 DEF Inv, TypeOK, HeldInv, Alive
<1>. QED  BY <1>4, <1>5, <1>7, <1>8, <1>9 DEF Inv

\* The thread gives its process up, killed or installed as the spare.
LEMMA SpawnEndInv ==
    ASSUME Inv, NEW s \in Spawners, SpawnFailed(s) \/ Install(s)
    PROVE  Inv'
<1> DEFINE p == thr[s].proc
<1>1. /\ s \in Thread /\ TypeOK /\ p \in Procs /\ p # 0
      /\ thr[s].pc \in {"boot", "install"}
  BY FrameFacts, WarmSpareAssumption
  DEF SpawnFailed, Install, Inv, TypeOK, Thread, Having
<1>2. Hold(s, "idle", 0) /\ UNCHANGED <<spawnSet, ops, world>>
  BY DEF SpawnFailed, Install
<1>3. /\ thr' \in [Thread -> Frame] /\ thr'[s].pc = "idle"
      /\ thr'[s].proc = 0 /\ \A u \in Thread \ {s} : thr'[u] = thr[u]
  BY <1>1, <1>2, Moves DEF Lacking
<1>4. \/ spare' = spare /\ Kill(p)
      \/ spare' = p /\ proc' = proc /\ spare = 0 /\ thr[s].pc = "install"
  BY DEF SpawnFailed, Install
<1>5. \A u \in Thread \ {s} : thr[u].proc # p
  BY <1>1 DEF Inv, OwnerInv
<1>. HIDE DEF p
<1>6. TypeOK'
  BY <1>1, <1>2, <1>3, <1>4 DEF TypeOK, ProcState, Thread, Kill
<1>7. RoleInv'
  BY <1>3, WarmSpareAssumption DEF Inv, RoleInv, Thread
<1>8. OwnerInv'
  BY <1>3, <1>4, <1>5 DEF Inv, OwnerInv
<1>9. WarmInv'
  <2>. SUFFICES ASSUME NEW q \in Procs, proc'[q] = "booting"
                PROVE  /\ spare' # q
                       /\ \A t \in Thread :
                            thr'[t].proc = q => thr'[t].pc = "boot"
    BY DEF WarmInv
  <2>1. proc[q] = "booting"
    BY <1>4 DEF Kill
  <2>2. spare' # q
    BY <1>1, <1>4, <2>1 DEF Inv, WarmInv, p
  <2>. QED  BY <1>3, <2>1, <2>2, WarmSpareAssumption DEF Inv, WarmInv
<1>10. HeldInv'
  <2>. SUFFICES ASSUME NEW q \in Procs, proc'[q] # "gone"
                PROVE  spare' = q \/ \E t \in Thread : thr'[t].proc = q
    BY DEF HeldInv, Alive
  <2>1. proc[q] # "gone" /\ (q = p => spare' = q) /\ q # 0
    BY <1>4, WarmSpareAssumption DEF Kill
  <2>2. spare = q \/ \E t \in Thread : thr[t].proc = q
    BY <2>1 DEF Inv, HeldInv, Alive
  <2>. QED  BY <1>3, <1>4, <2>1, <2>2 DEF p
<1>. QED  BY <1>6, <1>7, <1>8, <1>9, <1>10 DEF Inv

\* A run begins, or goes on without a change of hands or processes.
LEMMA GoesOnInv ==
    ASSUME Inv, NEW t \in Runs, NEW pc \in {"take", "terminate", "start"},
           Goto(t, pc), thr[t].pc \in {"idle", "prewarm"},
           pc = "start" <=> thr[t].pc = "prewarm",
           UNCHANGED <<spare, spawnSet, proc, world>>, ops' \in Nat
    PROVE  Inv'
<1>0. t \in Thread /\ TypeOK /\ thr[t] \in Frame
  BY DEF Inv, TypeOK, Thread
<1>1. /\ t \in Thread /\ TypeOK
      /\ \/ pc \in Perhaps /\ thr[t].proc \in Procs \union {0}
         \/ pc \in Lacking /\ thr[t].proc = 0
  <2>1. CASE thr[t].pc = "prewarm"
    BY <1>0, <2>1, FrameFacts DEF Perhaps
  <2>2. CASE thr[t].pc = "idle"
    BY <1>0, <2>2, FrameFacts DEF Lacking
  <2>. QED  BY <1>0, <2>1, <2>2
<1>2. /\ thr' \in [Thread -> Frame] /\ thr'[t].pc = pc
      /\ thr'[t].proc = thr[t].proc /\ \A u \in Thread \ {t} : thr'[u] = thr[u]
  BY <1>1, Moves
<1>3. TypeOK'
  BY <1>1, <1>2 DEF TypeOK, Thread
<1>4. RoleInv'
  BY <1>2, WarmSpareAssumption DEF Inv, RoleInv, Thread
<1>5. OwnerInv' /\ HeldInv'
  BY <1>2 DEF Inv, OwnerInv, HeldInv, Alive
<1>6. WarmInv'
  BY <1>1, <1>2 DEF Inv, WarmInv
<1>. QED  BY <1>3, <1>4, <1>5, <1>6 DEF Inv

LEMMA BeginInv ==
    ASSUME Inv, NEW t \in Runs, NEW op \in {"take", "terminate"}, Begin(t, op)
    PROVE  Inv'
<1>1. /\ Goto(t, op) /\ thr[t].pc = "idle" /\ ops' \in Nat
      /\ UNCHANGED <<spare, spawnSet, proc, world>>
  BY DEF Begin, Idle, Inv, TypeOK
<1>. QED  BY <1>1, GoesOnInv

\* The spare, if it is alive, goes from the pool into the hands of the run.
LEMMA TakeInv ==
    ASSUME Inv, NEW t \in Runs, Take(t)
    PROVE  Inv'
<1>1. /\ t \in Thread /\ TypeOK /\ thr[t].pc = "take" /\ thr[t].proc = 0
      /\ Usable \in Procs \union {0}
  BY FrameFacts DEF Take, Inv, TypeOK, Thread, Lacking, Usable
<1>2. /\ Hold(t, "prewarm", Usable) /\ spare' = 0
      /\ UNCHANGED <<spawnSet, proc, ops, world>>
  BY DEF Take
<1>3. /\ thr' \in [Thread -> Frame] /\ thr'[t].pc = "prewarm"
      /\ thr'[t].proc = Usable /\ \A u \in Thread \ {t} : thr'[u] = thr[u]
  BY <1>1, <1>2, Moves DEF Perhaps
<1>4. TypeOK'
  BY <1>1, <1>2, <1>3 DEF TypeOK, Thread
<1>5. RoleInv'
  BY <1>3, WarmSpareAssumption DEF Inv, RoleInv, Thread
<1>6. OwnerInv'
  BY <1>2, <1>3 DEF Inv, OwnerInv, Usable
<1>7. WarmInv'
  <2>. SUFFICES ASSUME NEW q \in Procs, proc[q] = "booting"
                PROVE  /\ spare' # q
                       /\ \A u \in Thread :
                            thr'[u].proc = q => thr'[u].pc = "boot"
    BY <1>2 DEF WarmInv
  <2>1. q # 0 /\ q # spare
    BY WarmSpareAssumption DEF Inv, WarmInv
  <2>. QED  BY <1>2, <1>3, <2>1 DEF Inv, WarmInv, Usable
<1>8. HeldInv'
  <2>. SUFFICES ASSUME NEW q \in Procs, proc[q] # "gone"
                PROVE  \E u \in Thread : thr'[u].proc = q
    BY <1>2 DEF HeldInv, Alive
  <2>1. q # 0
    BY WarmSpareAssumption
  <2>2. CASE spare = q
    BY <1>1, <1>3, <2>1, <2>2 DEF Usable, Alive
  <2>3. CASE spare # q
    BY <1>1, <1>3, <2>1, <2>3 DEF Inv, HeldInv, Alive
  <2>. QED  BY <2>2, <2>3
<1>. QED  BY <1>4, <1>5, <1>6, <1>7, <1>8 DEF Inv

LEMMA ReplenishInv ==
    ASSUME Inv, NEW t \in Runs, Replenish(t)
    PROVE  Inv'
<1>1. CASE spare = 0 /\ spawnSet
  <2>1. PICK s \in Spawners, p \in Procs :
          /\ StartSpawner(s, p)
          /\ thr' = [thr EXCEPT ![s] = [pc |-> "boot", proc |-> p],
                                ![t].pc = "start"]
    BY <1>1 DEF Replenish
  <2>2. /\ s \in Thread /\ t \in Thread /\ s # t /\ TypeOK
        /\ thr[t] \in Frame /\ thr[t].pc = "prewarm"
        /\ proc' = [proc EXCEPT ![p] = "booting"]
        /\ UNCHANGED <<spare, spawnSet, ops, world>>
    BY <2>1, WarmSpareAssumption
    DEF Replenish, StartSpawner, Inv, TypeOK, Thread
  <2> DEFINE f == [thr EXCEPT ![t].pc = "start"][t]
  <2>3. f \in Frame /\ f.pc = "start" /\ f.proc = thr[t].proc
    <3>1. thr[t] \in [pc: {"prewarm", "start"}, proc: Procs \union {0}]
      BY <2>2 DEF Frame
    <3>. QED  BY <2>2, <3>1 DEF TypeOK, Thread, Frame
  <2>4. [pc |-> "boot", proc |-> p] \in Frame
    BY DEF Frame
  <2>5. /\ thr' \in [Thread -> Frame] /\ thr'[s] = [pc |-> "boot", proc |-> p]
        /\ thr'[t] = f /\ \A u \in Thread \ {s, t} : thr'[u] = thr[u]
    BY <2>1, <2>2, <2>3, <2>4 DEF TypeOK, Thread
  <2>. HIDE DEF f
  <2>6. TypeOK'
    BY <2>2, <2>5 DEF TypeOK, ProcState, Thread
  <2>7. RoleInv'
    BY <2>2, <2>3, <2>5, WarmSpareAssumption DEF Inv, RoleInv, Thread
  <2>8. OwnerInv' /\ WarmInv' /\ HeldInv'
    <3>1. \A u \in Thread \ {s} :
            /\ thr'[u].proc = thr[u].proc
            /\ thr[u].pc = "boot" => thr'[u] = thr[u]
      BY <2>2, <2>3, <2>5
    <3>. QED  BY <2>1, <2>2, <2>5, <3>1, StartKeeps
  <2>. QED  BY <2>6, <2>7, <2>8 DEF Inv
<1>2. CASE ~ (spare = 0 /\ spawnSet)
  <2>1. /\ Goto(t, "start") /\ thr[t].pc = "prewarm" /\ ops' \in Nat
        /\ UNCHANGED <<spare, spawnSet, proc, world>>
    BY <1>2 DEF Replenish, Inv, TypeOK
  <2>. QED  BY <2>1, GoesOnInv
<1>. QED  BY <1>1, <1>2

\* The job goes to a process: the run's own, or a cold one that is new.
LEMMA StartInv ==
    ASSUME Inv, NEW t \in Runs, StartWarm(t) \/ StartCold(t)
    PROVE  Inv'
<1>1. /\ t \in Thread /\ TypeOK /\ thr[t].pc = "start"
      /\ thr[t].proc \in Procs \union {0}
      /\ UNCHANGED <<spare, spawnSet, ops, world>>
  BY FrameFacts DEF StartWarm, StartCold, Inv, TypeOK, Thread, Perhaps
<1>2. PICK p \in Procs :
        /\ \/ Hold(t, "communicate", p)
           \/ (Goto(t, "communicate") /\ p = thr[t].proc)
        /\ p # spare /\ \A u \in Thread \ {t} : thr[u].proc # p
        /\ \/ proc' = [proc EXCEPT ![p] = "working"]
           \/ proc[p] = "gone" /\ proc' = [proc EXCEPT ![p] = "gone"]
        /\ thr[t].proc \in {0, p}
  <2>1. CASE StartWarm(t)
    <3>1. /\ thr[t].proc \in Procs /\ thr[t].proc # 0
          /\ Goto(t, "communicate")
          /\ proc' = [proc EXCEPT ![thr[t].proc] =
                         IF @ = "gone" THEN @ ELSE "working"]
      BY <1>1, <2>1 DEF StartWarm
    <3>2. /\ thr[t].proc # spare
          /\ \A u \in Thread \ {t} : thr[u].proc # thr[t].proc
      BY <1>1, <3>1 DEF Inv, OwnerInv
    <3>. QED  BY <1>1, <3>1, <3>2 DEF TypeOK
  <2>2. CASE StartCold(t)
    <3>1. PICK p \in Procs : /\ NewProc(p) /\ Hold(t, "communicate", p)
                             /\ proc' = [proc EXCEPT ![p] = "working"]
      BY <2>2 DEF StartCold
    <3>2. p # spare /\ \A u \in Thread : thr[u].proc # p
      BY <3>1 DEF NewProc, FirstOf, Holders, Thread
    <3>3. thr[t].proc = 0
      BY <2>2 DEF StartCold
    <3>. WITNESS p \in Procs
    <3>. QED  BY <3>1, <3>2, <3>3
  <2>. QED  BY <2>1, <2>2
<1>3. /\ thr' \in [Thread -> Frame] /\ thr'[t].pc = "communicate"
      /\ thr'[t].proc = p /\ \A u \in Thread \ {t} : thr'[u] = thr[u]
  BY <1>1, <1>2, Moves DEF Having
<1>4. TypeOK'
  BY <1>1, <1>2, <1>3 DEF TypeOK, ProcState, Thread
<1>5. RoleInv'
  BY <1>3, WarmSpareAssumption DEF Inv, RoleInv, Thread
<1>6. OwnerInv'
  BY <1>1, <1>2, <1>3 DEF Inv, OwnerInv
<1>7. WarmInv'
  <2>. SUFFICES ASSUME NEW q \in Procs, proc'[q] = "booting"
                PROVE  /\ spare # q
                       /\ \A u \in Thread :
                            thr'[u].proc = q => thr'[u].pc = "boot"
    BY <1>1 DEF WarmInv
  <2>1. q # p /\ proc[q] = "booting"
    BY <1>1, <1>2 DEF TypeOK
  <2>. QED  BY <1>3, <2>1 DEF Inv, WarmInv
<1>8. HeldInv'
  <2>. SUFFICES ASSUME NEW q \in Procs, proc'[q] # "gone"
                PROVE  spare = q \/ \E u \in Thread : thr'[u].proc = q
    BY <1>1 DEF HeldInv, Alive
  <2>1. CASE q = p
    BY <1>1, <1>3, <2>1
  <2>2. CASE q # p
    <3>1. proc[q] # "gone" /\ q # 0
      BY <1>1, <1>2, <2>2, WarmSpareAssumption DEF TypeOK
    <3>. QED  BY <1>1, <1>2, <1>3, <2>2, <3>1 DEF Inv, HeldInv, Alive
  <2>. QED  BY <2>1, <2>2
<1>. QED  BY <1>4, <1>5, <1>6, <1>7, <1>8 DEF Inv

\* A run or a shutdown is over, and what it had in hand is gone.
LEMMA RunEndInv ==
    ASSUME Inv, NEW t \in Runs,
           ColdFails(t) \/ Collect(t) \/ TimeOut(t) \/ Shutdown(t)
    PROVE  Inv'
<1>1. /\ t \in Thread /\ TypeOK /\ Hold(t, "idle", 0)
      /\ thr[t].proc \in Procs \union {0}
      /\ UNCHANGED <<spawnSet, ops, world>>
  BY FrameFacts
  DEF ColdFails, Collect, TimeOut, Shutdown, Inv, TypeOK, Thread
<1>2. /\ \A q \in Procs : proc'[q] \in {proc[q], "gone"}
      /\ thr[t].proc # 0 => proc'[thr[t].proc] = "gone"
      /\ \/ spare' = spare
         \/ spare' = 0 /\ (spare # 0 => proc'[spare] = "gone")
      /\ proc' \in [Procs -> ProcState]
  <2>1. CASE ColdFails(t)
    BY <1>1, <2>1 DEF ColdFails, TypeOK
  <2>2. CASE Collect(t)
    BY <1>1, <2>2 DEF Collect, Alive, TypeOK
  <2>3. CASE TimeOut(t)
    BY <1>1, <2>3 DEF TimeOut, Kill, TypeOK, ProcState
  <2>4. CASE Shutdown(t)
    <3>1. thr[t].proc = 0
      BY <1>1, <2>4, FrameFacts DEF Shutdown, Lacking, TypeOK, Thread
    <3>. QED  BY <1>1, <2>4, <3>1 DEF Shutdown, Kill, TypeOK, ProcState
  <2>. QED  BY <2>1, <2>2, <2>3, <2>4
<1>3. /\ thr' \in [Thread -> Frame] /\ thr'[t].pc = "idle"
      /\ thr'[t].proc = 0 /\ \A u \in Thread \ {t} : thr'[u] = thr[u]
  BY <1>1, Moves DEF Lacking
<1>4. TypeOK'
  BY <1>1, <1>2, <1>3 DEF TypeOK, Thread
<1>5. RoleInv'
  BY <1>3, WarmSpareAssumption DEF Inv, RoleInv, Thread
<1>6. OwnerInv'
  BY <1>2, <1>3 DEF Inv, OwnerInv
<1>7. WarmInv'
  <2>. SUFFICES ASSUME NEW q \in Procs, proc'[q] = "booting"
                PROVE  /\ spare' # q
                       /\ \A u \in Thread :
                            thr'[u].proc = q => thr'[u].pc = "boot"
    BY DEF WarmInv
  <2>1. proc[q] = "booting" /\ q # 0
    BY <1>2, WarmSpareAssumption
  <2>. QED  BY <1>2, <1>3, <2>1 DEF Inv, WarmInv
<1>8. HeldInv'
  <2>. SUFFICES ASSUME NEW q \in Procs, proc'[q] # "gone"
                PROVE  spare' = q \/ \E u \in Thread : thr'[u].proc = q
    BY DEF HeldInv, Alive
  <2>1. proc[q] # "gone" /\ q # 0 /\ q # thr[t].proc
    BY <1>2, WarmSpareAssumption
  <2>. QED  BY <1>2, <1>3, <2>1 DEF Inv, HeldInv, Alive
<1>. QED  BY <1>4, <1>5, <1>6, <1>7, <1>8 DEF Inv

LEMMA NextInv == Inv /\ [Next]_vars => Inv'
<1>. SUFFICES ASSUME Inv, [Next]_vars PROVE Inv'
  OBVIOUS
<1>1. CASE UNCHANGED vars
  BY <1>1 DEF vars, Inv, TypeOK, RoleInv, OwnerInv, WarmInv, HeldInv, Alive
<1>2. CASE Configure
  BY <1>2, ConfigureInv
<1>3. ASSUME NEW t \in Runs, NEW op \in {"take", "terminate"}, Begin(t, op)
      PROVE  Inv'
  BY <1>3, BeginInv
<1>4. ASSUME NEW t \in Runs, Step(t)
      PROVE  Inv'
  BY <1>4, TakeInv, ReplenishInv, StartInv, RunEndInv DEF Step
<1>5. ASSUME NEW s \in Spawners, SpawnerStep(s)
      PROVE  Inv'
  BY <1>5, SpawnedReadyInv, SpawnEndInv DEF SpawnerStep
<1>6. ASSUME NEW p \in Procs, Finish(p) \/ Die(p)
      PROVE  Inv'
  BY <1>6, EnvironmentInv
<1>. QED  BY <1>1, <1>2, <1>3, <1>4, <1>5, <1>6 DEF Next

LEMMA InvAlways == Spec => []Inv
BY InitInv, NextInv, PTL DEF Spec

-----------------------------------------------------------------------------
(* The theorems.                                                           *)

\* The state of the pool and its threads is always of its type.
THEOREM TypeCorrect == Spec => []TypeOK
<1>1. Inv => TypeOK
  BY DEF Inv
<1>. QED  BY <1>1, InvAlways, PTL

\* CAD-014, a worker is single-use: however takes, refills, deaths and
\* shutdowns interleave, no process is in the hands of two threads, nor in
\* those of a thread while it is the spare.
THEOREM WorkersSingleUse == Spec => []SingleUse
<1>1. Inv => SingleUse
  <2>. SUFFICES ASSUME Inv, NEW p \in Procs
                PROVE  /\ Cardinality(Holders(p)) <= 1
                       /\ spare = p => Holders(p) = {}
    BY DEF SingleUse
  <2>1. p # 0
    BY WarmSpareAssumption
  <2>2. spare = p => Holders(p) = {}
    BY <2>1 DEF Inv, OwnerInv, Holders, Thread
  <2>3. CASE Holders(p) = {}
    BY <2>2, <2>3, FS_EmptySet
  <2>4. ASSUME NEW t \in Holders(p)
        PROVE  Cardinality(Holders(p)) = 1
    <3>1. Holders(p) = {t}
      BY <2>1, <2>4 DEF Inv, OwnerInv, Holders, Thread
    <3>2. Cardinality({t}) = 1
      BY FS_Singleton
    <3>. QED  BY <3>1, <3>2
  <2>. QED  BY <2>2, <2>3, <2>4
<1>. QED  BY <1>1, InvAlways, PTL

\* "No surviving process": every process that is alive is the spare, or in
\* the hands of a run or a background thread that will see to its end.
THEOREM NoneSurvives == Spec => []NoSurvivor
<1>1. Inv => NoSurvivor
  BY DEF Inv, HeldInv, NoSurvivor, Holders, Thread
<1>. QED  BY <1>1, InvAlways, PTL

\* Neither the spare nor a process given to a run is still importing.
THEOREM OnlyWarmHandedOut == Spec => []HandedOutIsWarm
<1>1. Inv => HandedOutIsWarm
  BY WarmSpareAssumption DEF Inv, RoleInv, WarmInv, HandedOutIsWarm, Thread
<1>. QED  BY <1>1, InvAlways, PTL

=============================================================================
