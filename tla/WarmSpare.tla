----------------------------- MODULE WarmSpare ------------------------------
(***************************************************************************)
(* The sandbox's worker processes: the warm spare and the runs.            *)
(*                                                                         *)
(* A run of user code takes the warm spare, if there is one, and otherwise *)
(* starts a cold process; either way the process serves that one run.      *)
(* Taking the spare starts a background thread that makes the next one.    *)
(* The pool's lock protects only the field that holds the spare: it is not *)
(* held while a process starts or while a run lasts.                       *)
(*                                                                         *)
(* What the user's code does, and what the operating system does to the    *)
(* processes, is the environment.                                          *)
(***************************************************************************)
EXTENDS Integers, FiniteSets

CONSTANTS
    Runs,       \* pool threads that call sandbox.run
    Spawners,   \* background threads of prewarm; one that ends is free again
    Procs,      \* worker processes; an identity is free again once its process
                \* is gone and nobody refers to it
    Worlds,     \* each a set of the events that may happen in a behaviour
    MaxOps      \* bound: operations begun in one behaviour

\* "die"       a process is killed from outside, at any time
\* "unborn"    a process cannot be started, or does not report ready in time
\* "shutdown"  WarmSpare.shutdown is called
Events == {"die", "unborn", "shutdown"}

ASSUME WarmSpareAssumption ==
    /\ Runs \intersect Spawners = {}
    /\ Spawners \subseteq Nat
    /\ Procs \subseteq Nat \ {0}
    /\ Worlds \subseteq SUBSET Events
    /\ MaxOps \in Nat

VARIABLES
    spare,      \* WarmSpare._spare: a process, 0 when there is none
    spawnSet,   \* WarmSpare._spawn has been configured
    proc,       \* process -> its state
    thr,        \* run thread or spawner -> its frame
    ops,
    world       \* the events that may happen in this behaviour

vars == <<spare, spawnSet, proc, thr, ops, world>>

-----------------------------------------------------------------------------

\* "booting"  importing CadQuery        "warm"  waiting for its job
\* "working"  running the user's code   "gone"  by itself or killed, or never
\*                                              started
ProcState == {"booting", "warm", "working", "gone"}

Alive(p) == proc[p] # "gone"

\* proc is the process that a thread was given and will see to the end of.
\* A thread that talks to a process has one.
Frame ==
    [pc: {"idle", "take", "terminate"}, proc: {0}]
    \union [pc: {"prewarm", "start"}, proc: Procs \union {0}]
    \union [pc: {"communicate", "boot", "install"}, proc: Procs]

Idle == [pc |-> "idle", proc |-> 0]

\* One type invariant.
TypeOK ==
    /\ spare \in Procs \union {0}
    /\ spawnSet \in BOOLEAN
    /\ proc \in [Procs -> ProcState]
    /\ thr \in [Runs \union Spawners -> Frame]
    /\ ops \in Nat
    /\ world \in SUBSET Events

Init ==
    /\ spare = 0
    /\ spawnSet = FALSE
    /\ proc = [p \in Procs |-> "gone"]
    /\ thr = [t \in Runs \union Spawners |-> Idle]
    /\ ops = 0
    /\ world \in Worlds

Goto(t, pc) == thr' = [thr EXCEPT ![t].pc = pc]
Hold(t, pc, p) == thr' = [thr EXCEPT ![t] = [pc |-> pc, proc |-> p]]

\* The threads that hold a process.
Holders(p) == {t \in Runs \union Spawners : thr[t].proc = p}

\* Which free identity a process or a thread gets makes no difference.
FirstOf(S, x) == x \in S /\ \A y \in S : x <= y
NewProc(p) ==
    FirstOf({q \in Procs : ~ Alive(q) /\ q # spare /\ Holders(q) = {}}, p)
NewSpawner(s) == FirstOf({u \in Spawners : thr[u] = Idle}, s)

Kill(p) == proc' = [q \in Procs |-> IF q = p THEN "gone" ELSE proc[q]]

-----------------------------------------------------------------------------
(* The environment.                                                        *)

\* The worker has written its result file and exits: one job and no more.
Finish(p) ==
    /\ proc[p] = "working"
    /\ proc' = [proc EXCEPT ![p] = "gone"]
    /\ UNCHANGED <<spare, spawnSet, thr, ops, world>>

Die(p) ==
    /\ "die" \in world
    /\ Alive(p)
    /\ proc' = [proc EXCEPT ![p] = "gone"]
    /\ UNCHANGED <<spare, spawnSet, thr, ops, world>>

-----------------------------------------------------------------------------
(* configure and prewarm.                                                  *)

\* The thread of prewarm, and the process it starts at once.
StartSpawner(s, p) ==
    /\ NewSpawner(s) /\ NewProc(p)
    /\ proc' = [proc EXCEPT ![p] = "booting"]

\* main: sandbox.prewarm registers spawn and asks for the first spare.
Configure ==
    /\ ~ spawnSet
    /\ spawnSet' = TRUE
    /\ \E s \in Spawners, p \in Procs : StartSpawner(s, p) /\ Hold(s, "boot", p)
    /\ UNCHANGED <<spare, ops, world>>

\* Mutant: a process that has merely been started is handed on.
SpawnedNotReady(s) ==
    /\ thr[s].pc = "boot"
    /\ Goto(s, "install")
    /\ UNCHANGED <<spare, spawnSet, proc, ops, world>>

\* "worker ready" on stderr.
SpawnedReady(s) ==
    LET p == thr[s].proc
    IN /\ thr[s].pc = "boot"
       /\ proc[p] = "booting"
       /\ proc' = [proc EXCEPT ![p] = "warm"]
       /\ Goto(s, "install")
       /\ UNCHANGED <<spare, spawnSet, ops, world>>

\* EOF, or the deadline: killed, and nobody tries again until the next take.
SpawnFailed(s) ==
    /\ thr[s].pc = "boot"
    /\ proc[thr[s].proc] = "gone" \/ "unborn" \in world
    /\ Kill(thr[s].proc)
    /\ Hold(s, "idle", 0)
    /\ UNCHANGED <<spare, spawnSet, ops, world>>

\* Mutant: the surplus process is left running.
InstallLeaves(s) ==
    /\ thr[s].pc = "install"
    /\ spare' = IF spare = 0 THEN thr[s].proc ELSE spare
    /\ Hold(s, "idle", 0)
    /\ UNCHANGED <<spawnSet, proc, ops, world>>

Install(s) ==
    /\ thr[s].pc = "install"
    /\ IF spare = 0
       THEN spare' = thr[s].proc /\ UNCHANGED proc
       ELSE Kill(thr[s].proc) /\ UNCHANGED spare
    /\ Hold(s, "idle", 0)
    /\ UNCHANGED <<spawnSet, ops, world>>

-----------------------------------------------------------------------------
(* sandbox.run, with WarmSpare.take at its start.                          *)

Begin(t, op) ==
    /\ thr[t] = Idle
    /\ op = "terminate" => "shutdown" \in world
    /\ ops < MaxOps
    /\ ops' = ops + 1
    /\ Goto(t, op)
    /\ UNCHANGED <<spare, spawnSet, proc, world>>

\* A corpse is not handed out; a spare that dies after poll() is.
Usable == IF spare # 0 /\ Alive(spare) THEN spare ELSE 0

\* Mutant: the spare is handed out and kept.
TakeKeeps(t) ==
    /\ thr[t].pc = "take"
    /\ Hold(t, "prewarm", Usable)
    /\ UNCHANGED <<spare, spawnSet, proc, ops, world>>

Take(t) ==
    /\ thr[t].pc = "take"
    /\ spare' = 0
    /\ Hold(t, "prewarm", Usable)
    /\ UNCHANGED <<spawnSet, proc, ops, world>>

\* Mutant: take does not replenish.
NoReplenish(t) ==
    /\ thr[t].pc = "prewarm"
    /\ Goto(t, "start")
    /\ UNCHANGED <<spare, spawnSet, proc, ops, world>>

Replenish(t) ==
    /\ thr[t].pc = "prewarm"
    /\ IF spare = 0 /\ spawnSet
       THEN \E s \in Spawners, p \in Procs :
              /\ StartSpawner(s, p)
              /\ thr' = [thr EXCEPT ![s] = [pc |-> "boot", proc |-> p],
                                    ![t].pc = "start"]
       ELSE Goto(t, "start") /\ UNCHANGED proc
    /\ UNCHANGED <<spare, spawnSet, ops, world>>

\* Mutant: the job is sent whether there is a warm process or not.
StartUnchecked(t) ==
    /\ thr[t].pc = "start"
    /\ proc' = [p \in Procs |-> IF p = thr[t].proc THEN "working" ELSE proc[p]]
    /\ Goto(t, "communicate")
    /\ UNCHANGED <<spare, spawnSet, ops, world>>

\* The job goes to the warm process, or to a cold one made for it.
StartWarm(t) ==
    LET p == thr[t].proc
    IN /\ thr[t].pc = "start" /\ p # 0
       /\ proc' = [proc EXCEPT ![p] = IF @ = "gone" THEN @ ELSE "working"]
       /\ Goto(t, "communicate")
       /\ UNCHANGED <<spare, spawnSet, ops, world>>

StartCold(t) ==
    /\ thr[t].pc = "start" /\ thr[t].proc = 0
    /\ \E p \in Procs : /\ NewProc(p)
                        /\ proc' = [proc EXCEPT ![p] = "working"]
                        /\ Hold(t, "communicate", p)
    /\ UNCHANGED <<spare, spawnSet, ops, world>>

\* The run ends in an exception.
ColdFails(t) ==
    /\ thr[t].pc = "start" /\ thr[t].proc = 0
    /\ "unborn" \in world
    /\ Hold(t, "idle", 0)
    /\ UNCHANGED <<spare, spawnSet, proc, ops, world>>

\* communicate returns when the process is gone, with a result file or, for
\* one that was killed, without.
Collect(t) ==
    /\ thr[t].pc = "communicate"
    /\ ~ Alive(thr[t].proc)
    /\ Hold(t, "idle", 0)
    /\ UNCHANGED <<spare, spawnSet, proc, ops, world>>

\* Mutant: there is no timeout.
TimeoutNever(t) == thr[t].pc = "none" /\ UNCHANGED vars

\* communicate times out, whatever the process does: it is killed.
TimeOut(t) ==
    /\ thr[t].pc = "communicate"
    /\ Alive(thr[t].proc)
    /\ Kill(thr[t].proc)
    /\ Hold(t, "idle", 0)
    /\ UNCHANGED <<spare, spawnSet, ops, world>>

\* shutdown: a spawner that is still at it installs its process afterwards.
Shutdown(t) ==
    /\ thr[t].pc = "terminate"
    /\ spare' = 0
    /\ Kill(spare)
    /\ Hold(t, "idle", 0)
    /\ UNCHANGED <<spawnSet, ops, world>>

-----------------------------------------------------------------------------

Step(t) ==
    \/ Take(t) \/ Replenish(t) \/ StartWarm(t) \/ StartCold(t) \/ ColdFails(t)
    \/ Collect(t) \/ TimeOut(t) \/ Shutdown(t)

SpawnerStep(s) ==
    SpawnedReady(s) \/ SpawnFailed(s) \/ Install(s)

Next ==
    \/ Configure
    \/ \E t \in Runs, op \in {"take", "terminate"} : Begin(t, op)
    \/ \E t \in Runs : Step(t)
    \/ \E s \in Spawners : SpawnerStep(s)
    \/ \E p \in Procs : Finish(p) \/ Die(p)

Spec == Init /\ [][Next]_vars

\* Threads run and start-up configures the pool.  Nothing makes the user's code
\* end, and nothing keeps a process alive.
FairSpec ==
    /\ Spec
    /\ WF_vars(Configure)
    /\ \A t \in Runs : WF_vars(Step(t))
    /\ \A s \in Spawners : WF_vars(SpawnerStep(s))

-----------------------------------------------------------------------------
(* Properties.                                                             *)

\* CAD-014: a worker is single-use.  No two runs are given the same process,
\* and none that is still the spare.
SingleUse ==
    \A p \in Procs :
        /\ Cardinality(Holders(p)) <= 1
        /\ spare = p => Holders(p) = {}

\* "No surviving process": one that is alive is the spare, or in the hands of
\* the run or the spawner that will see to its end.
NoSurvivor ==
    \A p \in Procs : Alive(p) => (spare = p \/ Holders(p) # {})

\* "A process that has merely been started is not warm": neither the spare
\* nor a process given to a run is still importing CadQuery.
HandedOutIsWarm ==
    \A p \in Procs :
        (spare = p \/ \E t \in Runs : thr[t].proc = p) => proc[p] # "booting"

\* "Replenished after each use": once the clients have stopped, and if no
\* process was lost or shut down, a spare stands by for good.
Replenished ==
    world = {} => <>[](\E p \in Procs : spare = p /\ proc[p] = "warm")

\* Every run ends, whatever the user's code does.
EveryRunEnds == \A t \in Runs : thr[t] # Idle ~> thr[t] = Idle

=============================================================================
