--------------------------- MODULE GeometryProofs ---------------------------
(***************************************************************************)
(* Proofs about GeometryWorker, for any number of threads, processes,      *)
(* calls and lines, and with every fault: operations do not mix, an answer *)
(* is the answer to its request, and no process is left behind.            *)
(***************************************************************************)
EXTENDS GeometryWorker, SequenceTheorems, TLAPS

-----------------------------------------------------------------------------
(* The inductive invariant.                                                *)

\* A process that owes nothing: no request, and no marker line unread.
Quiet(g) ==
    /\ stdin[g] = 0
    /\ \A i \in 1 .. Len(stdout[g]) : stdout[g][i] = Chatter

Waiting(t) == thr[t].pc \in {"check", "read"}
Working(t) == thr[t].pc \in {"boot", "send", "check", "read"}

\* The lock is held exactly while a process is started or an operation is
\* under way.
LockInv == \A t \in Threads : Working(t) <=> lock = t

\* An operation is on the installed worker; nobody starts a process while the
\* installed one runs.
WorkerInv ==
    \A t \in Threads :
        /\ InOperation(t) => thr[t].gen = worker
        /\ thr[t].pc = "boot" =>
              /\ thr[t].gen # worker /\ thr[t].gen < nextGen
              /\ Quiet(thr[t].gen)
              /\ \A g \in Gens : worker = g => ~ Running(g)

\* Processes are started in the order of their numbers.
FreshInv ==
    /\ worker < nextGen
    /\ \A g \in Gens : g >= nextGen => proc[g] = "none" /\ Quiet(g)

\* The worker has booted, and owes something only to a call that waits.
ReadyInv ==
    \A g \in Gens : worker = g =>
        /\ proc[g] \notin {"none", "booting", "stillborn"}
        /\ (\A t \in Threads : ~ Waiting(t)) => Quiet(g)

\* A kernel computes only what it was asked; the marker is the last line, and
\* is there only when the kernel has nothing left to do.
PipeInv ==
    \A g \in Gens :
        /\ proc[g] \in {"busy", "hung"} => stdin[g] # 0
        /\ \A i \in 1 .. Len(stdout[g]) :
              stdout[g][i] # Chatter =>
                  /\ i = Len(stdout[g])
                  /\ stdin[g] = 0
                  /\ proc[g] \in {"ready", "exiting", "dead"}

\* What is in the pipes of a waiting call is its own.
RequestInv ==
    \A t \in Threads : Waiting(t) =>
        /\ stdin[thr[t].gen] \in {0, thr[t].req}
        /\ \A i \in 1 .. Len(stdout[thr[t].gen]) :
              stdout[thr[t].gen][i] \in {Chatter, thr[t].req}

Safe ==
    /\ TypeOK /\ LockInv /\ WorkerInv /\ FreshInv /\ ReadyInv
    /\ PipeInv /\ RequestInv /\ NoOrphan

-----------------------------------------------------------------------------
(* Lemmas.                                                                 *)

\* What a frame holds at each place of a call.
LEMMA FrameFacts ==
    ASSUME TypeOK, NEW t \in Threads
    PROVE  /\ thr[t].pc = "enter" =>
                thr[t] \in [pc: {"enter"}, op: Ops, gen: {0}, req: {0},
                            late: {FALSE}]
           /\ thr[t].pc = "boot" =>
                thr[t] \in [pc: {"boot"}, op: {"call", "prewarm"}, gen: Gens,
                            req: {0}, late: {FALSE}]
           /\ InOperation(t) =>
                thr[t] \in [pc: {"send", "check", "read"}, op: {"call"},
                            gen: Gens, req: Requests, late: BOOLEAN]
           /\ thr[t].pc = "kill" =>
                thr[t] \in [pc: {"kill"}, op: {"shutdown"},
                            gen: Gens \union {0}, req: {0}, late: {FALSE}]
<1>1. thr[t] \in Frame
  BY DEF TypeOK
<1>. QED  BY <1>1 DEF Frame, InOperation

\* An operation goes on with a frame of its type.
LEMMA OperationType ==
    ASSUME TypeOK, NEW t \in Threads, InOperation(t)
    PROVE  /\ \A p \in {"send", "check", "read"} :
                [thr EXCEPT ![t].pc = p] \in [Threads -> Frame]
           /\ [thr EXCEPT ![t].late = TRUE] \in [Threads -> Frame]
           /\ thr[t].gen \in Gens /\ thr[t].req \in Requests
<1> DEFINE F == [pc: {"send", "check", "read"}, op: {"call"}, gen: Gens,
                 req: Requests, late: BOOLEAN]
<1>1. thr[t] \in F
  BY FrameFacts
<1>2. /\ \A p \in {"send", "check", "read"} : [thr[t] EXCEPT !.pc = p] \in F
      /\ [thr[t] EXCEPT !.late = TRUE] \in F
  BY <1>1
<1>3. F \subseteq Frame
  BY DEF Frame
<1>. QED  BY <1>1, <1>2, <1>3 DEF TypeOK

\* So does a call that has its process, or a prewarm that is done.
LEMMA EnsuredType ==
    ASSUME TypeOK, NEW t \in Threads, NEW g \in Gens, Ensured(t, g)
    PROVE  /\ thr' \in [Threads -> Frame]
           /\ lock' \in Threads \union {NoThread}
           /\ counter' \in Nat
<1>1. /\ Idle \in Frame
      /\ [pc |-> "send", op |-> "call", gen |-> g, req |-> counter + 1,
          late |-> FALSE] \in Frame
  BY DEF Idle, Frame, Ops, Requests, TypeOK
<1>2. CASE thr[t].op = "prewarm"
  BY <1>1, <1>2 DEF Ensured, TypeOK
<1>3. CASE thr[t].op # "prewarm"
  <2> DEFINE f == [pc |-> "send", op |-> "call", gen |-> g,
                   req |-> counter + 1, late |-> FALSE]
  <2>1. f \in Frame
    BY <1>1
  <2>2. thr' = [thr EXCEPT ![t] = f] /\ lock' = t /\ counter' = counter + 1
    BY <1>3 DEF Ensured
  <2> HIDE DEF f
  <2>. QED  BY <2>1, <2>2 DEF TypeOK
<1>. QED  BY <1>2, <1>3

\* A call that ends leaves a frame of its type.
LEMMA ReturnType ==
    ASSUME TypeOK, NEW t \in Threads, Return(t)
    PROVE  /\ thr' \in [Threads -> Frame]
           /\ lock' \in Threads \union {NoThread}
<1>1. Idle \in Frame
  BY DEF Idle, Frame, Ops
<1>. QED  BY <1>1 DEF Return, TypeOK

\* Lines read from a pipe, and lines written to it.
LEMMA PipeFacts ==
    ASSUME TypeOK, NEW g \in Gens
    PROVE  /\ stdout[g] # <<>> =>
                /\ Tail(stdout[g]) \in Seq(Lines)
                /\ Len(stdout[g]) \in Nat \ {0}
                /\ Len(Tail(stdout[g])) = Len(stdout[g]) - 1
                /\ \A i \in 1 .. Len(stdout[g]) - 1 :
                      Tail(stdout[g])[i] = stdout[g][i + 1]
                /\ Head(stdout[g]) = stdout[g][1]
           /\ \A x \in Lines :
                /\ Append(stdout[g], x) \in Seq(Lines)
                /\ Len(Append(stdout[g], x)) = Len(stdout[g]) + 1
                /\ Append(stdout[g], x)[Len(stdout[g]) + 1] = x
                /\ \A i \in 1 .. Len(stdout[g]) :
                      Append(stdout[g], x)[i] = stdout[g][i]
           /\ Len(stdout[g]) \in Nat
<1>1. stdout[g] \in Seq(Lines)
  BY DEF TypeOK
<1>. QED  BY <1>1

\* _ensure finds the worker alive: nothing of a process changes.
LEMMA EnsureOldSafe ==
    ASSUME Safe, NEW t \in Threads, EnsureOld(t)
    PROVE  Safe'
<1> USE GeometryAssumption DEF Safe
<1>1. TypeOK'
  <2>1. worker \in Gens
    BY DEF EnsureOld, IsReady, TypeOK
  <2>. QED  BY <2>1, EnsuredType DEF EnsureOld, TypeOK
<1>2. LockInv'
  BY DEF EnsureOld, Ensured, MayEnter, IsReady, LockInv, Working, Idle,
     TypeOK
<1>3. WorkerInv'
  BY DEF EnsureOld, Ensured, MayEnter, IsReady, WorkerInv, InOperation,
     Quiet, Running, TypeOK, Idle
<1>4. FreshInv'
  BY DEF EnsureOld, Ensured, MayEnter, FreshInv, Quiet
<1>5. ReadyInv'
  BY DEF EnsureOld, Ensured, MayEnter, IsReady, ReadyInv, Waiting, Quiet,
     TypeOK
<1>6. PipeInv'
  BY DEF EnsureOld, Ensured, PipeInv
<1>7. RequestInv'
  BY DEF EnsureOld, Ensured, MayEnter, IsReady, RequestInv, Waiting, TypeOK,
     Idle
<1>8. NoOrphan'
  BY DEF EnsureOld, Ensured, MayEnter, NoOrphan, Running, TypeOK
<1>. QED  BY <1>1, <1>2, <1>3, <1>4, <1>5, <1>6, <1>7, <1>8

\* _ensure starts a process of a fresh number, which owes nothing.
LEMMA EnsureSpawnSafe ==
    ASSUME Safe, NEW t \in Threads, EnsureSpawn(t)
    PROVE  Safe'
<1> USE GeometryAssumption DEF Safe
<1>a. /\ nextGen \in Gens /\ proc[nextGen] = "none" /\ Quiet(nextGen)
      /\ worker # nextGen
  BY DEF EnsureSpawn, FreshInv, TypeOK
<1>b. lock = NoThread /\ \A u \in Threads : ~ Working(u)
  BY DEF EnsureSpawn, MayEnter, LockInv
<1>c. \A u \in Threads : thr'[u] = IF u = t THEN thr'[t] ELSE thr[u]
  BY DEF EnsureSpawn, TypeOK
<1>d. thr'[t].pc = "boot" /\ thr'[t].gen = nextGen
  BY DEF EnsureSpawn, TypeOK, Frame

<1>1. TypeOK'
  <2>1. thr[t] \in [pc: {"enter"}, op: Ops, gen: {0}, req: {0}, late: {FALSE}]
    BY FrameFacts DEF EnsureSpawn
  <2>2. [thr[t] EXCEPT !.pc = "boot", !.gen = nextGen] \in Frame
    BY <1>a, <2>1 DEF EnsureSpawn, Frame, Ops
  <2>. QED  BY <1>a, <2>2 DEF EnsureSpawn, TypeOK, ProcState
<1>2. LockInv'
  BY <1>b, <1>c, <1>d DEF EnsureSpawn, LockInv, Working
<1>3. WorkerInv'
  BY <1>a, <1>b, <1>c, <1>d
     DEF EnsureSpawn, WorkerInv, InOperation, Working, Quiet, Running, IsReady,
         PollsAlive, TypeOK
<1>4. FreshInv'
  BY <1>a DEF EnsureSpawn, FreshInv, Quiet, TypeOK
<1>5. ReadyInv'
  BY <1>a, <1>b, <1>c, <1>d
     DEF EnsureSpawn, ReadyInv, Waiting, Working, Quiet, TypeOK
<1>6. PipeInv'
  <2>1. \A g \in Gens : g # nextGen => proc'[g] = proc[g]
    BY DEF EnsureSpawn, TypeOK
  <2>2. proc'[nextGen] = "booting"
    BY <1>a DEF EnsureSpawn, TypeOK
  <2>. QED  BY <1>a, <2>1, <2>2 DEF EnsureSpawn, PipeInv, Quiet
<1>7. RequestInv'
  BY <1>b, <1>c, <1>d DEF EnsureSpawn, RequestInv, Waiting, Working
<1>8. NoOrphan'
  <2>1. \A g \in Gens : g # nextGen => proc'[g] = proc[g]
    BY DEF EnsureSpawn, TypeOK
  <2>2. ASSUME NEW g \in Gens, Running(g)', g # nextGen
        PROVE  \/ g = worker'
               \/ \E u \in Threads :
                    /\ thr'[u].gen = g
                    /\ thr'[u].pc \in {"boot", "kill"}
    <3>1. Running(g) /\ worker' = worker
      BY <2>1, <2>2 DEF EnsureSpawn, Running
    <3>2. CASE g = worker
      BY <3>1, <3>2
    <3>3. ASSUME NEW u \in Threads, thr[u].gen = g,
                 thr[u].pc \in {"boot", "kill"}
          PROVE  thr'[u].gen = g /\ thr'[u].pc \in {"boot", "kill"}
      <4>1. u # t
        BY <3>3 DEF EnsureSpawn
      <4>. QED  BY <1>c, <3>3, <4>1
    <3>. QED  BY <3>1, <3>2, <3>3 DEF NoOrphan
  <2>. QED  BY <1>d, <2>2 DEF NoOrphan
<1>. QED  BY <1>1, <1>2, <1>3, <1>4, <1>5, <1>6, <1>7, <1>8

\* The booted process is installed; the thread that did it holds the lock.
LEMMA SpawnOkSafe ==
    ASSUME Safe, NEW t \in Threads, SpawnOk(t)
    PROVE  Safe'
<1> USE GeometryAssumption DEF Safe
<1>a. /\ thr[t].gen \in Gens /\ Quiet(thr[t].gen)
      /\ proc[thr[t].gen] \in {"ready", "exiting", "dead"}
      /\ worker' = thr[t].gen
  BY FrameFacts DEF SpawnOk, Reported, WorkerInv
<1>b. lock = t /\ \A u \in Threads : Working(u) <=> u = t
  BY DEF SpawnOk, LockInv, Working
<1>c. \A u \in Threads : thr'[u] = IF u = t THEN thr'[t] ELSE thr[u]
  BY DEF SpawnOk, Ensured, TypeOK
<1>d. \/ thr'[t] = Idle /\ lock' = NoThread
      \/ /\ thr'[t] = [pc |-> "send", op |-> "call", gen |-> thr[t].gen,
                       req |-> counter + 1, late |-> FALSE]
         /\ lock' = t
  BY DEF SpawnOk, Ensured, TypeOK

<1>1. TypeOK'
  BY <1>a, EnsuredType DEF SpawnOk, TypeOK
<1>2. LockInv'
  BY <1>b, <1>c, <1>d DEF LockInv, Working, Idle
<1>3. WorkerInv'
  BY <1>a, <1>b, <1>c, <1>d DEF WorkerInv, InOperation, Working, Idle
<1>4. FreshInv'
  BY <1>a DEF SpawnOk, FreshInv, WorkerInv, Quiet
<1>5. ReadyInv'
  BY <1>a DEF SpawnOk, ReadyInv, Quiet
<1>6. PipeInv'
  BY DEF SpawnOk, PipeInv
<1>7. RequestInv'
  BY <1>b, <1>c, <1>d DEF SpawnOk, RequestInv, Waiting, Working, Idle
<1>8. NoOrphan'
  BY <1>a, <1>b, <1>c, <1>d
     DEF SpawnOk, NoOrphan, WorkerInv, Running, Working
<1>. QED  BY <1>1, <1>2, <1>3, <1>4, <1>5, <1>6, <1>7, <1>8

\* A process that is given up was never installed.
LEMMA SpawnFailedSafe ==
    ASSUME Safe, NEW t \in Threads, SpawnFailed(t)
    PROVE  Safe'
<1> USE GeometryAssumption DEF Safe
<1>1. TypeOK'
  BY DEF SpawnFailed, Killed, Return, TypeOK, Frame, Idle, Ops, ProcState
<1>2. LockInv'
  BY DEF SpawnFailed, Killed, Return, LockInv, Working, Idle, TypeOK
<1>3. WorkerInv'
  BY DEF SpawnFailed, Killed, Return, WorkerInv, InOperation, Quiet, Running,
     Idle, TypeOK
<1>4. FreshInv'
  BY DEF SpawnFailed, Killed, Running, FreshInv, Quiet, TypeOK
<1>5. ReadyInv'
  BY DEF SpawnFailed, Killed, Return, ReadyInv, Waiting, Quiet, TypeOK
<1>6. PipeInv'
  BY DEF SpawnFailed, Killed, PipeInv, TypeOK
<1>7. RequestInv'
  BY DEF SpawnFailed, Killed, Return, RequestInv, Waiting, Idle, TypeOK
<1>8. NoOrphan'
  BY DEF SpawnFailed, Killed, Return, NoOrphan, Running, TypeOK
<1>. QED  BY <1>1, <1>2, <1>3, <1>4, <1>5, <1>6, <1>7, <1>8

\* Nor was one that is let go of, and it owes nothing.
LEMMA SpawnAbandonedSafe ==
    ASSUME Safe, NEW t \in Threads, SpawnAbandoned(t)
    PROVE  Safe'
<1> USE GeometryAssumption DEF Safe
<1>a. thr[t].gen \in Gens /\ Quiet(thr[t].gen) /\ thr[t].gen # worker
  BY FrameFacts DEF SpawnAbandoned, WorkerInv
<1>b. /\ \A g \in Gens \ {thr[t].gen} : proc'[g] = proc[g]
      /\ proc[thr[t].gen] \in {"ready", "exiting", "dead"}
      /\ \/ proc'[thr[t].gen] = "leaving"
         \/ /\ proc'[thr[t].gen] = proc[thr[t].gen]
            /\ proc[thr[t].gen] # "ready"
  BY <1>a DEF SpawnAbandoned, Reported, TypeOK
<1>c. thr[t].gen < nextGen
  BY DEF SpawnAbandoned, WorkerInv
<1>1. TypeOK'
  BY DEF SpawnAbandoned, Return, TypeOK, Frame, Idle, Ops, ProcState
<1>2. LockInv'
  BY DEF SpawnAbandoned, Return, LockInv, Working, Idle, TypeOK
<1>3. WorkerInv'
  BY DEF SpawnAbandoned, Return, WorkerInv, InOperation, Quiet, Running,
     Idle, TypeOK
<1>4. FreshInv'
  BY <1>a, <1>b, <1>c DEF SpawnAbandoned, FreshInv, Quiet, TypeOK
<1>5. ReadyInv'
  BY <1>a, <1>b DEF SpawnAbandoned, Return, ReadyInv, Waiting, Quiet, TypeOK
<1>6. PipeInv'
  BY <1>a, <1>b DEF SpawnAbandoned, PipeInv, Quiet
<1>7. RequestInv'
  BY DEF SpawnAbandoned, Return, RequestInv, Waiting, Idle, TypeOK
<1>8. NoOrphan'
  <2>1. \A u \in Threads \ {t} : thr'[u] = thr[u]
    BY DEF SpawnAbandoned, Return, TypeOK
  <2>2. ASSUME NEW g \in Gens, Running(g)'
        PROVE  \/ g = worker'
               \/ \E u \in Threads :
                    /\ thr'[u].gen = g
                    /\ thr'[u].pc \in {"boot", "kill"}
    <3>1. Running(g) /\ g # thr[t].gen /\ worker' = worker
      BY <1>b, <2>2 DEF SpawnAbandoned, Running
    <3>. QED  BY <2>1, <3>1 DEF NoOrphan
  <2>. QED  BY <2>2 DEF NoOrphan
<1>. QED  BY <1>1, <1>2, <1>3, <1>4, <1>5, <1>6, <1>7, <1>8

\* The request goes to a worker that owes nothing.
LEMMA SendSafe ==
    ASSUME Safe, NEW t \in Threads, Send(t)
    PROVE  Safe'
<1> USE GeometryAssumption DEF Safe
<1>a. InOperation(t) /\ thr[t].gen \in Gens /\ thr[t].req \in Requests
  BY OperationType DEF Send, InOperation
<1>b. \A u \in Threads : Working(u) <=> u = t
  BY DEF Send, LockInv, Working
<1>c. Quiet(thr[t].gen) /\ thr[t].gen = worker
  BY <1>a, <1>b DEF Send, ReadyInv, WorkerInv, Waiting, Working

<1>1. TypeOK'
  <2>1. thr' \in [Threads -> Frame] /\ UNCHANGED lock
    BY <1>a, OperationType DEF Send, Goto
  <2>. QED  BY <1>a, <2>1 DEF Send, TypeOK
<1>2. LockInv'
  BY DEF Send, Goto, LockInv, Working
<1>3. WorkerInv'
  BY DEF Send, Goto, WorkerInv, InOperation, Quiet
<1>4. FreshInv'
  BY DEF Send, Goto, FreshInv, WorkerInv, InOperation, Quiet, Idle, TypeOK
<1>5. ReadyInv'
  BY DEF Send, Goto, ReadyInv, Waiting, TypeOK
<1>6. PipeInv'
  BY <1>a, <1>c DEF Send, Goto, PipeInv, Quiet, TypeOK, Requests
<1>7. RequestInv'
  <2>1. ASSUME NEW u \in Threads, Waiting(u)' PROVE u = t
    BY <1>b, <2>1 DEF Send, Goto, Waiting, Working, TypeOK
  <2>2. thr'[t].gen = thr[t].gen /\ thr'[t].req = thr[t].req
    BY <1>a DEF Send, Goto, TypeOK
  <2>3. stdin'[thr[t].gen] = thr[t].req /\ UNCHANGED stdout
    BY <1>a DEF Send, TypeOK
  <2>. QED  BY <1>c, <2>1, <2>2, <2>3 DEF RequestInv, Quiet
<1>8. NoOrphan'
  BY DEF Send, Goto, NoOrphan, Running
<1>. QED  BY <1>1, <1>2, <1>3, <1>4, <1>5, <1>6, <1>7, <1>8

\* A call that fails before it writes leaves nothing in the pipes.
LEMMA NotSentSafe ==
    ASSUME Safe, NEW t \in Threads, NotSent(t)
    PROVE  Safe'
<1> USE GeometryAssumption DEF Safe
<1>1. TypeOK'
  BY DEF NotSent, Return, TypeOK, Frame, Idle, Ops
<1>2. LockInv'
  BY DEF NotSent, Return, LockInv, Working, Idle, TypeOK
<1>3. WorkerInv'
  BY DEF NotSent, Return, WorkerInv, InOperation, Quiet, Running, Idle,
     TypeOK
<1>4. FreshInv'
  BY DEF NotSent, FreshInv, Quiet
<1>5. ReadyInv'
  BY DEF NotSent, Return, ReadyInv, Waiting, Quiet, TypeOK
<1>6. PipeInv'
  BY DEF NotSent, PipeInv
<1>7. RequestInv'
  BY DEF NotSent, Return, RequestInv, Waiting, Idle, TypeOK
<1>8. NoOrphan'
  BY DEF NotSent, Return, NoOrphan, Running
<1>. QED  BY <1>1, <1>2, <1>3, <1>4, <1>5, <1>6, <1>7, <1>8

\* A write fails: the worker is discarded.
LEMMA BrokenPipeSafe ==
    ASSUME Safe, NEW t \in Threads, BrokenPipe(t)
    PROVE  Safe'
<1> USE GeometryAssumption DEF Safe
<1>1. TypeOK'
  BY DEF BrokenPipe, Discard, Killed, Return, TypeOK, Frame, Idle, Ops
<1>2. LockInv'
  BY DEF BrokenPipe, Discard, Killed, Return, LockInv, Working, Idle, TypeOK
<1>3. WorkerInv'
  BY DEF BrokenPipe, Discard, Killed, Return, WorkerInv, LockInv, FreshInv,
     InOperation, Working, Quiet, Running, Idle, TypeOK
<1>4. FreshInv'
  BY DEF BrokenPipe, Discard, Killed, FreshInv, Quiet, TypeOK
<1>5. ReadyInv'
  BY DEF BrokenPipe, Discard, Killed, Return, ReadyInv, Waiting, Quiet,
     TypeOK
<1>6. PipeInv'
  BY DEF BrokenPipe, Discard, Killed, PipeInv
<1>7. RequestInv'
  BY DEF BrokenPipe, Discard, Killed, Return, RequestInv, Waiting, Idle,
     TypeOK
<1>8. NoOrphan'
  BY DEF BrokenPipe, Discard, Killed, Return, NoOrphan, Running
<1>. QED  BY <1>1, <1>2, <1>3, <1>4, <1>5, <1>6, <1>7, <1>8

\* The deadline is ahead.
LEMMA InTimeSafe ==
    ASSUME Safe, NEW t \in Threads, InTime(t)
    PROVE  Safe'
<1> USE GeometryAssumption DEF Safe
<1>1. TypeOK'
  BY OperationType DEF InTime, Goto, InOperation, TypeOK
<1>2. LockInv'
  BY DEF InTime, Goto, LockInv, Working, TypeOK
<1>3. WorkerInv'
  BY DEF InTime, Goto, WorkerInv, InOperation, Quiet, Running, TypeOK
<1>4. FreshInv'
  BY DEF InTime, FreshInv, Quiet
<1>5. ReadyInv'
  BY DEF InTime, Goto, ReadyInv, Waiting, TypeOK
<1>6. PipeInv'
  BY DEF InTime, PipeInv
<1>7. RequestInv'
  BY DEF InTime, Goto, RequestInv, Waiting, TypeOK
<1>8. NoOrphan'
  BY DEF InTime, Goto, NoOrphan, Running
<1>. QED  BY <1>1, <1>2, <1>3, <1>4, <1>5, <1>6, <1>7, <1>8

\* The deadline is past: the worker is discarded with what it owes.
LEMMA TimedOutSafe ==
    ASSUME Safe, NEW t \in Threads, TimedOut(t)
    PROVE  Safe'
<1> USE GeometryAssumption DEF Safe
<1>1. TypeOK'
  BY DEF TimedOut, Discard, Killed, Return, TypeOK, Frame, Idle, Ops,
     ProcState
<1>2. LockInv'
  BY DEF TimedOut, Discard, Killed, Return, LockInv, Working, Idle, TypeOK
<1>3. WorkerInv'
  BY DEF TimedOut, Discard, Killed, Return, WorkerInv, LockInv, FreshInv,
     InOperation, Working, Quiet, Running, Idle, TypeOK
<1>4. FreshInv'
  BY DEF TimedOut, Discard, Killed, Return, FreshInv, WorkerInv, InOperation,
     Quiet, Idle, TypeOK
<1>5. ReadyInv'
  BY DEF TimedOut, Discard, Killed, Return, ReadyInv, WorkerInv, LockInv,
     FreshInv, Waiting, Working, InOperation, Quiet, Idle, TypeOK
<1>6. PipeInv'
  BY DEF TimedOut, Discard, Killed, PipeInv, TypeOK
<1>7. RequestInv'
  BY DEF TimedOut, Discard, Killed, Return, RequestInv, Waiting, Idle, TypeOK
<1>8. NoOrphan'
  BY DEF TimedOut, Discard, Killed, Return, NoOrphan, Running, TypeOK
<1>. QED  BY <1>1, <1>2, <1>3, <1>4, <1>5, <1>6, <1>7, <1>8

\* A line of chatter is consumed; the lines after it move up.
LEMMA ReadChatterSafe ==
    ASSUME Safe, NEW t \in Threads, ReadChatter(t)
    PROVE  Safe'
<1> USE GeometryAssumption DEF Safe
<1> DEFINE g == thr[t].gen
<1>a. InOperation(t) /\ g \in Gens /\ thr[t].req \in Requests
  BY OperationType DEF ReadChatter, InOperation
<1>b. stdout' = [stdout EXCEPT ![g] = Tail(@)] /\ stdout[g] # <<>>
  BY DEF ReadChatter
<1>c. /\ Len(stdout'[g]) = Len(stdout[g]) - 1
      /\ \A i \in 1 .. Len(stdout'[g]) : i + 1 \in 1 .. Len(stdout[g])
                                         /\ stdout'[g][i] = stdout[g][i + 1]
      /\ \A h \in Gens : h # g => stdout'[h] = stdout[h]
  BY <1>a, <1>b, PipeFacts DEF TypeOK
<1>d. \A u \in Threads : Waiting(u) => u = t
  BY DEF ReadChatter, LockInv, Working, Waiting

<1>1. TypeOK'
  <2>1. thr' \in [Threads -> Frame] /\ UNCHANGED lock
    BY <1>a, OperationType DEF ReadChatter, Goto
  <2>2. stdout' \in [Gens -> Seq(Lines)]
    BY <1>a, <1>b, PipeFacts DEF TypeOK
  <2>. QED  BY <2>1, <2>2 DEF ReadChatter, TypeOK
<1>2. LockInv'
  BY DEF ReadChatter, Goto, LockInv, Working, TypeOK
<1>3. WorkerInv'
  <2>1. \A u \in Threads : thr[u].pc = "boot" => thr[u].gen # g
    BY <1>a DEF WorkerInv
  <2>. QED
    BY <1>a, <1>c, <2>1, FrameFacts
       DEF ReadChatter, Goto, WorkerInv, InOperation, Quiet, Running, TypeOK
<1>4. FreshInv'
  BY DEF ReadChatter, Goto, FreshInv, WorkerInv, InOperation, Quiet, Idle,
     TypeOK
<1>5. ReadyInv'
  <2>1. Waiting(t)'
    BY DEF ReadChatter, Goto, Waiting, TypeOK
  <2>. QED  BY <2>1 DEF ReadChatter, ReadyInv
<1>6. PipeInv'
  <2>1. ASSUME NEW i \in 1 .. Len(stdout'[g]), stdout'[g][i] # Chatter
        PROVE  /\ i = Len(stdout'[g])
               /\ stdin[g] = 0 /\ proc[g] \in {"ready", "exiting", "dead"}
    <3>1. Len(stdout[g]) \in Nat
      BY <1>a, PipeFacts
    <3>2. i + 1 \in 1 .. Len(stdout[g]) /\ stdout[g][i + 1] # Chatter
      BY <1>c, <2>1
    <3>3. /\ i + 1 = Len(stdout[g])
          /\ stdin[g] = 0 /\ proc[g] \in {"ready", "exiting", "dead"}
      BY <1>a, <3>2 DEF PipeInv
    <3>. QED  BY <1>c, <3>1, <3>3
  <2>2. UNCHANGED <<stdin, proc>>
    BY DEF ReadChatter
  <2>3. ASSUME NEW h \in Gens, NEW i \in 1 .. Len(stdout'[h]),
               stdout'[h][i] # Chatter
        PROVE  /\ i = Len(stdout'[h])
               /\ stdin[h] = 0 /\ proc[h] \in {"ready", "exiting", "dead"}
    <3>1. CASE h = g
      BY <2>1, <2>3, <3>1
    <3>2. CASE h # g
      <4>1. stdout'[h] = stdout[h]
        BY <1>c, <3>2
      <4>. QED  BY <2>3, <4>1 DEF PipeInv
    <3>. QED  BY <3>1, <3>2
  <2>4. \A h \in Gens : proc[h] \in {"busy", "hung"} => stdin[h] # 0
    BY DEF PipeInv
  <2>. QED  BY <2>2, <2>3, <2>4 DEF PipeInv
<1>7. RequestInv'
  <2>1. \A u \in Threads : Waiting(u)' => u = t
    BY <1>d DEF ReadChatter, Goto, Waiting, TypeOK
  <2>2. thr'[t].gen = g /\ thr'[t].req = thr[t].req
    BY DEF ReadChatter, Goto, TypeOK
  <2>. QED
    BY <1>a, <1>c, <2>1, <2>2 DEF ReadChatter, RequestInv, Waiting
<1>8. NoOrphan'
  BY DEF ReadChatter, Goto, NoOrphan, Running
<1>. QED  BY <1>1, <1>2, <1>3, <1>4, <1>5, <1>6, <1>7, <1>8

\* The marker line is consumed: it was the last one, and the worker owes
\* nothing any more.
LEMMA ReadAnswerSafe ==
    ASSUME Safe, NEW t \in Threads, ReadAnswer(t)
    PROVE  Safe'
<1> USE GeometryAssumption DEF Safe
<1> DEFINE g == thr[t].gen
<1>a. InOperation(t) /\ g \in Gens
  BY OperationType DEF ReadAnswer, InOperation
<1>b. stdout' = [stdout EXCEPT ![g] = Tail(@)] /\ stdout[g] # <<>>
  BY DEF ReadAnswer
<1>c. /\ Len(stdout[g]) = 1 /\ Len(stdout'[g]) = 0 /\ stdin[g] = 0
      /\ \A h \in Gens : h # g => stdout'[h] = stdout[h]
  <2>1. /\ Len(stdout[g]) \in Nat \ {0} /\ Head(stdout[g]) = stdout[g][1]
        /\ Len(Tail(stdout[g])) = Len(stdout[g]) - 1
    BY <1>a, <1>b, PipeFacts
  <2>2. stdout[g][1] # Chatter
    BY <2>1 DEF ReadAnswer
  <2>3. 1 \in 1 .. Len(stdout[g])
    BY <2>1
  <2>4. Len(stdout[g]) = 1 /\ stdin[g] = 0
    BY <1>a, <2>2, <2>3 DEF PipeInv
  <2>5. stdout'[g] = Tail(stdout[g])
    BY <1>a, <1>b DEF TypeOK
  <2>6. Len(stdout'[g]) = 0
    BY <2>1, <2>4, <2>5
  <2>7. \A h \in Gens : h # g => stdout'[h] = stdout[h]
    BY <1>b DEF TypeOK
  <2>. QED  BY <2>4, <2>6, <2>7
<1>d. \A u \in Threads : Waiting(u) => u = t
  BY DEF ReadAnswer, LockInv, Working, Waiting

<1>1. TypeOK'
  <2>1. stdout' \in [Gens -> Seq(Lines)]
    BY <1>a, <1>b, PipeFacts DEF TypeOK
  <2>. QED  BY <2>1, ReturnType DEF ReadAnswer, TypeOK
<1>2. LockInv'
  BY DEF ReadAnswer, Return, LockInv, Working, Idle, TypeOK
<1>3. WorkerInv'
  BY <1>a, <1>c, FrameFacts
     DEF ReadAnswer, Return, WorkerInv, InOperation, Quiet, Running, TypeOK,
         Idle
<1>4. FreshInv'
  BY <1>a, <1>c DEF ReadAnswer, FreshInv, WorkerInv, Quiet, TypeOK
<1>5. ReadyInv'
  BY <1>a, <1>c DEF ReadAnswer, ReadyInv, WorkerInv, Quiet
<1>6. PipeInv'
  BY <1>a, <1>c DEF ReadAnswer, PipeInv
<1>7. RequestInv'
  BY <1>d DEF ReadAnswer, Return, RequestInv, Waiting, Idle, TypeOK
<1>8. NoOrphan'
  BY DEF ReadAnswer, Return, NoOrphan, Running
<1>. QED  BY <1>1, <1>2, <1>3, <1>4, <1>5, <1>6, <1>7, <1>8

\* The worker is gone, and is discarded.
LEMMA ReadEOFSafe ==
    ASSUME Safe, NEW t \in Threads, ReadEOF(t)
    PROVE  Safe'
<1> USE GeometryAssumption DEF Safe
<1>1. TypeOK'
  BY DEF ReadEOF, Discard, Killed, Return, TypeOK, Frame, Idle, Ops,
     ProcState
<1>2. LockInv'
  BY DEF ReadEOF, Discard, Killed, Return, LockInv, Working, Idle, TypeOK
<1>3. WorkerInv'
  BY DEF ReadEOF, Discard, Killed, Return, WorkerInv, LockInv, FreshInv,
     InOperation, Working, Quiet, Running, Idle, TypeOK
<1>4. FreshInv'
  BY DEF ReadEOF, Discard, Killed, FreshInv, Quiet, TypeOK
<1>5. ReadyInv'
  BY DEF ReadEOF, Discard, Killed, Return, ReadyInv, WorkerInv, LockInv,
     FreshInv, Waiting, Working, InOperation, Quiet, Idle, TypeOK
<1>6. PipeInv'
  BY DEF ReadEOF, Discard, Killed, PipeInv, TypeOK
<1>7. RequestInv'
  BY DEF ReadEOF, Discard, Killed, Return, RequestInv, Waiting, Idle, TypeOK
<1>8. NoOrphan'
  BY DEF ReadEOF, Discard, Killed, Return, NoOrphan, Running, TypeOK
<1>. QED  BY <1>1, <1>2, <1>3, <1>4, <1>5, <1>6, <1>7, <1>8

\* The worker passes from the field to the thread that will kill it.
LEMMA ShutdownSwapSafe ==
    ASSUME Safe, NEW t \in Threads, ShutdownSwap(t)
    PROVE  Safe'
<1> USE GeometryAssumption DEF Safe
<1>1. TypeOK'
  <2>1. thr[t] \in [pc: {"enter"}, op: Ops, gen: {0}, req: {0}, late: {FALSE}]
    BY FrameFacts DEF ShutdownSwap
  <2>2. [thr[t] EXCEPT !.pc = "kill", !.gen = worker] \in Frame
    BY <2>1 DEF ShutdownSwap, Frame, TypeOK
  <2>. QED  BY <2>2 DEF ShutdownSwap, TypeOK
<1>2. LockInv'
  BY DEF ShutdownSwap, LockInv, Working, TypeOK
<1>3. WorkerInv'
  BY DEF ShutdownSwap, WorkerInv, LockInv, FreshInv, InOperation, Working,
     Quiet, Running, Idle, TypeOK
<1>4. FreshInv'
  BY DEF ShutdownSwap, FreshInv, Quiet, TypeOK
<1>5. ReadyInv'
  BY DEF ShutdownSwap, ReadyInv
<1>6. PipeInv'
  BY DEF ShutdownSwap, PipeInv
<1>7. RequestInv'
  BY DEF ShutdownSwap, RequestInv, Waiting, TypeOK
<1>8. NoOrphan'
  <2>1. thr'[t].pc = "kill" /\ thr'[t].gen = worker /\ UNCHANGED proc
    BY DEF ShutdownSwap, TypeOK, Frame
  <2>2. ASSUME NEW g \in Gens, Running(g), g # worker
        PROVE  \E u \in Threads :
                  /\ thr'[u].gen = g
                  /\ thr'[u].pc \in {"boot", "kill"}
    <3>1. PICK u \in Threads : thr[u].gen = g /\ thr[u].pc \in {"boot", "kill"}
      BY <2>2 DEF NoOrphan
    <3>2. thr'[u] = thr[u]
      BY <3>1 DEF ShutdownSwap, TypeOK
    <3>. QED  BY <3>1, <3>2
  <2>. QED  BY <2>1, <2>2 DEF NoOrphan, Running
<1>. QED  BY <1>1, <1>2, <1>3, <1>4, <1>5, <1>6, <1>7, <1>8

\* The thread kills the process it took.
LEMMA ShutdownKillSafe ==
    ASSUME Safe, NEW t \in Threads, ShutdownKill(t)
    PROVE  Safe'
<1> USE GeometryAssumption DEF Safe
<1>1. TypeOK'
  BY DEF ShutdownKill, Killed, Return, TypeOK, Frame, Idle, Ops, ProcState
<1>2. LockInv'
  BY DEF ShutdownKill, Killed, Return, LockInv, Working, Idle
<1>3. WorkerInv'
  BY DEF ShutdownKill, Killed, Return, WorkerInv, InOperation, Quiet,
     Running, Idle
<1>4. FreshInv'
  BY DEF ShutdownKill, Killed, Running, FreshInv, Quiet, TypeOK
<1>5. ReadyInv'
  BY DEF ShutdownKill, Killed, Return, ReadyInv, Waiting, Quiet, TypeOK
<1>6. PipeInv'
  BY DEF ShutdownKill, Killed, PipeInv
<1>7. RequestInv'
  BY DEF ShutdownKill, Killed, Return, RequestInv, Waiting, Idle
<1>8. NoOrphan'
  BY DEF ShutdownKill, Killed, Return, NoOrphan, Running
<1>. QED  BY <1>1, <1>2, <1>3, <1>4, <1>5, <1>6, <1>7, <1>8

\* Time passes.
LEMMA LateSafe ==
    ASSUME Safe, NEW t \in Threads, Late(t)
    PROVE  Safe'
<1> USE GeometryAssumption DEF Safe
<1>1. TypeOK'
  BY OperationType DEF Late, InOperation, TypeOK
<1>2. LockInv'
  BY DEF Late, LockInv, Working, TypeOK
<1>3. WorkerInv'
  BY DEF Late, WorkerInv, InOperation, Quiet, Running, TypeOK
<1>4. FreshInv'
  BY DEF Late, FreshInv, Quiet
<1>5. ReadyInv'
  BY DEF Late, ReadyInv, Waiting, TypeOK
<1>6. PipeInv'
  BY DEF Late, PipeInv
<1>7. RequestInv'
  BY DEF Late, RequestInv, Waiting, TypeOK
<1>8. NoOrphan'
  BY DEF Late, NoOrphan, Running
<1>. QED  BY <1>1, <1>2, <1>3, <1>4, <1>5, <1>6, <1>7, <1>8

\* A process reports READY.
LEMMA BootSafe ==
    ASSUME Safe, NEW g \in Gens, Boot(g)
    PROVE  Safe'
<1> USE GeometryAssumption DEF Safe
<1>1. TypeOK'
  BY DEF Boot, TypeOK, Frame, Idle, Ops, ProcState
<1>2. LockInv'
  BY DEF Boot, LockInv, Working
<1>3. WorkerInv'
  BY DEF Boot, WorkerInv, InOperation, Quiet, Running
<1>4. FreshInv'
  BY DEF Boot, FreshInv, Quiet, TypeOK
<1>5. ReadyInv'
  BY DEF Boot, ReadyInv, Waiting, Quiet
<1>6. PipeInv'
  BY DEF Boot, PipeInv
<1>7. RequestInv'
  BY DEF Boot, RequestInv, Waiting
<1>8. NoOrphan'
  BY DEF Boot, NoOrphan, Running, TypeOK
<1>. QED  BY <1>1, <1>2, <1>3, <1>4, <1>5, <1>6, <1>7, <1>8

\* A process begins to compute.
LEMMA TakeRequestSafe ==
    ASSUME Safe, NEW g \in Gens, TakeRequest(g)
    PROVE  Safe'
<1> USE GeometryAssumption DEF Safe
<1>1. TypeOK'
  BY DEF TakeRequest, TypeOK, Frame, Idle, Ops, ProcState
<1>2. LockInv'
  BY DEF TakeRequest, LockInv, Working
<1>3. WorkerInv'
  BY DEF TakeRequest, WorkerInv, InOperation, Quiet, Running
<1>4. FreshInv'
  BY DEF TakeRequest, FreshInv, Quiet, TypeOK
<1>5. ReadyInv'
  BY DEF TakeRequest, ReadyInv, Waiting, Quiet
<1>6. PipeInv'
  BY DEF TakeRequest, PipeInv
<1>7. RequestInv'
  BY DEF TakeRequest, RequestInv, Waiting
<1>8. NoOrphan'
  BY DEF TakeRequest, NoOrphan, Running, TypeOK
<1>. QED  BY <1>1, <1>2, <1>3, <1>4, <1>5, <1>6, <1>7, <1>8

\* The marker line is appended, the request is done.
LEMMA AnswerSafe ==
    ASSUME Safe, NEW g \in Gens, Answer(g)
    PROVE  Safe'
<1> USE GeometryAssumption DEF Safe
<1>a. stdin[g] # 0 /\ stdin[g] \in Lines /\ ~ Quiet(g)
  BY DEF Answer, PipeInv, Quiet, TypeOK, Lines
<1>b. /\ Len(stdout'[g]) = Len(stdout[g]) + 1
      /\ stdout'[g][Len(stdout[g]) + 1] = stdin[g]
      /\ \A i \in 1 .. Len(stdout[g]) :
            stdout[g][i] = Chatter /\ stdout'[g][i] = Chatter
      /\ \A h \in Gens : h # g => stdout'[h] = stdout[h]
  BY <1>a, PipeFacts DEF Answer, PipeInv, TypeOK
<1>c. /\ \A h \in Gens : h # g => stdin'[h] = stdin[h] /\ proc'[h] = proc[h]
      /\ stdin'[g] = 0 /\ proc'[g] = "ready"
  BY DEF Answer, TypeOK
<1>d. Len(stdout[g]) \in Nat
  BY PipeFacts

<1>1. TypeOK'
  <2>1. stdout' \in [Gens -> Seq(Lines)]
    BY <1>a, PipeFacts DEF Answer, TypeOK
  <2>. QED  BY <2>1 DEF Answer, TypeOK, ProcState
<1>2. LockInv'
  BY DEF Answer, LockInv, Working
<1>3. WorkerInv'
  <2>1. ~ Running(g)' \/ Running(g)
    BY DEF Answer, Running
  <2>2. \A h \in Gens : h # g =>
            (Quiet(h) => Quiet(h)') /\ (Running(h)' => Running(h))
    BY <1>b, <1>c DEF Quiet, Running
  <2>3. \A u \in Threads : thr[u].pc = "boot" => thr[u].gen \in Gens
    BY FrameFacts
  <2>. QED
    BY <1>a, <2>1, <2>2, <2>3 DEF Answer, WorkerInv, InOperation
<1>4. FreshInv'
  BY <1>a, <1>b, <1>c DEF Answer, FreshInv, Quiet
<1>5. ReadyInv'
  BY <1>a, <1>b, <1>c DEF Answer, ReadyInv, Waiting, Quiet
<1>6. PipeInv'
  BY <1>b, <1>c, <1>d DEF PipeInv
<1>7. RequestInv'
  BY <1>a, <1>b, <1>c, <1>d, OperationType
     DEF Answer, RequestInv, Waiting, InOperation
<1>8. NoOrphan'
  BY DEF Answer, NoOrphan, Running
<1>. QED  BY <1>1, <1>2, <1>3, <1>4, <1>5, <1>6, <1>7, <1>8

\* Chatter is appended.
LEMMA ChatSafe ==
    ASSUME Safe, NEW g \in Gens, Chat(g)
    PROVE  Safe'
<1> USE GeometryAssumption DEF Safe
<1>a. /\ Len(stdout'[g]) = Len(stdout[g]) + 1
      /\ \A i \in 1 .. Len(stdout[g]) :
            stdout[g][i] = Chatter /\ stdout'[g][i] = Chatter
      /\ stdout'[g][Len(stdout[g]) + 1] = Chatter
      /\ \A h \in Gens : h # g => stdout'[h] = stdout[h]
  BY PipeFacts DEF Chat, PipeInv, TypeOK, Lines
<1>b. Len(stdout[g]) \in Nat
  BY PipeFacts

<1>1. TypeOK'
  <2>1. stdout' \in [Gens -> Seq(Lines)]
    BY PipeFacts DEF Chat, TypeOK, Lines
  <2>. QED  BY <2>1 DEF Chat, TypeOK
<1>2. LockInv'
  BY DEF Chat, LockInv, Working
<1>3. WorkerInv'
  BY DEF Chat, WorkerInv, InOperation, Quiet, Running
<1>4. FreshInv'
  BY DEF Chat, FreshInv, Quiet
<1>5. ReadyInv'
  <2>1. \A h \in Gens : Quiet(h) => Quiet(h)'
    BY <1>a, <1>b DEF Chat, Quiet
  <2>. QED  BY <2>1 DEF Chat, ReadyInv, Waiting
<1>6. PipeInv'
  BY DEF Chat, PipeInv
<1>7. RequestInv'
  BY DEF Chat, RequestInv, Waiting
<1>8. NoOrphan'
  BY DEF Chat, NoOrphan, Running
<1>. QED  BY <1>1, <1>2, <1>3, <1>4, <1>5, <1>6, <1>7, <1>8

\* A kernel does not come back.
LEMMA HangSafe ==
    ASSUME Safe, NEW g \in Gens, Hang(g)
    PROVE  Safe'
<1> USE GeometryAssumption DEF Safe
<1>1. TypeOK'
  BY DEF Hang, TypeOK, Frame, Idle, Ops, ProcState
<1>2. LockInv'
  BY DEF Hang, LockInv, Working
<1>3. WorkerInv'
  BY DEF Hang, WorkerInv, InOperation, Quiet, Running
<1>4. FreshInv'
  BY DEF Hang, FreshInv, Quiet, TypeOK
<1>5. ReadyInv'
  BY DEF Hang, ReadyInv, Waiting, Quiet
<1>6. PipeInv'
  BY DEF Hang, PipeInv
<1>7. RequestInv'
  BY DEF Hang, RequestInv, Waiting
<1>8. NoOrphan'
  BY DEF Hang, NoOrphan, Running, TypeOK
<1>. QED  BY <1>1, <1>2, <1>3, <1>4, <1>5, <1>6, <1>7, <1>8

\* A process ends.
LEMMA DieSafe ==
    ASSUME Safe, NEW g \in Gens, Die(g)
    PROVE  Safe'
<1> USE GeometryAssumption DEF Safe
<1>a. /\ \A h \in Gens \ {g} : proc'[h] = proc[h]
      /\ \/ proc[g] = "booting" /\ proc'[g] = "stillborn"
         \/ proc[g] \in {"ready", "busy"} /\ proc'[g] = "exiting"
  BY DEF Die, TypeOK
<1>1. TypeOK'
  BY DEF Die, TypeOK, Frame, Idle, Ops, ProcState
<1>2. LockInv'
  BY DEF Die, LockInv, Working
<1>3. WorkerInv'
  BY <1>a DEF Die, WorkerInv, InOperation, Quiet, Running
<1>4. FreshInv'
  BY DEF Die, FreshInv, Quiet, TypeOK
<1>5. ReadyInv'
  BY <1>a DEF Die, ReadyInv, Waiting, Quiet
<1>6. PipeInv'
  BY <1>a DEF Die, PipeInv
<1>7. RequestInv'
  BY DEF Die, RequestInv, Waiting
<1>8. NoOrphan'
  BY <1>a DEF Die, NoOrphan, Running
<1>. QED  BY <1>1, <1>2, <1>3, <1>4, <1>5, <1>6, <1>7, <1>8

\* A process that is let go of comes to its end.
LEMMA LeaveSafe ==
    ASSUME Safe, NEW g \in Gens, Leave(g)
    PROVE  Safe'
<1> USE GeometryAssumption DEF Safe
<1>1. TypeOK'
  BY DEF Leave, TypeOK, Frame, Idle, Ops, ProcState
<1>2. LockInv'
  BY DEF Leave, LockInv, Working
<1>3. WorkerInv'
  BY DEF Leave, WorkerInv, InOperation, Quiet, Running
<1>4. FreshInv'
  BY DEF Leave, FreshInv, Quiet, TypeOK
<1>5. ReadyInv'
  BY DEF Leave, ReadyInv, Waiting, Quiet
<1>6. PipeInv'
  BY DEF Leave, PipeInv
<1>7. RequestInv'
  BY DEF Leave, RequestInv, Waiting
<1>8. NoOrphan'
  BY DEF Leave, NoOrphan, Running, TypeOK
<1>. QED  BY <1>1, <1>2, <1>3, <1>4, <1>5, <1>6, <1>7, <1>8

\* Its status can be collected.
LEMMA ReapSafe ==
    ASSUME Safe, NEW g \in Gens, Reap(g)
    PROVE  Safe'
<1> USE GeometryAssumption DEF Safe
<1>1. TypeOK'
  BY DEF Reap, TypeOK, Frame, Idle, Ops, ProcState
<1>2. LockInv'
  BY DEF Reap, LockInv, Working
<1>3. WorkerInv'
  BY DEF Reap, WorkerInv, InOperation, Quiet, Running
<1>4. FreshInv'
  BY DEF Reap, FreshInv, Quiet, TypeOK
<1>5. ReadyInv'
  BY DEF Reap, ReadyInv, Waiting, Quiet
<1>6. PipeInv'
  BY DEF Reap, PipeInv
<1>7. RequestInv'
  BY DEF Reap, RequestInv, Waiting
<1>8. NoOrphan'
  BY DEF Reap, NoOrphan, Running, TypeOK
<1>. QED  BY <1>1, <1>2, <1>3, <1>4, <1>5, <1>6, <1>7, <1>8

-----------------------------------------------------------------------------
(* The invariant holds.                                                    *)

\* Nobody is in a call, and there is no process.
LEMMA InitSafe == Init => Safe
<1> SUFFICES ASSUME Init PROVE Safe
  OBVIOUS
<1> USE GeometryAssumption DEF Init
<1>1. TypeOK
  BY DEF TypeOK, Frame, Idle, Ops, ProcState
<1>2. \A t \in Threads : thr[t].pc = "idle"
  BY DEF Idle
<1>3. LockInv
  BY <1>2 DEF LockInv, Working
<1>4. \A g \in Gens : Quiet(g) /\ ~ Running(g)
  BY DEF Quiet, Running
<1>5. WorkerInv
  BY <1>2 DEF WorkerInv, InOperation
<1>6. FreshInv /\ ReadyInv
  BY <1>4 DEF FreshInv, ReadyInv
<1>7. PipeInv
  BY DEF PipeInv
<1>8. RequestInv
  BY <1>2 DEF RequestInv, Waiting
<1>9. NoOrphan
  BY <1>4 DEF NoOrphan
<1>. QED  BY <1>1, <1>3, <1>5, <1>6, <1>7, <1>8, <1>9 DEF Safe

\* A thread that comes in touches nothing yet.
LEMMA BeginSafe ==
    ASSUME Safe, NEW t \in Threads, NEW op \in Ops, Begin(t, op)
    PROVE  Safe'
<1> USE GeometryAssumption DEF Safe
<1>1. [Idle EXCEPT !.pc = "enter", !.op = op] \in Frame
  BY DEF Idle, Frame
<1>2. /\ thr'[t].pc = "enter" /\ thr[t].pc = "idle"
      /\ \A u \in Threads : u # t => thr'[u] = thr[u]
  BY DEF Begin, TypeOK, Idle
<1>3. UNCHANGED <<worker, proc, stdin, stdout, lock, nextGen, counter>>
  BY DEF Begin
<1>4. TypeOK'
  BY <1>1 DEF Begin, TypeOK
<1>5. \A u \in Threads : \A p \in {"boot", "send", "check", "read", "kill"} :
        (thr[u].pc = p \/ thr'[u].pc = p) => thr'[u] = thr[u]
  BY <1>2
<1>6. LockInv'
  BY <1>3, <1>5 DEF LockInv, Working
<1>7. WorkerInv'
  BY <1>3, <1>5 DEF WorkerInv, InOperation, Quiet, Running
<1>8. FreshInv'
  BY <1>3 DEF FreshInv, Quiet
<1>9. ReadyInv'
  BY <1>3, <1>5 DEF ReadyInv, Waiting, Quiet
<1>10. PipeInv'
  BY <1>3 DEF PipeInv
<1>11. RequestInv'
  BY <1>3, <1>5 DEF RequestInv, Waiting
<1>12. NoOrphan'
  BY <1>3, <1>5 DEF NoOrphan, Running
<1>. QED  BY <1>4, <1>6, <1>7, <1>8, <1>9, <1>10, <1>11, <1>12

\* Every step keeps the invariant.
LEMMA NextSafe == Safe /\ [Next]_vars => Safe'
<1> SUFFICES ASSUME Safe, [Next]_vars PROVE Safe'
  OBVIOUS
<1>1. ASSUME NEW t \in Threads, NEW op \in Ops, Begin(t, op) PROVE Safe'
  BY <1>1, BeginSafe
<1>2. ASSUME NEW t \in Threads, Step(t) PROVE Safe'
  BY <1>2, EnsureOldSafe, EnsureSpawnSafe, SpawnOkSafe, SpawnFailedSafe,
     SpawnAbandonedSafe, SendSafe, NotSentSafe, BrokenPipeSafe, InTimeSafe, TimedOutSafe,
     ReadChatterSafe, ReadAnswerSafe, ReadEOFSafe, ShutdownSwapSafe,
     ShutdownKillSafe DEF Step
<1>3. ASSUME NEW t \in Threads, Late(t) PROVE Safe'
  BY <1>3, LateSafe
<1>4. ASSUME NEW g \in Gens, Kernel(g) \/ Chat(g) \/ Hang(g) \/ Die(g)
      PROVE  Safe'
  BY <1>4, BootSafe, TakeRequestSafe, AnswerSafe, LeaveSafe, ReapSafe, ChatSafe,
     HangSafe, DieSafe DEF Kernel
<1>5. CASE UNCHANGED vars
  BY <1>5 DEF vars, Safe, TypeOK, LockInv, WorkerInv, FreshInv, ReadyInv,
     PipeInv, RequestInv, NoOrphan, Quiet, Waiting, Working, Running,
     InOperation
<1>. QED  BY <1>1, <1>2, <1>3, <1>4, <1>5 DEF Next

\* So it holds in every state.
LEMMA AlwaysSafe == Spec => []Safe
BY InitSafe, NextSafe, PTL DEF Spec

-----------------------------------------------------------------------------
(* What follows from it.                                                   *)

\* Every frame, pipe and process keeps its type: a call has a process from the
\* return of _ensure on, and a request number with it.
THEOREM TypeCorrect == Spec => []TypeOK
<1>1. Safe => TypeOK
  BY DEF Safe
<1>. QED  BY <1>1, AlwaysSafe, PTL

\* GeometryWorker._lock does its work: there is one geometry operation at a
\* time, and the worker it is on stays installed until it is over.
THEOREM OneAtATime == Spec => []OneOperationAtATime
<1>1. Safe => OneOperationAtATime
  BY DEF Safe, OneOperationAtATime, LockInv, WorkerInv, InOperation, Working
<1>. QED  BY <1>1, AlwaysSafe, PTL

\* The marker line on which _await_done returns is the one of the request that
\* this call wrote, whatever earlier calls left unread when they timed out or
\* when their worker died.
THEOREM RepliesMatch == Spec => RepliesAreMine
<1>1. ASSUME Safe, NEW t \in Threads, ReadAnswer(t)
      PROVE  Head(stdout[thr[t].gen]) = thr[t].req
  <2>1. thr[t].gen \in Gens /\ Waiting(t)
    BY <1>1, OperationType DEF Safe, ReadAnswer, InOperation, Waiting
  <2>2. /\ Len(stdout[thr[t].gen]) \in Nat \ {0}
        /\ Head(stdout[thr[t].gen]) = stdout[thr[t].gen][1]
    BY <1>1, <2>1, PipeFacts DEF Safe, ReadAnswer
  <2>3. 1 \in 1 .. Len(stdout[thr[t].gen])
    BY <2>2
  <2>. QED  BY <1>1, <2>1, <2>2, <2>3 DEF Safe, RequestInv, ReadAnswer
<1>2. Safe => [\A t \in Threads :
                 ReadAnswer(t) => Head(stdout[thr[t].gen]) = thr[t].req]_vars
  BY <1>1
<1>. QED  BY <1>2, AlwaysSafe, PTL DEF RepliesAreMine

\* At most one live worker: every process that runs is the installed one, or
\* a thread holds it, to install it or to kill it.
THEOREM NoneOrphaned == Spec => []NoOrphan
<1>1. Safe => NoOrphan
  BY DEF Safe
<1>. QED  BY <1>1, AlwaysSafe, PTL

\* is_ready, which /health asks without the lock, is true only of a process
\* that has reported READY.
THEOREM HealthHonest == Spec => []HealthIsHonest
<1>1. Safe => HealthIsHonest
  BY DEF Safe, HealthIsHonest, ReadyInv
<1>. QED  BY <1>1, AlwaysSafe, PTL

=============================================================================
