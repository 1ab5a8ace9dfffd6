--------------------------- MODULE GeometryWorker ---------------------------
(***************************************************************************)
(* The geometry kernel's process and the calls that go through it.         *)
(*                                                                         *)
(* GeometryWorker keeps at most one worker process and serialises the      *)
(* calls on it with a lock held for the whole operation.  A call writes a  *)
(* request to the worker's stdin and reads its stdout, line by line, up to *)
(* the marker line that names the response file.  A worker that dies, or a *)
(* call that is late, costs the worker; the next call starts another.      *)
(*                                                                         *)
(* A worker process is a generation in Gens.  The kernel behind it is the  *)
(* environment: it may answer, chatter on stdout, die, or never come back. *)
(***************************************************************************)
EXTENDS Integers, Sequences, FiniteSets

CONSTANTS
    Threads,
    NoThread,
    Gens,        \* generations of worker processes
    Faults,      \* what may go wrong with a worker
    MaxCalls,    \* bound: operations begun in one behaviour
    MaxChatter   \* bound: unread lines on stdout

\* "die"    the process crashes, while it computes or while it stands by
\* "hang"   an operation does not come back: the kernel loops, the process
\*          blocks on its stderr pipe, which nobody reads after start-up, or
\*          chatter without an end of line hides the marker from startswith
\* "unborn" a process does not report ready
\* "slow"   an operation takes longer than its timeout
\* "full"   a file or a directory of the worker cannot be written
AllFaults == {"die", "hang", "unborn", "slow", "full"}

ASSUME GeometryAssumption ==
    /\ NoThread \notin Threads
    /\ Gens \subseteq Nat \ {0}
    /\ Faults \subseteq AllFaults
    /\ MaxCalls \in Nat /\ MaxChatter \in Nat

VARIABLES
    worker,     \* GeometryWorker._worker: a generation, 0 when there is none
    proc,       \* generation -> state of that process
    stdin,      \* generation -> the request it has been sent, 0 when read
    stdout,     \* generation -> its unread lines
    lock,       \* the owner of GeometryWorker._lock
    nextGen,
    thr,        \* thread -> frame of the call it is in
    counter,    \* GeometryWorker._counter: requests are numbered with it
    calls       \* operations begun so far

vars == <<worker, proc, stdin, stdout, lock, nextGen, thr, counter, calls>>

-----------------------------------------------------------------------------
(* Processes.                                                              *)

\* "none"     not started yet          "booting"  importing CadQuery
\* "ready"    waiting for a request    "busy"     computing one
\* "hung"     lost in the kernel       "exiting"  pipes closed, not yet reaped
\* "dead"     poll() returns its status
\* "stillborn" it ended before it reported ready
\* "leaving"  nobody holds its stdin: it ends when it reads the end of it
ProcState == {"none", "booting", "ready", "busy", "hung", "exiting", "dead",
              "stillborn", "leaving"}

Requests == Nat \ {0}
Chatter == 0   \* a line of CadQuery, VTK or OCP; a number is a marker line
Lines == Requests \union {Chatter}

Running(g) == proc[g] \in {"booting", "ready", "busy", "hung"}

\* proc.poll() is None.
PollsAlive(g) == Running(g) \/ proc[g] = "exiting"

\* SIGKILL: the pipes close, the status can be collected a little later.
Killed(g) == IF Running(g) THEN "exiting" ELSE proc[g]

Ops == {"call", "prewarm", "shutdown"}

\* late: the deadline of the operation has passed.  A frame has a process from
\* the moment _ensure returns one, and a request number from then on too; a
\* shutdown may find no process to kill.
Frame ==
    [pc: {"idle", "enter"}, op: Ops, gen: {0}, req: {0}, late: {FALSE}]
    \union [pc: {"boot"}, op: {"call", "prewarm"}, gen: Gens, req: {0},
            late: {FALSE}]
    \union [pc: {"send", "check", "read"}, op: {"call"}, gen: Gens,
            req: Requests, late: BOOLEAN]
    \union [pc: {"kill"}, op: {"shutdown"}, gen: Gens \union {0}, req: {0},
            late: {FALSE}]

Idle == [pc |-> "idle", op |-> "call", gen |-> 0, req |-> 0, late |-> FALSE]

\* One type invariant.
TypeOK ==
    /\ worker \in Gens \union {0}
    /\ proc \in [Gens -> ProcState]
    /\ stdin \in [Gens -> Requests \union {0}]
    /\ stdout \in [Gens -> Seq(Lines)]
    /\ lock \in Threads \union {NoThread}
    /\ nextGen \in Nat \ {0}
    /\ thr \in [Threads -> Frame]
    /\ counter \in Nat /\ calls \in Nat

Init ==
    /\ worker = 0
    /\ proc = [g \in Gens |-> "none"]
    /\ stdin = [g \in Gens |-> 0]
    /\ stdout = [g \in Gens |-> <<>>]
    /\ lock = NoThread
    /\ nextGen = 1
    /\ thr = [t \in Threads |-> Idle]
    /\ counter = 0 /\ calls = 0

\* The call ends, with a result or an exception; the lock goes back.
Return(t) ==
    /\ thr' = [thr EXCEPT ![t] = Idle]
    /\ lock' = IF lock = t THEN NoThread ELSE lock

Goto(t, pc) == thr' = [thr EXCEPT ![t].pc = pc] /\ UNCHANGED lock

-----------------------------------------------------------------------------
(* The worker process: the environment.                                    *)

\* READY on stderr, which the thread in _spawn is reading, then the loop.
Boot(g) ==
    /\ proc[g] = "booting"
    /\ proc' = [proc EXCEPT ![g] = "ready"]
    /\ UNCHANGED <<worker, stdin, stdout, lock, nextGen, thr, counter,
                   calls>>

TakeRequest(g) ==
    /\ proc[g] = "ready" /\ stdin[g] # 0
    /\ proc' = [proc EXCEPT ![g] = "busy"]
    /\ UNCHANGED <<worker, stdin, stdout, lock, nextGen, thr, counter,
                   calls>>

\* The response file is written, then the marker line that names it.
Answer(g) ==
    /\ proc[g] = "busy"
    /\ stdout' = [stdout EXCEPT ![g] = Append(@, stdin[g])]
    /\ stdin' = [stdin EXCEPT ![g] = 0]
    /\ proc' = [proc EXCEPT ![g] = "ready"]
    /\ UNCHANGED <<worker, lock, nextGen, thr, counter,
                   calls>>

Chat(g) ==
    /\ proc[g] \in {"booting", "busy"}
    /\ Len(stdout[g]) < MaxChatter
    /\ stdout' = [stdout EXCEPT ![g] = Append(@, Chatter)]
    /\ UNCHANGED <<worker, proc, stdin, lock, nextGen, thr, counter,
                   calls>>

Hang(g) ==
    /\ proc[g] = "busy"
    /\ "hang" \in Faults
    /\ proc' = [proc EXCEPT ![g] = "hung"]
    /\ UNCHANGED <<worker, stdin, stdout, lock, nextGen, thr, counter,
                   calls>>

\* The pipes close before the exit status can be collected.
Die(g) ==
    /\ \/ /\ proc[g] \in {"ready", "busy"} /\ "die" \in Faults
          /\ proc' = [proc EXCEPT ![g] = "exiting"]
       \/ /\ proc[g] = "booting" /\ "unborn" \in Faults
          /\ proc' = [proc EXCEPT ![g] = "stillborn"]
    /\ UNCHANGED <<worker, stdin, stdout, lock, nextGen, thr, counter,
                   calls>>

Reap(g) ==
    /\ proc[g] = "exiting"
    /\ proc' = [proc EXCEPT ![g] = "dead"]
    /\ UNCHANGED <<worker, stdin, stdout, lock, nextGen, thr, counter,
                   calls>>

\* main's loop over stdin is over.
Leave(g) ==
    /\ proc[g] = "leaving"
    /\ proc' = [proc EXCEPT ![g] = "exiting"]
    /\ UNCHANGED <<worker, stdin, stdout, lock, nextGen, thr, counter,
                   calls>>

\* A call reads its timeout's clock only in _await_done.
Late(t) ==
    /\ thr[t].pc \in {"check", "read"} /\ ~ thr[t].late
    /\ "slow" \in Faults
    /\ thr' = [thr EXCEPT ![t].late = TRUE]
    /\ UNCHANGED <<worker, proc, stdin, stdout, lock, nextGen, counter,
                   calls>>

-----------------------------------------------------------------------------
(* Calls.                                                                  *)

Begin(t, op) ==
    /\ thr[t] = Idle
    /\ calls < MaxCalls
    /\ calls' = calls + 1
    /\ thr' = [thr EXCEPT ![t].pc = "enter", ![t].op = op]
    /\ UNCHANGED <<worker, proc, stdin, stdout, lock, nextGen, counter>>

\* Past _ensure: a prewarm is done, a call numbers its request.
Ensured(t, g) ==
    IF thr[t].op = "prewarm"
    THEN /\ thr' = [thr EXCEPT ![t] = Idle]
         /\ lock' = NoThread
         /\ UNCHANGED counter
    ELSE /\ thr' = [thr EXCEPT ![t] =
                       [pc |-> "send", op |-> "call", gen |-> g,
                        req |-> counter + 1, late |-> FALSE]]
         /\ lock' = t
         /\ counter' = counter + 1

\* Mutant: _ensure does not look whether there is a worker at all.
ReadyUnchecked == worker # 0 => PollsAlive(worker)

\* GeometryWorker.is_ready, which /health asks without the lock.
IsReady == worker # 0 /\ PollsAlive(worker)

\* Mutant: the lock is not waited for.
MayEnterAlways(t) == t \in Threads

MayEnter(t) == lock = NoThread

\* The lock, then _ensure: the worker that lives, or a new process.
EnsureOld(t) ==
    /\ thr[t].pc = "enter" /\ thr[t].op # "shutdown"
    /\ MayEnter(t)
    /\ IsReady
    /\ Ensured(t, worker)
    /\ UNCHANGED <<worker, proc, stdin, stdout, nextGen, calls>>

\* Mutant: the process is installed before it is ready.
SpawnInstalls(t) ==
    /\ thr[t].pc = "enter" /\ thr[t].op # "shutdown"
    /\ MayEnter(t)
    /\ ~ IsReady
    /\ nextGen \in Gens
    /\ proc' = [proc EXCEPT ![nextGen] = "booting"]
    /\ nextGen' = nextGen + 1
    /\ worker' = nextGen
    /\ lock' = t
    /\ thr' = [thr EXCEPT ![t].pc = "boot", ![t].gen = nextGen]
    /\ UNCHANGED <<stdin, stdout, counter, calls>>

EnsureSpawn(t) ==
    /\ thr[t].pc = "enter" /\ thr[t].op # "shutdown"
    /\ MayEnter(t)
    /\ ~ IsReady
    /\ nextGen \in Gens
    /\ proc' = [proc EXCEPT ![nextGen] = "booting"]
    /\ nextGen' = nextGen + 1
    /\ lock' = t
    /\ thr' = [thr EXCEPT ![t].pc = "boot", ![t].gen = nextGen]
    /\ UNCHANGED <<worker, stdin, stdout, counter, calls>>

\* What a process comes to that has reported ready, before it is sent anything.
Reported == {"ready", "exiting", "dead"}

\* _spawn reads stderr up to READY, without a deadline; a process that has died
\* since is installed like one that lives.
SpawnOk(t) ==
    LET g == thr[t].gen
    IN /\ thr[t].pc = "boot"
       /\ proc[g] \in Reported
       /\ worker' = g
       /\ Ensured(t, g)
       /\ UNCHANGED <<proc, stdin, stdout, nextGen, calls>>

\* EOF, or too many lines before READY: the process is killed.
SpawnFailed(t) ==
    LET g == thr[t].gen
    IN /\ thr[t].pc = "boot"
       /\ "unborn" \in Faults
       /\ proc' = [proc EXCEPT ![g] = Killed(g)]
       /\ Return(t)
       /\ UNCHANGED <<worker, stdin, stdout, nextGen, counter, calls>>

\* Its directory cannot be made: the exception passes by kill(), and the last
\* reference to the process goes, with its pipes.
SpawnAbandoned(t) ==
    LET g == thr[t].gen
    IN /\ thr[t].pc = "boot"
       /\ "full" \in Faults /\ proc[g] \in Reported
       /\ proc' = [proc EXCEPT ![g] = IF @ = "ready" THEN "leaving" ELSE @]
       /\ Return(t)
       /\ UNCHANGED <<worker, stdin, stdout, nextGen, counter, calls>>

\* The write fails only when the pipe is closed already.
Send(t) ==
    LET g == thr[t].gen
    IN /\ thr[t].pc = "send"
       /\ Running(g)
       /\ stdin' = [stdin EXCEPT ![g] = thr[t].req]
       /\ Goto(t, "check")
       /\ UNCHANGED <<worker, proc, stdout, nextGen, counter, calls>>

\* An OSError that passes by _discard: the worker has not been told, and stays.
NotSent(t) ==
    /\ thr[t].pc = "send"
    /\ "full" \in Faults
    /\ Return(t)
    /\ UNCHANGED <<worker, proc, stdin, stdout, nextGen, counter, calls>>

\* Mutants: the worker is dropped but not killed; it is kept.
DiscardSpares(g) ==
    /\ worker' = IF worker = g THEN 0 ELSE worker
    /\ UNCHANGED proc
DiscardNothing(g) == UNCHANGED <<worker, proc>>

Discard(g) ==
    /\ proc' = [proc EXCEPT ![g] = Killed(g)]
    /\ worker' = IF worker = g THEN 0 ELSE worker

BrokenPipe(t) ==
    LET g == thr[t].gen
    IN /\ thr[t].pc = "send"
       /\ ~ Running(g)
       /\ Discard(g)
       /\ Return(t)
       /\ UNCHANGED <<stdin, stdout, nextGen, counter,
                   calls>>

\* The deadline is looked at between two lines.
InTime(t) ==
    /\ thr[t].pc = "check" /\ ~ thr[t].late
    /\ Goto(t, "read")
    /\ UNCHANGED <<worker, proc, stdin, stdout, nextGen, counter,
                   calls>>

TimedOut(t) ==
    /\ thr[t].pc = "check" /\ thr[t].late
    /\ Discard(thr[t].gen)
    /\ Return(t)
    /\ UNCHANGED <<stdin, stdout, nextGen, counter,
                   calls>>

\* stdout.readline(), which blocks while there is neither a line nor EOF.
ReadChatter(t) ==
    LET g == thr[t].gen
    IN /\ thr[t].pc = "read"
       /\ stdout[g] # <<>> /\ Head(stdout[g]) = Chatter
       /\ stdout' = [stdout EXCEPT ![g] = Tail(@)]
       /\ Goto(t, "check")
       /\ UNCHANGED <<worker, proc, stdin, nextGen, counter,
                   calls>>

ReadAnswer(t) ==
    LET g == thr[t].gen
    IN /\ thr[t].pc = "read"
       /\ stdout[g] # <<>> /\ Head(stdout[g]) # Chatter
       /\ stdout' = [stdout EXCEPT ![g] = Tail(@)]
       /\ Return(t)
       /\ UNCHANGED <<worker, proc, stdin, nextGen, counter,
                   calls>>

\* Mutant: the end of the file is read as one more line of chatter.
EofIsChatter(t) ==
    /\ thr[t].pc = "read"
    /\ stdout[thr[t].gen] = <<>> /\ proc[thr[t].gen] \in {"exiting", "dead"}
    /\ Goto(t, "read")
    /\ UNCHANGED <<worker, proc, stdin, stdout, nextGen, counter, calls>>

ReadEOF(t) ==
    LET g == thr[t].gen
    IN /\ thr[t].pc = "read"
       /\ stdout[g] = <<>> /\ proc[g] \in {"exiting", "dead"}
       /\ Discard(g)
       /\ Return(t)
       /\ UNCHANGED <<stdin, stdout, nextGen, counter,
                   calls>>

-----------------------------------------------------------------------------
(* shutdown: swapped out under the lock, killed after it.                  *)

ShutdownSwap(t) ==
    /\ thr[t].pc = "enter" /\ thr[t].op = "shutdown"
    /\ lock = NoThread
    /\ worker' = 0
    /\ thr' = [thr EXCEPT ![t].pc = "kill", ![t].gen = worker]
    /\ UNCHANGED <<proc, stdin, stdout, lock, nextGen, counter,
                   calls>>

ShutdownKill(t) ==
    /\ thr[t].pc = "kill"
    /\ proc' = [g \in Gens |-> IF g = thr[t].gen THEN Killed(g) ELSE proc[g]]
    /\ Return(t)
    /\ UNCHANGED <<worker, stdin, stdout, nextGen, counter,
                   calls>>

-----------------------------------------------------------------------------

Step(t) ==
    \/ EnsureOld(t) \/ EnsureSpawn(t) \/ SpawnOk(t) \/ SpawnFailed(t)
    \/ SpawnAbandoned(t) \/ Send(t) \/ NotSent(t) \/ BrokenPipe(t) \/ InTime(t)
    \/ TimedOut(t) \/ ReadChatter(t) \/ ReadAnswer(t) \/ ReadEOF(t)
    \/ ShutdownSwap(t) \/ ShutdownKill(t)

Kernel(g) ==
    Boot(g) \/ TakeRequest(g) \/ Answer(g) \/ Leave(g) \/ Reap(g)

Next ==
    \/ \E t \in Threads, op \in Ops : Begin(t, op)
    \/ \E t \in Threads : Step(t) \/ Late(t)
    \/ \E g \in Gens : Kernel(g) \/ Chat(g) \/ Hang(g) \/ Die(g)

Spec == Init /\ [][Next]_vars

\* Threads run, the clock runs, and a kernel that neither crashed nor hung
\* makes progress.
FairSpec ==
    /\ Spec
    /\ \A t \in Threads : WF_vars(Step(t)) /\ WF_vars(Late(t))
    /\ \A g \in Gens : WF_vars(Kernel(g))

-----------------------------------------------------------------------------
(* Properties.                                                             *)

InOperation(t) == thr[t].pc \in {"send", "check", "read"}

\* One geometry operation at a time, each on the worker that is installed:
\* a shutdown or another call never takes the worker from under it.
OneOperationAtATime ==
    \A t \in Threads : InOperation(t) =>
        /\ thr[t].gen = worker
        /\ \A u \in Threads \ {t} : ~ InOperation(u)

\* No call is answered with the response of an earlier one: the line that
\* ends it names its own request, also after a call that timed out.
RepliesAreMine ==
    [][\A t \in Threads :
        ReadAnswer(t) => Head(stdout[thr[t].gen]) = thr[t].req]_vars

\* "Owns at most one live worker process": every process that runs is the
\* installed one, or one that a thread is about to install or to kill; except
\* for one without a directory, which is let go of and ends with its stdin.
NoOrphan ==
    \A g \in Gens : Running(g) =>
        \/ g = worker
        \/ \E t \in Threads : thr[t].gen = g /\ thr[t].pc \in {"boot", "kill"}

\* SPEC H7: /health reports a kernel only once that process has imported
\* CadQuery.
HealthIsHonest ==
    \A g \in Gens :
        IsReady /\ worker = g => proc[g] \notin {"none", "booting", "stillborn"}

\* Every call ends, also when the kernel crashes, is late or does not start,
\* unless a kernel hangs: that is the one way to keep the lock.
EveryCallReturns ==
    \A t \in Threads :
        thr[t] # Idle ~> (thr[t] = Idle \/ \E g \in Gens : proc[g] = "hung")

\* "Wall-clock ceiling for one geometry operation": one that is past its
\* deadline ends.
DeadlineIsMet == \A t \in Threads : thr[t].late ~> ~ thr[t].late

=============================================================================
