------------------------------ MODULE Sessions ------------------------------
(***************************************************************************)
(* The registry of sessions: creation, idle eviction and reset.            *)
(*                                                                         *)
(* Every tool call first asks get_or_create for its session, which sweeps  *)
(* idle sessions away under the registry lock.  reset_session takes no     *)
(* lock at all.  A tool then works on the session object it was given,     *)
(* under that session's lock (execute_cad) or without it (gen_ai_mesh,     *)
(* which awaits a service for minutes).                                    *)
(*                                                                         *)
(* A Session object is an identity in Objs, which is also the identity of  *)
(* its temporary directory.  Time passes only while no thread has a step   *)
(* that it can take at once: the idle timeout is minutes, a step is        *)
(* microseconds.                                                           *)
(***************************************************************************)
EXTENDS Integers, FiniteSets

CONSTANTS
    Threads,
    NoThread,     \* the owner of a lock nobody holds
    Sids,         \* session ids
    Default,      \* DEFAULT_SESSION_ID, the session of the stdio client
    Objs,         \* identities of Session objects
    Timeout,      \* CAD_MCP_SESSION_IDLE_TIMEOUT_S; 0 switches eviction off
    MaxTime,      \* bound: the clock
    MaxCalls,     \* bound: tool calls made in one behaviour
    ToolsInUse    \* the kinds of tool the clients of this instance call

\* "locking"  execute_cad: holds the session lock while the run lasts
\* "awaiting" gen_ai_mesh: awaits a service, then writes to the directory
\* "reset"    reset_session
Tools == {"locking", "awaiting", "reset"}

ASSUME SessionsAssumption ==
    /\ NoThread \notin Threads
    /\ Default \in Sids
    /\ Objs \subseteq Nat \ {0}
    /\ Timeout \in Nat /\ MaxTime \in Nat /\ MaxCalls \in Nat
    /\ ToolsInUse \subseteq Tools

VARIABLES
    sessions,   \* _sessions: id -> its Session object, 0 when absent
    registry,   \* the owner of _sessions_lock
    dirs,       \* the temporary directories that exist
    lastUsed,   \* Session.last_used
    held,       \* the owner of Session.lock
    nextObj,    \* the identity the next Session object gets
    now,        \* time.monotonic()
    thr,        \* thread -> frame of the call it is in
    calls,
    patient     \* the clients' habit: no call on a session before the last one
                \* on it has returned

vars == <<sessions, registry, dirs, lastUsed, held, nextObj, now, thr, calls,
          patient>>

-----------------------------------------------------------------------------

\* A registered session, as a sweep sees it.
Entry == [sid: Sids, obj: Objs]

\* obj is the object that the call works on; until get_or_create returns, the
\* one that was registered when it was entered, if any was.  After that it is
\* never None.
Frame ==
    LET inSweep == SUBSET Entry
    IN [pc: {"idle", "enter", "reset", "reset_del"}, tool: Tools, sid: Sids,
        obj: {0}, todo: {{}}, victim: Sids]
       \union [pc: {"sweep", "drop"}, tool: {"locking", "awaiting"},
               sid: Sids, obj: Objs \union {0}, todo: inSweep, victim: Sids]
       \union [pc: {"wait", "work", "await"}, tool: {"locking", "awaiting"},
               sid: Sids, obj: Objs, todo: {{}}, victim: Sids]

Idle == [pc |-> "idle", tool |-> "locking", sid |-> Default, obj |-> 0,
         todo |-> {}, victim |-> Default]

\* One type invariant.
TypeOK ==
    /\ sessions \in [Sids -> Objs \union {0}]
    /\ registry \in Threads \union {NoThread}
    /\ dirs \subseteq Objs
    /\ lastUsed \in [Objs -> Nat]
    /\ held \in [Objs -> Threads \union {NoThread}]
    /\ nextObj \in Nat \ {0}
    /\ now \in Nat
    /\ thr \in [Threads -> Frame]
    /\ calls \in Nat
    /\ patient \in BOOLEAN

Registered == {s \in Sids : sessions[s] # 0}

Init ==
    /\ sessions = [s \in Sids |-> 0]
    /\ registry = NoThread
    /\ dirs = {}
    /\ lastUsed = [o \in Objs |-> 0]
    /\ held = [o \in Objs |-> NoThread]
    /\ nextObj = 1
    /\ now = 0
    /\ thr = [t \in Threads |-> Idle]
    /\ calls = 0
    /\ patient \in BOOLEAN

Return(t) == thr' = [thr EXCEPT ![t] = Idle]

-----------------------------------------------------------------------------
(* A call arrives.                                                         *)

Call(t, tool, s) ==
    /\ thr[t] = Idle
    /\ tool \in ToolsInUse
    /\ calls < MaxCalls
    /\ patient => \A u \in Threads : thr[u] = Idle \/ thr[u].sid # s
    /\ calls' = calls + 1
    /\ thr' = [thr EXCEPT ![t] =
                  [Idle EXCEPT !.pc = IF tool = "reset" THEN "reset"
                                      ELSE "enter",
                               !.tool = tool, !.sid = s]]
    /\ UNCHANGED <<sessions, registry, dirs, lastUsed, held, nextObj, now, patient>>

-----------------------------------------------------------------------------
(* get_or_create and the sweep of evict_idle, under the registry lock.     *)

IdleTooLong(o) == Timeout > 0 /\ now - lastUsed[o] > Timeout

\* The snapshot list(_sessions.items()), without the sessions in keep.
Snapshot(keep) ==
    {e \in Entry : e.sid \notin keep /\ sessions[e.sid] = e.obj}

\* Mutants: the session asked for, or the stdio session, is swept too.
ToSweepAsked(s) == {e \in Snapshot({Default}) : IdleTooLong(e.obj)}
ToSweepDefault(s) == {e \in Snapshot({s}) : IdleTooLong(e.obj)}

\* What the sweep of a call on session s is to try.  The registry, the clock
\* and last_used are read under the registry lock, so all at once.
ToSweep(s) == {e \in Snapshot({s, Default}) : IdleTooLong(e.obj)}

Enter(t) ==
    LET s == thr[t].sid
    IN /\ thr[t].pc = "enter"
       /\ registry = NoThread
       /\ registry' = t
       /\ thr' = [thr EXCEPT ![t].pc = "sweep", ![t].obj = sessions[s],
                             ![t].todo = ToSweep(s)]
       /\ UNCHANGED <<sessions, dirs, lastUsed, held, nextObj, now, calls,
                   patient>>

\* A session in use is left alone.
SweepSkip(t) ==
    /\ thr[t].pc = "sweep"
    /\ \E e \in thr[t].todo :
         /\ held[e.obj] # NoThread
         /\ thr' = [thr EXCEPT ![t].todo = @ \ {e}]
    /\ UNCHANGED <<sessions, registry, dirs, lastUsed, held, nextObj, now,
                   calls, patient>>

\* Mutants: the session lock is not looked at; rmtree, told to ignore errors,
\* removes nothing.
CleanInUse(t, e) ==
    /\ held' = [held EXCEPT ![e.obj] = t]
    /\ dirs' = dirs \ {e.obj}
CleanLeavesDirectory(t, e) ==
    /\ held[e.obj] = NoThread
    /\ held' = [held EXCEPT ![e.obj] = t]
    /\ UNCHANGED dirs

\* The non-blocking acquire, and the cleanup.
CleanVictim(t, e) ==
    /\ held[e.obj] = NoThread
    /\ held' = [held EXCEPT ![e.obj] = t]
    /\ dirs' = dirs \ {e.obj}

SweepClean(t) ==
    /\ thr[t].pc = "sweep"
    /\ \E e \in thr[t].todo :
         /\ CleanVictim(t, e)
         /\ thr' = [thr EXCEPT ![t].pc = "drop", ![t].victim = e.sid,
                               ![t].todo = @ \ {e}]
    /\ UNCHANGED <<sessions, registry, lastUsed, nextObj, now, calls,
                   patient>>

\* What a thread holds it gives back, whatever happens in between.
ReleaseVictim(t) ==
    held' = [o \in Objs |-> IF held[o] = t THEN NoThread ELSE held[o]]

\* Mutant: the entry is not taken out.
DropKeepsEntry(t) ==
    /\ thr[t].pc = "drop"
    /\ thr[t].victim \in Registered
    /\ ReleaseVictim(t)
    /\ thr' = [thr EXCEPT ![t].pc = "sweep"]
    /\ UNCHANGED <<sessions, registry, dirs, lastUsed, nextObj, now, calls,
                   patient>>

SweepDrop(t) ==
    /\ thr[t].pc = "drop"
    /\ thr[t].victim \in Registered
    /\ sessions' = [sessions EXCEPT ![thr[t].victim] = 0]
    /\ ReleaseVictim(t)
    /\ thr' = [thr EXCEPT ![t].pc = "sweep"]
    /\ UNCHANGED <<registry, dirs, lastUsed, nextObj, now, calls,
                   patient>>

\* Mutant: the registry lock is not given back on the way out.
KeyErrorKeepsRegistry(t) ==
    /\ thr[t].pc = "drop"
    /\ thr[t].victim \notin Registered
    /\ ReleaseVictim(t)
    /\ Return(t)
    /\ UNCHANGED <<sessions, registry, dirs, lastUsed, nextObj, now, calls,
                   patient>>

\* A reset was first: del raises KeyError, which ends the tool call.
SweepKeyError(t) ==
    /\ thr[t].pc = "drop"
    /\ thr[t].victim \notin Registered
    /\ ReleaseVictim(t)
    /\ registry' = NoThread
    /\ Return(t)
    /\ UNCHANGED <<sessions, dirs, lastUsed, nextObj, now, calls,
                   patient>>

\* Mutant: a session that is not in the registry is handed out all the same.
HandOutMissing(t) ==
    /\ thr[t].pc = "sweep" /\ thr[t].todo = {}
    /\ registry' = NoThread
    /\ thr' = [thr EXCEPT ![t].obj = sessions[thr[t].sid],
                          ![t].pc = IF thr[t].tool = "locking"
                                    THEN "wait" ELSE "await"]
    /\ UNCHANGED <<sessions, dirs, lastUsed, held, nextObj, now, calls,
                   patient>>

\* The swept registry holds the session, or gets a new one.
HandOut(t) ==
    LET s == thr[t].sid
        new == s \notin Registered
        o == IF new THEN nextObj ELSE sessions[s]
    IN /\ thr[t].pc = "sweep" /\ thr[t].todo = {}
       /\ o \in Objs
       /\ sessions' = [sessions EXCEPT ![s] = o]
       /\ dirs' = IF new THEN dirs \union {o} ELSE dirs
       /\ nextObj' = IF new THEN nextObj + 1 ELSE nextObj
       /\ lastUsed' = [lastUsed EXCEPT ![o] = now]
       /\ registry' = NoThread
       /\ thr' = [thr EXCEPT ![t].obj = o,
                             ![t].pc = IF thr[t].tool = "locking"
                                       THEN "wait" ELSE "await"]
       /\ UNCHANGED <<held, now, calls, patient>>

-----------------------------------------------------------------------------
(* The tools at work on the object they were given.                        *)

\* execute_cad: the run makes its own directory, parents included.
Lock(t) ==
    LET o == thr[t].obj
    IN /\ thr[t].pc = "wait"
       /\ held[o] = NoThread
       /\ held' = [held EXCEPT ![o] = t]
       /\ dirs' = dirs \union {o}
       /\ thr' = [thr EXCEPT ![t].pc = "work"]
       /\ UNCHANGED <<sessions, registry, lastUsed, nextObj, now, calls,
                   patient>>

Unlock(t) ==
    /\ thr[t].pc = "work"
    /\ held' = [held EXCEPT ![thr[t].obj] = NoThread]
    /\ Return(t)
    /\ UNCHANGED <<sessions, registry, dirs, lastUsed, nextObj, now, calls,
                   patient>>

\* gen_ai_mesh: the download makes its directory, parents included.
Download(t) ==
    /\ thr[t].pc = "await"
    /\ dirs' = dirs \union {thr[t].obj}
    /\ Return(t)
    /\ UNCHANGED <<sessions, registry, lastUsed, held, nextObj, now, calls,
                   patient>>

ServiceFails(t) ==
    /\ thr[t].pc = "await"
    /\ Return(t)
    /\ UNCHANGED <<sessions, registry, dirs, lastUsed, held, nextObj, now,
                   calls, patient>>

-----------------------------------------------------------------------------
(* reset: check, rmtree, del, all without a lock.                          *)

ResetClean(t) ==
    LET s == thr[t].sid
    IN /\ thr[t].pc = "reset"
       /\ IF s \in Registered
          THEN /\ dirs' = dirs \ {sessions[s]}
               /\ thr' = [thr EXCEPT ![t].pc = "reset_del"]
          ELSE UNCHANGED dirs /\ Return(t)
       /\ UNCHANGED <<sessions, registry, lastUsed, held, nextObj, now, calls,
                   patient>>

\* del by id, whichever object is there by now; KeyError when none is.
ResetDel(t) ==
    /\ thr[t].pc = "reset_del"
    /\ sessions' = [sessions EXCEPT ![thr[t].sid] = 0]
    /\ Return(t)
    /\ UNCHANGED <<registry, dirs, lastUsed, held, nextObj, now, calls,
                   patient>>

-----------------------------------------------------------------------------

Step(t) ==
    \/ Enter(t) \/ SweepSkip(t) \/ SweepClean(t) \/ SweepDrop(t)
    \/ SweepKeyError(t) \/ HandOut(t)
    \/ Lock(t) \/ Unlock(t) \/ Download(t) \/ ServiceFails(t)
    \/ ResetClean(t) \/ ResetDel(t)

\* Threads that are idle, at work, or behind a lock have nothing to do at
\* once; the others have.
Busy(t) ==
    \/ thr[t].pc \in {"sweep", "drop", "reset", "reset_del"}
    \/ thr[t].pc = "enter" /\ registry = NoThread
    \/ thr[t].pc = "wait" /\ held[thr[t].obj] = NoThread

Tick ==
    /\ now < MaxTime
    /\ \A t \in Threads : ~ Busy(t)
    /\ now' = now + 1
    /\ UNCHANGED <<sessions, registry, dirs, lastUsed, held, nextObj, thr,
                   calls, patient>>

Next ==
    \/ \E t \in Threads, tool \in Tools, s \in Sids : Call(t, tool, s)
    \/ \E t \in Threads : Step(t)
    \/ Tick

Spec == Init /\ [][Next]_vars

\* A pool thread keeps running; a run and a service request have timeouts.
FairSpec == Spec /\ \A t \in Threads : WF_vars(Step(t))

-----------------------------------------------------------------------------
(* Properties.                                                             *)

\* A call that get_or_create has answered and that has not returned.
InFlight(t) == thr[t].pc \in {"wait", "work", "await"}

\* gen_ai_mesh has waited for its service for longer than a session may lie
\* idle.  It holds no lock, so a sweep may take its session.
Overdue(t) == thr[t].pc = "await" /\ IdleTooLong(thr[t].obj)

\* The claim of evict_idle, which is false of an overdue call: a session with
\* "a request in flight" is never evicted.
InFlightIsNeverEvicted ==
    patient => \A t \in Threads : InFlight(t) =>
        sessions[thr[t].sid] = thr[t].obj

\* What holds of it: the object a call works on stays registered, and its
\* directory there, until the call returns or is overdue, if no other call on
\* the same session (a reset, or a second tool) comes in between.
InFlightIsKept ==
    patient => \A t \in Threads : InFlight(t) /\ ~ Overdue(t) =>
        sessions[thr[t].sid] = thr[t].obj /\ thr[t].obj \in dirs

\* A session somebody is taking out: its directory goes before its entry.
BeingDropped(s) ==
    \E t \in Threads :
        \/ thr[t].pc = "drop" /\ thr[t].victim = s
        \/ thr[t].pc = "reset_del" /\ thr[t].sid = s

\* The directories in reach: those of the sessions that stay.
Kept == {sessions[s] : s \in {r \in Registered : ~ BeingDropped(r)}}

\* A directory on disk that the registry does not lead to, so that nothing
\* will remove it.
Stray == dirs \ Kept

\* What an overdue download leaves.
StrayStep ==
    \A d \in Stray' \ Stray :
        \E t \in Threads : Overdue(t) /\ Download(t) /\ thr[t].obj = d

\* Entries and directories come and go together, for clients with one call at
\* a time on a session: every session a client can reach has its directory,
\* and a directory that nobody can find again comes about in one way only, by
\* the download of an overdue gen_ai_mesh, whose session has been swept.
DirectoriesAreSessions ==
    /\ [](patient => Kept \subseteq dirs)
    /\ [][patient => StrayStep]_vars

\* The stdio session "is never disconnected": no sweep takes it, and only its
\* own client's reset does.
DefaultIsKept ==
    [][sessions[Default] # 0 /\ sessions'[Default] # sessions[Default]
         => \E t \in Threads : ResetDel(t) /\ thr[t].sid = Default]_vars

\* "Never sweep the session we are about to hand out": a client that comes
\* back after any pause is given the session it had when its call arrived.
RequestedIsKept ==
    [][\A t \in Threads :
        (patient /\ HandOut(t) /\ thr[t].obj # 0)
            => thr'[t].obj = thr[t].obj]_vars

\* reset_session only affects the calling session: no call on another one
\* ends in the KeyError of a sweep that a reset got in the way of.
ResetAffectsOnlyItsCaller ==
    [][\A t \in Threads : ~ SweepKeyError(t)]_vars

\* t waits for a lock that u has.
WaitsFor(t, u) ==
    \/ thr[t].pc = "enter" /\ registry = u
    \/ thr[t].pc = "wait" /\ held[thr[t].obj] = u

\* evict_idle takes sessions' locks under the registry lock.  Its acquire does
\* not block, so whoever is waited for is in the middle of a sweep or of a run
\* and waits for nobody: no circle of waits, and no lock that a call has kept.
NobodyWaitsForAWaiter ==
    \A t, u \in Threads :
        WaitsFor(t, u) => thr[u].pc \in {"sweep", "drop", "work"}

\* Every call returns: the registry lock and the session locks are given
\* back on every path and are never waited for in a circle.
EveryCallReturns ==
    \A t \in Threads : thr[t] # Idle ~> thr[t] = Idle

=============================================================================
