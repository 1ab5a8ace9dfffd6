----------------------------- MODULE SandboxRun -----------------------------
(***************************************************************************)
(* One call of sandbox.run: the parent that hands out a job and makes a    *)
(* reply of what comes back, and the worker that does the job under the    *)
(* policy of SandboxPolicy.  Two calls share neither files nor processes,  *)
(* so that one is enough; who gets the warm worker is WarmSpare's matter.  *)
(*                                                                         *)
(* The user's code, the kernel under it and the operating system are the   *)
(* environment.                                                            *)
(***************************************************************************)
EXTENDS SandboxPolicy

CONSTANTS
    Caps,       \* memory caps a caller may ask for
    DefaultCap, \* DEFAULT_MEMORY_MB
    Chatter,    \* what libraries print to stdout: "text", or "number", a line
                \* that json.loads takes and that is not an object
    Writers,    \* how exportBrep may end: "whole", "raises", "short"
    Worlds,     \* each a set of the events that may happen in a behaviour
    MaxChatter  \* bound: lines of chatter

\* "nostart"  a process cannot be started
\* "nolimit"  the platform refuses to set a limit
\* "memory"   memory runs out: an exception, a failed import, an abort of the
\*            libraries, or a kill by the system
\* "crash"    the geometry kernel dies of a signal
\* "cleaned"  the session's directory is removed while the code runs
Events == {"nostart", "nolimit", "memory", "crash", "cleaned"}

ASSUME SandboxRunAssumption ==
    /\ Caps \subseteq Nat \ {0} /\ DefaultCap \in Caps
    /\ Chatter \subseteq {"text", "number"}
    /\ Writers \subseteq {"whole", "raises", "short"}
    /\ Worlds \subseteq SUBSET Events
    /\ MaxChatter \in Nat

VARIABLES
    windows,    \* sys.platform is win32
    world,      \* the events that may happen in this behaviour
    call,       \* the frame of run
    worker,     \* the worker's process
    result,     \* the result file
    brep,       \* the file the worker writes the geometry to
    out,        \* the worker's stdout, by lines
    err         \* words on its stderr that the parent looks for

ioVars == <<result, brep, out, err>>
vars == <<windows, world, call, worker, ioVars, policyVars>>

-----------------------------------------------------------------------------

\* What emit is given: a success, or the error_type of a failure.  "Raised"
\* stands for the type of whatever the user's code raised.
Payloads == {"ok", "Raised", "MemoryError", "NameError", "TypeError",
             "ExportError"}

\* What run returns; "raised" when it ends in an exception.
Replies == Payloads \union {"SandboxError", "TimeoutError", "raised"}

\* A new process imports CadQuery first; one that serves has done so, and waits
\* "ready" for its job.  cap is its address-space
\* limit, 0 for none; exit what its return code tells the parent.
Process == [pc : {"none", "ready", "boot", "import", "job", "guards", "user",
                  "export", "save", "emit", "write", "print", "gone"},
            cap : Caps \union {0},
            exit : {"none", "plain", "kill", "signal"},
            payload : Payloads \union {"none"}]

TypeOK ==
    /\ PolicyTypeOK
    /\ windows \in BOOLEAN
    /\ world \in Worlds
    /\ call \in [pc : {"start", "communicate", "done"}, asked : Caps,
                 reply : Replies \union {"none"}]
    /\ worker \in Process
    /\ result \in Payloads \union {"none", "torn", "removed"}
    /\ brep \in {"none", "torn", "whole", "short", "removed"}
    /\ out \in Seq(Chatter \union {"blob"})
    /\ err \subseteq {"memory", "error"}

\* A warm worker is there or is not; it was started before this call and has
\* the default cap.
NoProcess == [pc |-> "none", cap |-> 0, exit |-> "none", payload |-> "none"]

Limited(cap) == IF "nolimit" \in world THEN 0 ELSE cap

Init ==
    /\ PolicyInit
    /\ windows \in BOOLEAN
    /\ world \in Worlds
    /\ call \in [pc : {"start"}, asked : Caps, reply : {"none"}]
    /\ worker \in {NoProcess,
                   [NoProcess EXCEPT !.pc = "ready",
                                     !.cap = Limited(DefaultCap)]}
    /\ result = "none" /\ brep = "none" /\ out = <<>> /\ err = {}

Living == worker.pc \notin {"none", "ready", "gone"}

Become(pc) == worker' = [worker EXCEPT !.pc = pc]
Exit(code) == worker' = [worker EXCEPT !.pc = "gone", !.exit = code]
EmitNext(p) == worker' = [worker EXCEPT !.pc = "emit", !.payload = p]

Answered(r) == call' = [call EXCEPT !.pc = "done", !.reply = r]

-----------------------------------------------------------------------------
(* The parent hands out the job.                                           *)

\* Mutant: any worker will do.
ReusableAlways == TRUE

\* A worker lowers its own limits on Unix; on Windows its job object is fixed
\* at its start.
Reusable == ~ windows \/ call.asked >= DefaultCap

HandOut ==
    /\ call.pc = "start"
    /\ worker.pc = "ready" /\ Reusable
    /\ Become("boot")
    /\ call' = [call EXCEPT !.pc = "communicate"]
    /\ UNCHANGED <<windows, world, ioVars, policyVars>>

NeedsCold == call.pc = "start" /\ ~ (worker.pc = "ready" /\ Reusable)

\* preexec_fn, or a job object assigned to the new process.
SpawnCold ==
    /\ NeedsCold
    /\ worker' = [NoProcess EXCEPT !.pc = "import",
                                   !.cap = Limited(call.asked)]
    /\ call' = [call EXCEPT !.pc = "communicate"]
    /\ UNCHANGED <<windows, world, ioVars, policyVars>>

\* Popen raises.
SpawnFails ==
    /\ NeedsCold
    /\ "nostart" \in world
    /\ Answered("raised")
    /\ UNCHANGED <<windows, world, worker, ioVars, policyVars>>

-----------------------------------------------------------------------------
(* The worker.                                                             *)

\* _apply_memory_cap of a worker that serves: the hard limit is the ceiling.
Lowered ==
    IF windows \/ worker.cap = 0 \/ call.asked > worker.cap
    THEN worker.cap ELSE call.asked

\* main: a cold worker imports CadQuery under its cap, and has its job already.
ImportCadQuery ==
    /\ worker.pc = "import"
    /\ Become("job")
    /\ UNCHANGED <<windows, world, call, ioVars, policyVars>>

\* serve: a warm worker reads its job and applies its cap.
Boot ==
    /\ worker.pc = "boot"
    /\ worker' = [worker EXCEPT !.pc = "job", !.cap = Lowered]
    /\ UNCHANGED <<windows, world, call, ioVars, policyVars>>

\* _run_job: chdir and the user's code, before there are guards.
ReadJob ==
    /\ worker.pc = "job"
    /\ Become("guards")
    /\ UNCHANGED <<windows, world, call, ioVars, policyVars>>

InstallGuard ==
    /\ worker.pc = "guards"
    /\ Install
    /\ Become(IF Len(installed') = Len(GuardOrder) THEN "user" ELSE "guards")
    /\ UNCHANGED <<windows, world, call, ioVars>>

UserTries ==
    /\ worker.pc = "user"
    /\ Attempt
    /\ UNCHANGED <<windows, world, call, worker, ioVars>>

\* exec raises an Exception, a violation or one of its own, and the first
\* thing that is done about it is to report it.
UserRaises ==
    /\ worker.pc = "user" /\ checks = <<>>
    /\ \/ EmitNext("Raised")
       \/ "memory" \in world /\ EmitNext("MemoryError")
    /\ UNCHANGED <<windows, world, call, ioVars, policyVars>>

\* SystemExit is no Exception: nothing is reported.
UserExits ==
    /\ worker.pc = "user" /\ checks = <<>>
    /\ Exit("plain")
    /\ UNCHANGED <<windows, world, call, ioVars, policyVars>>

\* Mutant: a result of any type is exported.
UserEndsAnyhow ==
    /\ worker.pc = "user" /\ checks = <<>>
    /\ Become("export") \/ EmitNext("ok")
    /\ UNCHANGED <<windows, world, call, ioVars, policyVars>>

\* The code ends with a shape in result, without result, or with something
\* else in it.
UserEnds ==
    /\ worker.pc = "user" /\ checks = <<>>
    /\ Become("export") \/ EmitNext("NameError") \/ EmitNext("TypeError")
    /\ UNCHANGED <<windows, world, call, ioVars, policyVars>>

\* Counting solids and measuring change nothing, whether they fail or not.
ExportBegins ==
    /\ worker.pc = "export"
    /\ brep' = IF brep = "removed" THEN brep ELSE "torn"
    /\ Become("save")
    /\ UNCHANGED <<windows, world, call, result, out, err, policyVars>>

\* Only an exception counts: what exportBrep returns is not looked at, so that
\* a file that came out short is a success.
ExportEnds ==
    /\ worker.pc = "save"
    /\ \E w \in Writers :
         /\ brep' = IF w # "raises" /\ brep = "torn" THEN w ELSE brep
         /\ EmitNext(IF w = "raises" THEN "ExportError" ELSE "ok")
    /\ UNCHANGED <<windows, world, call, result, out, err, policyVars>>

\* emit: the result file is truncated, and then written.
EmitOpens ==
    /\ worker.pc = "emit" /\ result # "removed"
    /\ result' = "torn"
    /\ Become("write")
    /\ UNCHANGED <<windows, world, call, brep, out, err, policyVars>>

EmitWrites ==
    /\ worker.pc = "write"
    /\ result' = IF result = "torn" THEN worker.payload ELSE result
    /\ Become("print")
    /\ UNCHANGED <<windows, world, call, brep, out, err, policyVars>>

\* For want of memory, of disk or of the directory: a traceback on stderr.
EmitFails ==
    /\ worker.pc \in {"emit", "write"}
    /\ err' = IF "memory" \in world THEN {"memory", "error"} ELSE {"error"}
    /\ Exit("plain")
    /\ UNCHANGED <<windows, world, call, result, brep, out, policyVars>>

\* The last thing a worker does, unless the libraries crash as it ends.
PrintBlob ==
    /\ worker.pc = "print"
    /\ out' = Append(out, "blob")
    /\ \/ Exit("plain")
       \/ "crash" \in world /\ Exit("signal")
    /\ UNCHANGED <<windows, world, call, result, brep, err, policyVars>>

-----------------------------------------------------------------------------
(* The environment.                                                        *)

\* VTK, OCP and CadQuery print uninvited.
Chat ==
    /\ worker.pc \in {"boot", "import", "user", "export"}
    /\ Len(out) < MaxChatter
    /\ \E c \in Chatter : out' = Append(out, c)
    /\ UNCHANGED <<windows, world, call, worker, result, brep, err, policyVars>>

\* The system kills the process, or an allocation that fails in a library
\* aborts it.
OutOfMemory ==
    /\ "memory" \in world /\ Living
    /\ Exit("kill") \/ Exit("signal")
    /\ UNCHANGED <<windows, world, call, ioVars, policyVars>>

\* Or an exception ends it, where nothing catches one: a MemoryError, or an
\* ImportError that may name its cause.
FailsForMemory ==
    /\ "memory" \in world
    /\ worker.pc \in {"import", "boot", "job", "guards"}
    /\ err' \in {{"error"}, {"memory", "error"}}
    /\ Exit("plain")
    /\ UNCHANGED <<windows, world, call, result, brep, out, policyVars>>

Crash ==
    /\ "crash" \in world
    /\ worker.pc \in {"import", "user", "export", "save"}
    /\ Exit("signal")
    /\ UNCHANGED <<windows, world, call, ioVars, policyVars>>

\* A reset or a sweep removes what there is in the session's directory.
Cleaned ==
    /\ "cleaned" \in world /\ call.pc = "communicate"
    /\ result' = "removed" /\ brep' = "removed"
    /\ UNCHANGED <<windows, world, call, worker, out, err, policyVars>>

-----------------------------------------------------------------------------
(* The parent makes a reply.                                               *)

\* _read_result: "none" when there is no file or what is in it is not whole.
ReadResult == IF result \in {"torn", "removed"} THEN "none" ELSE result

\* The last line of stdout that json.loads takes.
Fallback ==
    LET json == {i \in DOMAIN out : out[i] # "text"}
    IN IF json = {} THEN "none"
       ELSE out[CHOOSE i \in json : \A j \in json : j <= i]

\* _no_output_result.
NoOutput ==
    IF "memory" \in err \/ worker.exit = "kill"
    THEN "MemoryError" ELSE "SandboxError"

\* Mutant: a process that died by a signal is not asked what it reported.
ReplyByCode ==
    IF worker.exit \in {"kill", "signal"} THEN NoOutput
    ELSE IF ReadResult # "none" THEN ReadResult
    ELSE CASE Fallback = "blob"   -> worker.payload
           [] Fallback = "number" -> "raised"
           [] OTHER               -> NoOutput

\* communicate returns: the file is the protocol, stdout the fallback.  Asking
\* for a field of what is no object raises.
Reply ==
    IF ReadResult # "none" THEN ReadResult
    ELSE CASE Fallback = "blob"   -> worker.payload
           [] Fallback = "number" -> "raised"
           [] OTHER               -> NoOutput

Collect ==
    /\ call.pc = "communicate" /\ worker.pc = "gone"
    /\ Answered(Reply)
    /\ UNCHANGED <<windows, world, worker, ioVars, policyVars>>

\* Whatever has been written by now is not looked at.
TimeOut ==
    /\ call.pc = "communicate" /\ worker.pc # "gone"
    /\ Exit("kill")
    /\ Answered("TimeoutError")
    /\ UNCHANGED <<windows, world, ioVars, policyVars>>

-----------------------------------------------------------------------------

Parent == HandOut \/ SpawnCold \/ SpawnFails \/ Collect \/ TimeOut

Worker ==
    \/ ImportCadQuery \/ Boot \/ ReadJob \/ InstallGuard
    \/ UserTries \/ UserRaises \/ UserExits \/ UserEnds
    \/ ExportBegins \/ ExportEnds
    \/ EmitOpens \/ EmitWrites \/ EmitFails \/ PrintBlob

Environment == Chat \/ OutOfMemory \/ FailsForMemory \/ Crash \/ Cleaned

Next == Parent \/ Worker \/ Environment

Spec == Init /\ [][Next]_vars

-----------------------------------------------------------------------------
(* Properties.                                                             *)

\* "Only a successful run is promoted onto the part" (execute_cad): a success
\* is reported only of code that ran to its end and whose export came to its
\* end after it, whenever the worker is killed and whatever it printed.  That
\* the file is whole does not follow: exportBrep may have left it short without
\* an exception, or a reset may have removed it.
OkMeansExported ==
    call.reply = "ok" =>
        worker.payload = "ok" /\ brep \in {"whole", "short", "removed"}

\* "A caller asking for something tighter gets a cold worker rather than a
\* silently weaker limit": user code runs under the caller's cap, warm or
\* cold, unless the platform refuses to set limits.
CapIsHonoured ==
    worker.pc \in {"user", "export"} /\ "nolimit" \notin world =>
        0 < worker.cap /\ worker.cap <= call.asked

\* "The result file is the protocol": a report that was written to its end is
\* what run replies, whatever kills the worker after that, whatever libraries
\* print on stdout, and whatever its return code and stderr look like.  Only
\* the timeout comes first.
ReportIsTheReply ==
    call.pc = "done" /\ call.reply # "TimeoutError" /\ result \in Payloads =>
        call.reply = result /\ worker.payload = result

\* "A memory-limit kill looks like a signal death or a MemoryError on stderr;
\* reporting it as a generic SandboxError left the LLM with nothing to act on"
\* (_no_output_result): where libraries do not crash by themselves, a worker
\* that dies of a signal is not called a SandboxError.  This is not so when an
\* allocation that fails in a library aborts the process.
MemoryIsNamed ==
    call.reply = "SandboxError" /\ "crash" \notin world =>
        worker.exit # "signal"

\* run returns a SandboxResult, unless a process cannot be started: this is
\* not so when a library prints a line that is a number and the worker dies.
RunReturns == call.reply = "raised" => "nostart" \in world

=============================================================================
