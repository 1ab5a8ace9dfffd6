-------------------------- MODULE SandboxRunProofs --------------------------
(***************************************************************************)
(* Proofs about SandboxRun, for any modules, caps and events: user code is *)
(* confined and under its caller's cap, a success is reported only of      *)
(* geometry that was exported, and a whole report is the reply.            *)
(***************************************************************************)
EXTENDS SandboxRun, TLAPS

-----------------------------------------------------------------------------
(* The policy.                                                             *)

Full == Len(installed) = 4

\* What the guards have seen to, as far as they are installed, in their order;
\* and the flag is up exactly while a path is being checked, one at a time.
GuardInv ==
    /\ PolicyTypeOK
    /\ Len(installed) <= 4
    /\ \A i \in DOMAIN installed : installed[i] = GuardOrder[i]
    /\ ~ Full => modules = Resident
    /\ Len(installed) > 0 => blocked = Resident \intersect Sockets
    /\ Full => modules \intersect Denied = {}
    /\ Len(checks) = IF resolving THEN 1 ELSE 0
    /\ \A op \in effect : op \in PathOp /\ (op.seen => ~ PathRefused(op))

\* How far a worker's process is says how far its guards are.
StageInv ==
    /\ worker.pc \in {"none", "ready", "boot", "import", "job"} =>
          Len(installed) = 0
    /\ worker.pc = "guards" => ~ Full
    /\ worker.pc = "user" => Full

LEMMA OrderFacts ==
    /\ Len(GuardOrder) = 4 /\ DOMAIN GuardOrder = 1 .. 4
    /\ \A i \in 1 .. 4 : GuardOrder[i] \in Guards
    /\ GuardOrder[1] = "network" /\ GuardOrder[2] = "process"
    /\ \A i \in 1 .. 4 : GuardOrder[i] = "network" <=> i = 1
    /\ \A i \in 1 .. 4 : GuardOrder[i] = "import" <=> i = 4
BY DEF GuardOrder, Guards

LEMMA InstallKeeps ==
    ASSUME GuardInv, Install
    PROVE  GuardInv' /\ Len(installed') = Len(installed) + 1
<1> DEFINE n == Len(installed)
           g == GuardOrder[n + 1]
<1>1. /\ n \in 0 .. 3 /\ installed \in Seq(Guards) /\ g \in Guards
      /\ installed' = Append(installed, g) /\ modules = Resident
      /\ UNCHANGED <<checks, resolving, effect>>
  <2>1. installed \in Seq(Guards) /\ n < 4
    BY OrderFacts DEF GuardInv, PolicyTypeOK, Install
  <2>2. n \in 0 .. 3 /\ n + 1 \in 1 .. 4
    <3>1. n \in Nat
      BY <2>1
    <3>2. \A k \in Nat : k < 4 => k \in 0 .. 3 /\ k + 1 \in 1 .. 4
      OBVIOUS
    <3>3. QED
      BY <2>1, <3>1, <3>2
  <2>3. g \in Guards
    BY <2>2, OrderFacts
  <2>4. modules = Resident
    <3>1. n # 4
      <4>1. \A k \in 0 .. 3 : k # 4
        OBVIOUS
      <4>2. QED
        BY <2>2, <4>1
    <3>2. QED
      BY <3>1 DEF GuardInv, Full
  <2>5. QED
    BY <2>1, <2>2, <2>3, <2>4 DEF Install
<1>2. /\ installed' \in Seq(Guards) /\ Len(installed') = n + 1
      /\ \A i \in DOMAIN installed' : installed'[i] = GuardOrder[i]
  BY <1>1 DEF GuardInv
<1>3. blocked' = Resident \intersect Sockets
  <2>1. CASE n = 0
    BY <1>1, <2>1, OrderFacts DEF Install
  <2>2. CASE n # 0
    <3>1. g # "network" /\ n > 0
      BY <1>1, <2>2, OrderFacts
    <3>2. QED
      BY <3>1 DEF Install, GuardInv
  <2>3. QED
    BY <2>1, <2>2
<1>4. modules' = IF n = 3 THEN Resident \ Denied ELSE Resident
  BY <1>1, OrderFacts DEF Install
<1>5. PolicyTypeOK'
  BY <1>1, <1>2, <1>3, <1>4, SandboxPolicyAssumption
     DEF GuardInv, PolicyTypeOK
<1>6. QED
  BY <1>1, <1>2, <1>3, <1>4, <1>5 DEF GuardInv, PathRefused, Full

\* Whatever the user's code tries once the guards are up.
LEMMA AttemptKeeps ==
    ASSUME GuardInv, Full, Attempt
    PROVE  GuardInv' /\ UNCHANGED installed
<1>1. /\ PolicyTypeOK /\ Len(installed) > 0 /\ Installed("process")
  BY OrderFacts DEF GuardInv, Full, Installed, PolicyTypeOK
<1>2. OpenSockets = {}
  BY <1>1 DEF GuardInv, OpenSockets
<1>3. CASE \E op \in PathOp : CheckBegins(op)
  <2>1. PICK op \in PathOp : CheckBegins(op)
    BY <1>3
  <2>2. CASE resolving
    <3>1. checks # <<>>
      BY <2>2 DEF GuardInv
    <3>2. UNCHANGED policyVars
      BY <2>1, <2>2, <3>1 DEF CheckBegins, policyVars
    <3>3. QED
      BY <3>2 DEF GuardInv, PolicyTypeOK, Full, policyVars, PathRefused
  <2>3. CASE ~ resolving
    <3>1. checks = <<>>
      BY <1>1, <2>3 DEF GuardInv, PolicyTypeOK, Full
    <3>2. checks' = <<op>> /\ resolving'
      BY <2>1, <2>3, <3>1 DEF CheckBegins
    <3>3. UNCHANGED <<installed, modules, blocked, effect>>
      BY <2>1, <2>3 DEF CheckBegins
    <3>4. checks' \in Seq(PathOp) /\ Len(checks') = 1 /\ resolving' \in BOOLEAN
      BY <2>1, <2>3, <3>2 DEF CheckBegins
    <3>5. QED
      BY <3>2, <3>3, <3>4 DEF GuardInv, PolicyTypeOK, Full, PathRefused
  <2>4. QED
    BY <2>2, <2>3
<1>4. CASE CheckEnds
  <2>1. checks # <<>> /\ checks \in Seq(PathOp) /\ Len(checks) = 1
    BY <1>1, <1>4 DEF CheckEnds, GuardInv, PolicyTypeOK, Full
  <2>2. Head(checks) \in PathOp /\ Tail(checks) = <<>>
    <3>1. /\ Head(checks) \in PathOp
          /\ Tail(checks) \in Seq(PathOp) /\ Len(Tail(checks)) = 0
      BY <2>1
    <3>2. \A s \in Seq(PathOp) : Len(s) = 0 => s = <<>>
      OBVIOUS
    <3>3. QED
      BY <3>1, <3>2
  <2>3. /\ checks' = <<>> /\ resolving' = FALSE
        /\ effect' = IF PathRefused(Head(checks)) THEN {} ELSE {Head(checks)}
        /\ UNCHANGED <<installed, modules, blocked>>
    BY <1>4, <2>2 DEF CheckEnds
  <2>4. \A op \in effect' : op \in PathOp /\ ~ PathRefused(op)
    BY <2>2, <2>3
  <2>5. checks' \in Seq(PathOp) /\ Len(checks') = 0
    BY <2>3
  <2>6. PolicyTypeOK'
    BY <1>1, <2>3, <2>4, <2>5 DEF PolicyTypeOK
  <2>7. \A op \in effect' : op \in PathOp /\ ~ PathRefused(op)'
    BY <2>4 DEF PathRefused
  <2>8. Len(checks') = IF resolving' THEN 1 ELSE 0
    BY <2>3, <2>5
  <2>9. QED
    BY <2>3, <2>6, <2>7, <2>8 DEF GuardInv, Full
<1>5. CASE \E op \in ImportOp : Import(op)
  <2>1. PICK op \in ImportOp : Import(op)
    BY <1>5
  <2>2. modules' \subseteq Modules /\ modules' \intersect Denied = {}
    BY <1>1, <2>1
       DEF Import, ImportOp, ImportRefused, GuardInv, PolicyTypeOK, Full
  <2>3. UNCHANGED <<installed, blocked, checks, resolving, effect>>
    BY <2>1 DEF Import
  <2>4. QED
    BY <2>2, <2>3 DEF GuardInv, PolicyTypeOK, Full, PathRefused
<1>6. CASE \E op \in OtherOp : Other(op)
  <2>1. /\ effect' = {}
        /\ UNCHANGED <<installed, modules, blocked, checks, resolving>>
    BY <1>1, <1>2, <1>6 DEF Other
  <2>2. QED
    BY <2>1 DEF GuardInv, PolicyTypeOK, Full
<1>7. CASE \E op \in PathOp : Unseen(op)
  <2>1. PICK op \in PathOp : ~ op.seen /\ effect' = {op}
    BY <1>7 DEF Unseen
  <2>2. UNCHANGED <<installed, modules, blocked, checks, resolving>>
    BY <1>7 DEF Unseen
  <2>3. PolicyTypeOK'
    BY <1>1, <2>1, <2>2 DEF PolicyTypeOK
  <2>4. QED
    BY <2>1, <2>2, <2>3 DEF GuardInv, Full
<1>8. QED
  BY <1>3, <1>4, <1>5, <1>6, <1>7 DEF Attempt

-----------------------------------------------------------------------------
(* The call and the worker's process.                                      *)

IOTypeOK ==
    /\ windows \in BOOLEAN
    /\ world \in Worlds
    /\ call \in [pc : {"start", "communicate", "done"}, asked : Caps,
                 reply : Replies \union {"none"}]
    /\ worker \in Process
    /\ result \in Payloads \union {"none", "torn", "removed"}
    /\ brep \in {"none", "torn", "whole", "short", "removed"}
    /\ out \in Seq(Chatter \union {"blob"})
    /\ err \subseteq {"memory", "error"}

\* When there is a worker at work; and its cap before it has read the job, and
\* after.
CapInv ==
    /\ call.pc = "start" => worker.pc \in {"none", "ready"}
    /\ call.pc = "communicate" => worker.pc \notin {"none", "ready"}
    /\ "nolimit" \notin world =>
          /\ worker.pc = "ready" => worker.cap = DefaultCap
          /\ worker.pc # "none" => worker.cap > 0
          /\ worker.pc = "boot" /\ windows => worker.cap <= call.asked
          /\ worker.pc \notin {"none", "ready", "boot", "gone"} =>
                worker.cap <= call.asked

\* What a payload says about the geometry; what is in the result file, and in a
\* reply, is the payload.
BuiltInv ==
    /\ worker.pc \notin {"emit", "write", "print", "gone"} =>
          worker.payload = "none"
    /\ worker.pc = "save" => brep \in {"torn", "removed"}
    /\ worker.payload = "ok" => brep \in {"whole", "short", "removed"}
    /\ result \in Payloads =>
          result = worker.payload /\ worker.pc \in {"print", "gone"}
    /\ call.pc # "done" => call.reply = "none"
    /\ call.reply = "ok" => worker.payload = "ok" /\ worker.pc = "gone"

Core == IOTypeOK /\ CapInv /\ BuiltInv

\* When the call is over no worker is at work on it, and the report counted.
RepliedInv ==
    /\ call.pc = "done" => worker.pc \in {"none", "ready", "gone"}
    /\ ReportIsTheReply

LEMMA ExitType ==
    ASSUME worker \in Process, NEW code \in {"plain", "kill", "signal"},
           Exit(code)
    PROVE  worker' \in Process
BY DEF Exit, Process

LEMMA EmitType ==
    ASSUME worker \in Process, NEW p \in Payloads, EmitNext(p)
    PROVE  worker' \in Process
BY DEF EmitNext, Process

LEMMA AnswerType ==
    ASSUME IOTypeOK, NEW r \in Replies \union {"none"}, Answered(r)
    PROVE  call' \in [pc : {"start", "communicate", "done"}, asked : Caps,
                      reply : Replies \union {"none"}]
BY DEF IOTypeOK, Answered

\* The parent's steps: a reused worker has a cap it may go below, or on Windows
\* one that is tight enough; a success is read from the file or the blob.
LEMMA ParentKeeps ==
    ASSUME Core, Parent
    PROVE  Core'
<1>1. CASE HandOut
  <2>1. IOTypeOK'
    BY <1>1, SandboxRunAssumption
       DEF HandOut, Become, Reusable, Core, IOTypeOK, Process,
           Payloads, Replies, ioVars
  <2>2. CapInv'
    BY <1>1, SandboxRunAssumption
       DEF HandOut, Become, Reusable, Core, IOTypeOK, Process,
           CapInv, ioVars
  <2>3. BuiltInv'
    BY <1>1, SandboxRunAssumption
       DEF HandOut, Become, Reusable, Core, IOTypeOK, Process,
           Payloads, BuiltInv, ioVars
  <2>4. QED
    BY <2>1, <2>2, <2>3 DEF Core
<1>2. CASE SpawnCold
  <2>1. IOTypeOK'
    BY <1>2, SandboxRunAssumption
       DEF SpawnCold, NoProcess, Limited, NeedsCold, Core, IOTypeOK,
           Process, Payloads, Replies, ioVars
  <2>2. CapInv'
    BY <1>2, SandboxRunAssumption
       DEF SpawnCold, NoProcess, Limited, NeedsCold, Core, IOTypeOK,
           Process, CapInv, ioVars
  <2>3. BuiltInv'
    BY <1>2, SandboxRunAssumption
       DEF SpawnCold, NoProcess, Limited, NeedsCold, Core, IOTypeOK,
           Process, Payloads, CapInv, BuiltInv, ioVars
  <2>4. QED
    BY <2>1, <2>2, <2>3 DEF Core
<1>3. CASE SpawnFails
  <2>1. IOTypeOK'
    BY <1>3, AnswerType DEF SpawnFails, Core, IOTypeOK, Replies, ioVars
  <2>2. CapInv'
    BY <1>3, SandboxRunAssumption
       DEF SpawnFails, Answered, NeedsCold, Core, IOTypeOK, Process,
           CapInv, ioVars
  <2>3. BuiltInv'
    BY <1>3, SandboxRunAssumption
       DEF SpawnFails, Answered, NeedsCold, Core, IOTypeOK, Process,
           Payloads, BuiltInv, ioVars
  <2>4. QED
    BY <2>1, <2>2, <2>3 DEF Core
<1>4. CASE Collect
  <2>1. IOTypeOK'
    <3>1. ReadResult \in Payloads \union {"none"}
      BY DEF ReadResult, Core, IOTypeOK
    <3>2. worker.payload \in Payloads \union {"none"}
      BY DEF Core, IOTypeOK, Process
    <3>3. Reply \in Replies \union {"none"}
      BY <3>1, <3>2 DEF Reply, NoOutput, Replies, Payloads
    <3>4. QED
      BY <1>4, <3>3, AnswerType DEF Collect, Core, IOTypeOK, ioVars
  <2>2. CapInv'
    BY <1>4, SandboxRunAssumption
       DEF Collect, Answered, Reply, ReadResult, NoOutput, Core,
           IOTypeOK, Process, CapInv, ioVars
  <2>3. BuiltInv'
    BY <1>4, SandboxRunAssumption
       DEF Collect, Answered, Reply, ReadResult, NoOutput, Core,
           IOTypeOK, Process, Payloads, BuiltInv, ioVars
  <2>4. QED
    BY <2>1, <2>2, <2>3 DEF Core
<1>5. CASE TimeOut
  <2>1. IOTypeOK'
    BY <1>5, SandboxRunAssumption
       DEF TimeOut, Exit, Answered, Core, IOTypeOK, Process,
           Payloads, Replies, ioVars
  <2>2. CapInv'
    <3>1. worker'.pc = "gone" /\ worker'.cap = worker.cap
      BY <1>5 DEF TimeOut, Exit, Core, IOTypeOK, Process
    <3>2. call'.pc = "done" /\ UNCHANGED world
      BY <1>5 DEF TimeOut, Answered, Core, IOTypeOK
    <3>3. QED
      BY <1>5, <3>1, <3>2 DEF TimeOut, Core, CapInv
  <2>3. BuiltInv'
    BY <1>5, SandboxRunAssumption
       DEF TimeOut, Exit, Answered, Core, IOTypeOK, Process,
           Payloads, BuiltInv, ioVars
  <2>4. QED
    BY <2>1, <2>2, <2>3 DEF Core
<1>6. QED
  BY <1>1, <1>2, <1>3, <1>4, <1>5 DEF Parent

\* The worker's steps: one after the other up to the report.
LEMMA WorkerKeeps ==
    ASSUME Core, Worker
    PROVE  Core'
<1>1. CASE Boot
  <2>1. IOTypeOK'
    <3>1. Lowered \in Caps \union {0}
      BY DEF Lowered, Core, IOTypeOK, Process
    <3>2. worker' \in Process
      BY <1>1, <3>1 DEF Boot, Core, IOTypeOK, Process
    <3>3. QED
      BY <1>1, <3>2 DEF Boot, Core, IOTypeOK, ioVars
  <2>2. CapInv'
    BY <1>1, SandboxRunAssumption
       DEF Boot, Lowered, Core, IOTypeOK, Process, CapInv, ioVars
  <2>3. BuiltInv'
    BY <1>1, SandboxRunAssumption
       DEF Boot, Lowered, Core, IOTypeOK, Process, Payloads,
           BuiltInv, ioVars
  <2>4. QED
    BY <2>1, <2>2, <2>3 DEF Core
<1>2. CASE ReadJob
  <2>1. IOTypeOK'
    BY <1>2, SandboxRunAssumption
       DEF ReadJob, Become, Core, IOTypeOK, Process, Payloads,
           Replies, ioVars
  <2>2. CapInv'
    BY <1>2, SandboxRunAssumption
       DEF ReadJob, Become, Core, IOTypeOK, Process, CapInv, ioVars
  <2>3. BuiltInv'
    BY <1>2, SandboxRunAssumption
       DEF ReadJob, Become, Core, IOTypeOK, Process, Payloads,
           BuiltInv, ioVars
  <2>4. QED
    BY <2>1, <2>2, <2>3 DEF Core
<1>3. CASE InstallGuard
  <2>1. IOTypeOK'
    BY <1>3, SandboxRunAssumption
       DEF InstallGuard, Become, Core, IOTypeOK, Process, Payloads,
           Replies, ioVars
  <2>2. CapInv'
    BY <1>3, SandboxRunAssumption
       DEF InstallGuard, Become, Core, IOTypeOK, Process, CapInv,
           ioVars
  <2>3. BuiltInv'
    BY <1>3, SandboxRunAssumption
       DEF InstallGuard, Become, Core, IOTypeOK, Process, Payloads,
           BuiltInv, ioVars
  <2>4. QED
    BY <2>1, <2>2, <2>3 DEF Core
<1>4. CASE UserTries
  <2>1. IOTypeOK'
    BY <1>4, SandboxRunAssumption
       DEF UserTries, Core, IOTypeOK, Process, Payloads, Replies,
           ioVars
  <2>2. CapInv'
    BY <1>4, SandboxRunAssumption
       DEF UserTries, Core, IOTypeOK, Process, CapInv, ioVars
  <2>3. BuiltInv'
    BY <1>4, SandboxRunAssumption
       DEF UserTries, Core, IOTypeOK, Process, Payloads, BuiltInv,
           ioVars
  <2>4. QED
    BY <2>1, <2>2, <2>3 DEF Core
<1>5. CASE UserRaises
  <2>1. IOTypeOK'
    <3>1. worker' \in Process
      BY <1>5, EmitType DEF UserRaises, Core, IOTypeOK, Payloads
    <3>2. QED
      BY <1>5, <3>1 DEF UserRaises, Core, IOTypeOK, ioVars
  <2>2. CapInv'
    BY <1>5, SandboxRunAssumption
       DEF UserRaises, EmitNext, Core, IOTypeOK, Process, CapInv,
           ioVars
  <2>3. BuiltInv'
    BY <1>5, SandboxRunAssumption
       DEF UserRaises, EmitNext, Core, IOTypeOK, Process, Payloads,
           BuiltInv, ioVars
  <2>4. QED
    BY <2>1, <2>2, <2>3 DEF Core
<1>6. CASE UserExits
  <2>1. IOTypeOK'
    BY <1>6, SandboxRunAssumption
       DEF UserExits, Exit, Core, IOTypeOK, Process, Payloads,
           Replies, ioVars
  <2>2. CapInv'
    BY <1>6, SandboxRunAssumption
       DEF UserExits, Exit, Core, IOTypeOK, Process, CapInv, ioVars
  <2>3. BuiltInv'
    BY <1>6, SandboxRunAssumption
       DEF UserExits, Exit, Core, IOTypeOK, Process, Payloads,
           BuiltInv, ioVars
  <2>4. QED
    BY <2>1, <2>2, <2>3 DEF Core
<1>7. CASE UserEnds
  <2>1. IOTypeOK'
    <3>1. worker' \in Process
      <4>1. CASE Become("export")
        BY <4>1 DEF Become, Process, Core, IOTypeOK
      <4>2. CASE EmitNext("NameError") \/ EmitNext("TypeError")
        BY <4>2, EmitType DEF Core, IOTypeOK, Payloads
      <4>3. QED
        BY <1>7, <4>1, <4>2 DEF UserEnds
    <3>2. QED
      BY <1>7, <3>1 DEF UserEnds, Core, IOTypeOK, ioVars
  <2>2. CapInv'
    BY <1>7, SandboxRunAssumption
       DEF UserEnds, EmitNext, Become, Core, IOTypeOK, Process,
           CapInv, ioVars
  <2>3. BuiltInv'
    BY <1>7, SandboxRunAssumption
       DEF UserEnds, EmitNext, Become, Core, IOTypeOK, Process,
           Payloads, BuiltInv, ioVars
  <2>4. QED
    BY <2>1, <2>2, <2>3 DEF Core
<1>8. CASE ExportBegins
  <2>1. IOTypeOK'
    BY <1>8, SandboxRunAssumption
       DEF ExportBegins, Become, Core, IOTypeOK, Process, Payloads,
           Replies, ioVars
  <2>2. CapInv'
    BY <1>8, SandboxRunAssumption
       DEF ExportBegins, Become, Core, IOTypeOK, Process, CapInv,
           ioVars
  <2>3. BuiltInv'
    BY <1>8, SandboxRunAssumption
       DEF ExportBegins, Become, Core, IOTypeOK, Process, Payloads,
           BuiltInv, ioVars
  <2>4. QED
    BY <2>1, <2>2, <2>3 DEF Core
<1>9. CASE ExportEnds
  <2>1. IOTypeOK'
    <3>1. worker' \in Process
      BY <1>9, EmitType DEF ExportEnds, Core, IOTypeOK, Payloads
    <3>2. QED
      BY <1>9, <3>1, SandboxRunAssumption DEF ExportEnds, Core, IOTypeOK
  <2>2. CapInv'
    BY <1>9, SandboxRunAssumption
       DEF ExportEnds, EmitNext, Core, IOTypeOK, Process, CapInv,
           ioVars
  <2>3. BuiltInv'
    BY <1>9, SandboxRunAssumption
       DEF ExportEnds, EmitNext, Core, IOTypeOK, Process, Payloads,
           BuiltInv, ioVars
  <2>4. QED
    BY <2>1, <2>2, <2>3 DEF Core
<1>10. CASE EmitOpens
  <2>1. IOTypeOK'
    BY <1>10, SandboxRunAssumption
       DEF EmitOpens, Become, Core, IOTypeOK, Process, Payloads,
           Replies, ioVars
  <2>2. CapInv'
    BY <1>10, SandboxRunAssumption
       DEF EmitOpens, Become, Core, IOTypeOK, Process, CapInv, ioVars
  <2>3. BuiltInv'
    BY <1>10, SandboxRunAssumption
       DEF EmitOpens, Become, Core, IOTypeOK, Process, Payloads,
           BuiltInv, ioVars
  <2>4. QED
    BY <2>1, <2>2, <2>3 DEF Core
<1>11. CASE EmitWrites
  <2>1. IOTypeOK'
    BY <1>11, SandboxRunAssumption
       DEF EmitWrites, Become, Core, IOTypeOK, Process, Payloads,
           Replies, ioVars
  <2>2. CapInv'
    BY <1>11, SandboxRunAssumption
       DEF EmitWrites, Become, Core, IOTypeOK, Process, CapInv,
           ioVars
  <2>3. BuiltInv'
    BY <1>11, SandboxRunAssumption
       DEF EmitWrites, Become, Core, IOTypeOK, Process, Payloads,
           BuiltInv, ioVars
  <2>4. QED
    BY <2>1, <2>2, <2>3 DEF Core
<1>12. CASE EmitFails
  <2>1. IOTypeOK'
    BY <1>12, SandboxRunAssumption
       DEF EmitFails, Exit, Core, IOTypeOK, Process, Payloads,
           Replies, ioVars
  <2>2. CapInv'
    BY <1>12, SandboxRunAssumption
       DEF EmitFails, Exit, Core, IOTypeOK, Process, CapInv, ioVars
  <2>3. BuiltInv'
    BY <1>12, SandboxRunAssumption
       DEF EmitFails, Exit, Core, IOTypeOK, Process, Payloads,
           BuiltInv, ioVars
  <2>4. QED
    BY <2>1, <2>2, <2>3 DEF Core
<1>13. CASE PrintBlob
  <2>1. IOTypeOK'
    <3>1. out' \in Seq(Chatter \union {"blob"})
      BY <1>13 DEF PrintBlob, Core, IOTypeOK
    <3>2. QED
      BY <1>13, <3>1, ExitType DEF PrintBlob, Core, IOTypeOK
  <2>2. CapInv'
    BY <1>13, SandboxRunAssumption
       DEF PrintBlob, Exit, Core, IOTypeOK, Process, CapInv, ioVars
  <2>3. BuiltInv'
    BY <1>13, SandboxRunAssumption
       DEF PrintBlob, Exit, Core, IOTypeOK, Process, Payloads,
           BuiltInv, ioVars
  <2>4. QED
    BY <2>1, <2>2, <2>3 DEF Core
<1>14. CASE ImportCadQuery
  <2>1. IOTypeOK'
    BY <1>14 DEF ImportCadQuery, Become, Core, IOTypeOK, Process, ioVars
  <2>2. CapInv'
    BY <1>14 DEF ImportCadQuery, Become, Core, IOTypeOK, Process, CapInv
  <2>3. BuiltInv'
    BY <1>14
       DEF ImportCadQuery, Become, Core, IOTypeOK, Process, Payloads,
           BuiltInv, ioVars
  <2>4. QED
    BY <2>1, <2>2, <2>3 DEF Core
<1>15. QED
  BY <1>1, <1>2, <1>3, <1>4, <1>5, <1>6, <1>7, <1>8, <1>9, <1>10, <1>11,
     <1>12, <1>13, <1>14 DEF Worker

\* What befalls the worker and its files.
LEMMA EnvironmentKeeps ==
    ASSUME Core, Environment
    PROVE  Core'
<1>1. CASE Chat
  <2>1. IOTypeOK'
    BY <1>1, SandboxRunAssumption
       DEF Chat, Core, IOTypeOK, Process, Payloads, Replies, ioVars
  <2>2. CapInv'
    BY <1>1, SandboxRunAssumption
       DEF Chat, Core, IOTypeOK, Process, CapInv, ioVars
  <2>3. BuiltInv'
    BY <1>1, SandboxRunAssumption
       DEF Chat, Core, IOTypeOK, Process, Payloads, BuiltInv, ioVars
  <2>4. QED
    BY <2>1, <2>2, <2>3 DEF Core
<1>2. CASE OutOfMemory
  <2>1. IOTypeOK'
    BY <1>2, ExitType DEF OutOfMemory, Core, IOTypeOK, ioVars
  <2>2. CapInv'
    BY <1>2, SandboxRunAssumption
       DEF OutOfMemory, Exit, Living, Core, IOTypeOK, Process,
           CapInv, ioVars
  <2>3. BuiltInv'
    BY <1>2, SandboxRunAssumption
       DEF OutOfMemory, Exit, Living, Core, IOTypeOK, Process,
           Payloads, BuiltInv, ioVars
  <2>4. QED
    BY <2>1, <2>2, <2>3 DEF Core
<1>3. CASE Crash
  <2>1. IOTypeOK'
    BY <1>3, ExitType DEF Crash, Core, IOTypeOK, ioVars
  <2>2. CapInv'
    BY <1>3, SandboxRunAssumption
       DEF Crash, Exit, Core, IOTypeOK, Process, CapInv, ioVars
  <2>3. BuiltInv'
    BY <1>3, SandboxRunAssumption
       DEF Crash, Exit, Core, IOTypeOK, Process, Payloads, BuiltInv,
           ioVars
  <2>4. QED
    BY <2>1, <2>2, <2>3 DEF Core
<1>4. CASE Cleaned
  <2>1. IOTypeOK'
    BY <1>4, SandboxRunAssumption
       DEF Cleaned, Core, IOTypeOK, Process, Payloads, Replies,
           ioVars
  <2>2. CapInv'
    BY <1>4, SandboxRunAssumption
       DEF Cleaned, Core, IOTypeOK, Process, CapInv, ioVars
  <2>3. BuiltInv'
    BY <1>4, SandboxRunAssumption
       DEF Cleaned, Core, IOTypeOK, Process, Payloads, BuiltInv,
           ioVars
  <2>4. QED
    BY <2>1, <2>2, <2>3 DEF Core
<1>5. CASE FailsForMemory
  <2>1. worker' = [worker EXCEPT !.pc = "gone", !.exit = "plain"]
    BY <1>5 DEF FailsForMemory, Exit
  <2>2. IOTypeOK'
    BY <1>5, <2>1, ExitType DEF FailsForMemory, Exit, Core, IOTypeOK
  <2>3. CapInv'
    BY <1>5, <2>1 DEF FailsForMemory, Core, IOTypeOK, Process, CapInv
  <2>4. BuiltInv'
    BY <1>5, <2>1
       DEF FailsForMemory, Core, IOTypeOK, Process, Payloads, BuiltInv
  <2>5. QED
    BY <2>2, <2>3, <2>4 DEF Core
<1>6. QED
  BY <1>1, <1>2, <1>3, <1>4, <1>5 DEF Environment

\* What the worker reported decides the reply: the file is read first, and once
\* there is a reply nothing writes to it any more.
LEMMA RepliedKeeps ==
    ASSUME Core, RepliedInv, Next
    PROVE  RepliedInv'
<1>1. CASE HandOut \/ SpawnCold
  <2>1. call'.pc = "communicate"
    BY <1>1 DEF HandOut, SpawnCold, Core, IOTypeOK
  <2>2. QED
    BY <2>1 DEF RepliedInv, ReportIsTheReply
<1>2. CASE SpawnFails
  <2>1. worker.pc \in {"none", "ready"} /\ UNCHANGED <<worker, result>>
    BY <1>2 DEF SpawnFails, NeedsCold, Core, CapInv, ioVars
  <2>2. result \notin Payloads
    BY <2>1 DEF Core, BuiltInv
  <2>3. QED
    BY <2>1, <2>2 DEF RepliedInv, ReportIsTheReply
<1>3. CASE Collect
  <2>1. /\ worker.pc = "gone" /\ UNCHANGED <<worker, result>>
        /\ call'.reply = Reply
    BY <1>3 DEF Collect, Answered, ioVars, Core, IOTypeOK
  <2>2. result \in Payloads => Reply = result /\ worker.payload = result
    BY DEF Reply, ReadResult, Payloads, Core, BuiltInv
  <2>3. QED
    BY <2>1, <2>2 DEF RepliedInv, ReportIsTheReply
<1>4. CASE TimeOut
  <2>1. worker'.pc = "gone"
    BY <1>4 DEF TimeOut, Exit, Core, IOTypeOK, Process
  <2>2. call'.reply = "TimeoutError"
    BY <1>4 DEF TimeOut, Answered, Core, IOTypeOK
  <2>3. QED
    BY <2>1, <2>2 DEF RepliedInv, ReportIsTheReply
<1>5. CASE Worker \/ Environment
  <2>1. UNCHANGED call
    BY <1>5
       DEF Worker, Environment, Boot, ImportCadQuery, ReadJob, InstallGuard,
           UserTries, UserRaises, UserExits, UserEnds, ExportBegins,
           ExportEnds, EmitOpens, EmitWrites, EmitFails, PrintBlob, Chat,
           OutOfMemory, FailsForMemory, Crash, Cleaned
  <2>2. \/ worker.pc \notin {"none", "ready", "gone"}
        \/ call.pc = "communicate"
    BY <1>5
       DEF Worker, Environment, Boot, ImportCadQuery, ReadJob, InstallGuard,
           UserTries, UserRaises, UserExits, UserEnds, ExportBegins,
           ExportEnds, EmitOpens, EmitWrites, EmitFails, PrintBlob, Chat,
           OutOfMemory, FailsForMemory, Crash, Cleaned, Living
  <2>3. call.pc # "done"
    BY <2>2 DEF RepliedInv
  <2>4. QED
    BY <2>1, <2>3 DEF RepliedInv, ReportIsTheReply
<1>6. QED
  BY <1>1, <1>2, <1>3, <1>4, <1>5 DEF Next, Parent

-----------------------------------------------------------------------------
(* Everything together.                                                    *)

Safe == Core /\ RepliedInv /\ GuardInv /\ StageInv

\* There is a spare worker with the default cap, or none.
LEMMA InitWorker ==
    ASSUME Init
    PROVE  /\ worker \in Process /\ worker.pc \in {"none", "ready"}
           /\ worker.payload = "none" /\ worker.exit = "none"
           /\ worker.pc = "ready" => worker.cap = Limited(DefaultCap)
<1>1. Limited(DefaultCap) \in Caps \union {0}
  BY SandboxRunAssumption DEF Limited
<1>2. NoProcess \in Process
  BY DEF NoProcess, Process
<1>3. CASE worker = NoProcess
  BY <1>2, <1>3 DEF NoProcess
<1>4. CASE worker = [NoProcess EXCEPT !.pc = "ready",
                                      !.cap = Limited(DefaultCap)]
  <2>1. worker = [pc |-> "ready", cap |-> Limited(DefaultCap),
                  exit |-> "none", payload |-> "none"]
    BY <1>4 DEF NoProcess
  <2>2. QED
    BY <1>1, <2>1 DEF Process
<1>5. QED
  BY <1>3, <1>4 DEF Init

LEMMA InitSafe == Init => Safe
<1> SUFFICES ASSUME Init PROVE Safe
  OBVIOUS
<1>1. /\ worker \in Process /\ worker.pc \in {"none", "ready"}
      /\ worker.payload = "none"
      /\ worker.pc = "ready" => worker.cap = Limited(DefaultCap)
  BY InitWorker
<1>2. /\ call \in [pc : {"start"}, asked : Caps, reply : {"none"}]
      /\ call.pc = "start" /\ call.reply = "none"
      /\ result = "none" /\ brep = "none" /\ out = <<>> /\ err = {}
      /\ windows \in BOOLEAN /\ world \in Worlds
  BY DEF Init
<1>3. IOTypeOK
  <2>1. call \in [pc : {"start", "communicate", "done"}, asked : Caps,
                  reply : Replies \union {"none"}]
    BY <1>2
  <2>2. out \in Seq(Chatter \union {"blob"})
    BY <1>2
  <2>3. QED
    BY <1>1, <1>2, <2>1, <2>2 DEF IOTypeOK
<1>4. CapInv
  <2>1. "nolimit" \notin world => Limited(DefaultCap) = DefaultCap
    BY DEF Limited
  <2>2. DefaultCap > 0
    BY SandboxRunAssumption
  <2>3. worker.pc = "none" \/ worker.pc = "ready"
    BY <1>1
  <2>4. QED
    BY <1>1, <1>2, <2>1, <2>2, <2>3 DEF CapInv
<1>5. BuiltInv
  BY <1>1, <1>2 DEF BuiltInv, Payloads
<1>6. installed = <<>> /\ PolicyInit
  BY DEF Init, PolicyInit
<1>7. GuardInv
  <2>1. installed \in Seq(Guards) /\ checks \in Seq(PathOp)
    BY <1>6 DEF PolicyInit
  <2>2. Len(installed) = 0 /\ Len(checks) = 0 /\ DOMAIN installed = {}
    BY <1>6 DEF PolicyInit
  <2>3. PolicyTypeOK
    BY <1>6, <2>1, SandboxPolicyAssumption DEF PolicyInit, PolicyTypeOK
  <2>4. QED
    BY <1>6, <2>2, <2>3 DEF PolicyInit, GuardInv, Full
<1>8. StageInv
  BY <1>1, <1>6 DEF StageInv
<1>9. RepliedInv
  BY <1>2 DEF RepliedInv, ReportIsTheReply
<1>10. QED
  BY <1>3, <1>4, <1>5, <1>7, <1>8, <1>9 DEF Safe, Core

\* The guards are put up between the job and the user's code; nothing but
\* these two touches them.
LEMMA GuardsKept ==
    ASSUME Safe, Next
    PROVE  GuardInv' /\ StageInv'
<1>0. worker \in Process
  BY DEF Safe, Core, IOTypeOK
<1>1. ASSUME UNCHANGED policyVars,
             \/ worker'.pc = worker.pc
             \/ worker'.pc \notin {"none", "ready", "boot", "import", "job",
                                   "guards", "user"}
             \/ /\ worker.pc \in {"none", "ready", "boot", "import"}
                /\ worker'.pc \notin {"guards", "user"}
      PROVE  GuardInv' /\ StageInv'
  <2>1. GuardInv'
    BY <1>1 DEF Safe, GuardInv, PolicyTypeOK, policyVars, PathRefused, Full
  <2>2. UNCHANGED installed /\ StageInv
    BY <1>1 DEF Safe, policyVars
  <2>3. StageInv'
    <3>1. CASE worker'.pc = worker.pc
      BY <2>2, <3>1 DEF StageInv, Full
    <3>2. CASE worker'.pc \notin {"none", "ready", "boot", "import", "job",
                                  "guards", "user"}
      BY <2>2, <3>2 DEF StageInv, Full
    <3>3. CASE /\ worker.pc \in {"none", "ready", "boot", "import"}
               /\ worker'.pc \notin {"guards", "user"}
      BY <2>2, <3>3 DEF StageInv, Full
    <3>4. QED
      BY <1>1, <3>1, <3>2, <3>3
  <2>4. QED
    BY <2>1, <2>3
<1>2. CASE Parent
  <2>1. CASE HandOut
    <3>1. worker.pc = "ready" /\ worker'.pc = "boot" /\ UNCHANGED policyVars
      BY <1>0, <2>1 DEF HandOut, Become, Process
    <3>2. QED
      BY <1>1, <3>1
  <2>2. CASE SpawnCold
    <3>1. worker.pc \in {"none", "ready"}
      BY <2>2 DEF SpawnCold, NeedsCold, Safe, Core, CapInv
    <3>2. worker'.pc = "import" /\ UNCHANGED policyVars
      BY <2>2 DEF SpawnCold, NoProcess
    <3>3. QED
      BY <1>1, <3>1, <3>2
  <2>3. CASE SpawnFails \/ Collect
    BY <1>1, <2>3 DEF SpawnFails, Collect
  <2>4. CASE TimeOut
    BY <1>0, <1>1, <2>4 DEF TimeOut, Exit, Process
  <2>5. QED
    BY <1>2, <2>1, <2>2, <2>3, <2>4 DEF Parent
<1>3. CASE Environment
  BY <1>0, <1>1, <1>3
     DEF Environment, Chat, OutOfMemory, FailsForMemory, Crash, Cleaned, Exit,
         Process
<1>4. CASE Boot \/ ImportCadQuery
  BY <1>0, <1>1, <1>4 DEF Boot, ImportCadQuery, Become, Process
<1>5. CASE ReadJob
  <2>1. worker.pc = "job" /\ worker'.pc = "guards" /\ UNCHANGED policyVars
    BY <1>0, <1>5 DEF ReadJob, Become, Process
  <2>2. QED
    BY <2>1 DEF Safe, GuardInv, StageInv, PolicyTypeOK, policyVars,
                PathRefused, Full
<1>6. CASE InstallGuard
  <2>1. GuardInv' /\ Len(installed') = Len(installed) + 1
    BY <1>6, InstallKeeps DEF InstallGuard, Safe
  <2>2. worker'.pc = IF Len(installed') = 4 THEN "user" ELSE "guards"
    BY <1>0, <1>6, OrderFacts DEF InstallGuard, Become, Process
  <2>3. QED
    BY <2>1, <2>2 DEF StageInv, Full
<1>7. CASE UserTries
  <2>1. Full /\ GuardInv
    BY <1>7 DEF UserTries, Safe, StageInv
  <2>2. GuardInv' /\ UNCHANGED installed
    BY <1>7, <2>1, AttemptKeeps DEF UserTries
  <2>3. QED
    BY <1>7, <2>2 DEF UserTries, Safe, StageInv, Full
<1>8. CASE UserRaises \/ UserExits \/ UserEnds
  BY <1>0, <1>1, <1>8
     DEF UserRaises, UserExits, UserEnds, EmitNext, Exit, Become, Process
<1>9. CASE ExportBegins \/ ExportEnds
  BY <1>0, <1>1, <1>9
     DEF ExportBegins, ExportEnds, EmitNext, Become, Process
<1>10. CASE EmitOpens \/ EmitWrites \/ EmitFails \/ PrintBlob
  BY <1>0, <1>1, <1>10
     DEF EmitOpens, EmitWrites, EmitFails, PrintBlob, Become, Exit, Process
<1>11. QED
  BY <1>2, <1>3, <1>4, <1>5, <1>6, <1>7, <1>8, <1>9, <1>10
     DEF Next, Worker

LEMMA Stutter ==
    ASSUME Safe, UNCHANGED vars
    PROVE  Safe'
BY DEF Safe, Core, IOTypeOK, CapInv, BuiltInv, RepliedInv, ReportIsTheReply,
       GuardInv, StageInv, PolicyTypeOK, vars, ioVars, policyVars, PathRefused,
       Full

LEMMA AlwaysSafe == Spec => []Safe
<1>1. Safe /\ [Next]_vars => Safe'
  <2> SUFFICES ASSUME Safe, [Next]_vars PROVE Safe'
    OBVIOUS
  <2>1. CASE Next
    <3>1. Core'
      BY <2>1, ParentKeeps, WorkerKeeps, EnvironmentKeeps DEF Safe, Next
    <3>2. RepliedInv'
      BY <2>1, RepliedKeeps DEF Safe
    <3>3. QED
      BY <2>1, <3>1, <3>2, GuardsKept DEF Safe
  <2>2. CASE UNCHANGED vars
    BY <2>2, Stutter
  <2>3. QED
    BY <2>1, <2>2
<1>2. QED
  BY InitSafe, <1>1, PTL DEF Spec

\* The state of a run stays of its type, for any modules, caps and events.
THEOREM TypeCorrect == Spec => []TypeOK
<1>1. Safe => TypeOK
  BY DEF Safe, Core, IOTypeOK, GuardInv, TypeOK
<1>2. QED
  BY <1>1, AlwaysSafe, PTL

\* User code runs under the cap that its caller asked for, in a spare worker
\* or a new one, on either platform: sandbox.run's choice of a worker and the
\* worker's lowering of its own limit together.
THEOREM CapsHonoured == Spec => []CapIsHonoured
<1>1. Safe => CapIsHonoured
  BY DEF Safe, Core, CapInv, CapIsHonoured
<1>2. QED
  BY <1>1, AlwaysSafe, PTL

\* No operation that the path policy refuses is carried out, no socket opened
\* and no process made, whatever user code tries and catches; and no denied
\* module is loaded once install_all is through.
THEOREM UserCodeConfined == Spec => []Confined
<1>1. Safe => Confined
  <2> SUFFICES ASSUME Safe PROVE Confined
    OBVIOUS
  <2>1. Installed("import") => Full
    <3>1. installed \in Seq(Guards) /\ Len(installed) <= 4
      BY DEF Safe, GuardInv, PolicyTypeOK
    <3>2. \A i \in DOMAIN installed : i \in 1 .. Len(installed)
      BY <3>1
    <3>3. \A i \in DOMAIN installed : i \in 1 .. 4
      BY <3>1, <3>2
    <3>4. \A i \in DOMAIN installed : installed[i] = "import" => i = 4
      BY <3>3, OrderFacts DEF Safe, GuardInv
    <3>5. 4 \in DOMAIN installed => Full
      <4>1. \A k \in Nat : k <= 4 /\ 4 \in 1 .. k => k = 4
        OBVIOUS
      <4>2. Len(installed) \in Nat /\ DOMAIN installed = 1 .. Len(installed)
        BY <3>1
      <4>3. QED
        BY <3>1, <4>1, <4>2 DEF Full
    <3>6. QED
      BY <3>4, <3>5 DEF Installed
  <2>2. QED
    BY <2>1 DEF Safe, GuardInv, Confined
<1>2. QED
  BY <1>1, AlwaysSafe, PTL

\* A success is reported only of code that ran to its end and whose export came
\* to its end (_run_job), also when the worker is killed between any two steps
\* and its libraries print what they like.
THEOREM SuccessIsExported == Spec => []OkMeansExported
<1>1. Safe => OkMeansExported
  BY DEF Safe, Core, BuiltInv, OkMeansExported
<1>2. QED
  BY <1>1, AlwaysSafe, PTL

\* A report that is whole in the result file is the reply, whatever happens to
\* the worker after it has been written and whatever is on stdout and stderr.
THEOREM ReportReplied == Spec => []ReportIsTheReply
<1>1. Safe => ReportIsTheReply
  BY DEF Safe, RepliedInv
<1>2. QED
  BY <1>1, AlwaysSafe, PTL

=============================================================================
