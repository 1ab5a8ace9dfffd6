----------------------------- MODULE ToolProofs -----------------------------
(***************************************************************************)
(* Proofs about the tools that write files and compute on shapes.          *)
(*                                                                         *)
(* generate_mesh: only whole files are imported, a part is recorded as a   *)
(* mesh with the good reply only, and no task is polled long after its     *)
(* deadline.                                                               *)
(* export_model: what the session lists is on disk as it was written, and  *)
(* nothing is overwritten, while no two calls hold one name.  validate_-   *)
(* mesh: the union-find comes to the connected regions.  Placement: the    *)
(* two transforms of a part are one.  canonicalise_3mf: the numbers of the *)
(* UUIDs depend on the document only.                                      *)
(*                                                                         *)
(* Induction is over the naturals below a number, from the least element   *)
(* of a set of naturals.                                                   *)
(***************************************************************************)
EXTENDS GenMesh, Exports, Shapes, FiniteSetTheorems, WellFoundedInduction, TLAPS

-----------------------------------------------------------------------------
(* Induction and loops.                                                    *)

\* Every non-empty set of naturals has a least element: the initial segments
\* below its members are finite sets, and strict inclusion is well founded.
LEMMA LeastNatural ==
    ASSUME NEW S \in SUBSET Nat, S # {}
    PROVE  \E x \in S : \A y \in S : x <= y
<1> DEFINE Below(x) == 0 .. (x - 1)
           T == {Below(x) : x \in S}
<1>1. T \subseteq FiniteSubsetsOf(Nat) /\ T # {}
  <2>1. \A x \in S : Below(x) \subseteq Nat /\ IsFiniteSet(Below(x))
    BY FS_Interval
  <2>. QED  BY <2>1 DEF FiniteSubsetsOf
<1>2. PICK b \in T : \A c \in T : ~ (<<c, b>> \in StrictSubsetOrdering(Nat))
  <2>1. IsWellFoundedOn(StrictSubsetOrdering(Nat), FiniteSubsetsOf(Nat))
    BY FS_StrictSubsetOrderingWellFounded
  <2>. HIDE DEF T
  <2>. QED  BY <1>1, <2>1, WFMin
<1>3. PICK x \in S : b = Below(x)
  OBVIOUS
<1>4. ASSUME NEW y \in S, y < x
      PROVE  FALSE
  <2>1. Below(y) \subseteq Below(x) /\ y \in Below(x) /\ y \notin Below(y)
    BY <1>4
  <2>2. <<Below(y), Below(x)>> \in StrictSubsetOrdering(Nat)
    BY <2>1 DEF StrictSubsetOrdering
  <2>. QED  BY <1>2, <1>3, <2>2
<1>. QED  BY <1>4

\* Induction up to a number, over a set in the place of a predicate.
LEMMA Induction ==
    ASSUME NEW n \in Nat, NEW S, 0 \in S,
           \A k \in 1 .. n : k - 1 \in S => k \in S
    PROVE  \A k \in 0 .. n : k \in S
<1> DEFINE T == {k \in 0 .. n : k \notin S}
<1>1. SUFFICES ASSUME T # {}
               PROVE  FALSE
  OBVIOUS
<1>2. PICK k \in T : \A m \in T : k <= m
  <2>1. T \in SUBSET Nat
    OBVIOUS
  <2> HIDE DEF T
  <2> QED
    BY <1>1, <2>1, LeastNatural
<1>3. k # 0 /\ k \in 1 .. n /\ k - 1 \in 0 .. n
  OBVIOUS
<1>4. k - 1 \notin T
  BY <1>2, <1>3
<1> QED
  BY <1>3, <1>4

\* f is the run of a loop with n rounds: it begins with b and takes one step
\* after the other.
Runs(f, n, b, step) ==
    /\ f[0] = b
    /\ \A k \in 1 .. n : f[k] = step[<<k, f[k - 1]>>]

\* Every loop has a run, and so every recursive function over a sequence a
\* solution.
LEMMA LoopsRun ==
    ASSUME NEW n \in Nat, NEW A, NEW b \in A, NEW step \in [(1 .. n) \X A -> A]
    PROVE  \E f \in [0 .. n -> A] : Runs(f, n, b, step)
<1> DEFINE Good == {k \in 0 .. n : \E f \in [0 .. k -> A] : Runs(f, k, b, step)}
<1>1. 0 \in Good
  <2> DEFINE f == [j \in 0 .. 0 |-> b]
  <2>1. f \in [0 .. 0 -> A] /\ Runs(f, 0, b, step)
    BY DEF Runs
  <2> QED
    BY <2>1
<1>2. ASSUME NEW k \in 1 .. n, k - 1 \in Good
      PROVE  k \in Good
  <2>1. PICK f \in [0 .. k - 1 -> A] : Runs(f, k - 1, b, step)
    BY <1>2
  <2> DEFINE g == [j \in 0 .. k |-> IF j = k THEN step[<<k, f[k - 1]>>]
                                    ELSE f[j]]
  <2>2. step[<<k, f[k - 1]>>] \in A
    OBVIOUS
  <2>3. g \in [0 .. k -> A]
    BY <2>2
  <2>4. g[0] = b
    BY <2>1 DEF Runs
  <2>5. ASSUME NEW j \in 1 .. k
        PROVE  g[j] = step[<<j, g[j - 1]>>]
    <3>1. CASE j = k
      <4>1. k \in 0 .. k /\ k - 1 \in 0 .. k /\ k - 1 # k
        OBVIOUS
      <4>2. g[k] = step[<<k, f[k - 1]>>] /\ g[k - 1] = f[k - 1]
        BY <4>1
      <4> HIDE DEF g
      <4> QED
        BY <3>1, <4>2
    <3>2. CASE j # k
      <4>1. j \in 1 .. k - 1 /\ j \in 0 .. k /\ j - 1 \in 0 .. k /\ j - 1 # k
        BY <3>2
      <4>2. g[j] = f[j] /\ g[j - 1] = f[j - 1]
        BY <3>2, <4>1
      <4>3. f[j] = step[<<j, f[j - 1]>>]
        BY <2>1, <4>1 DEF Runs
      <4> QED
        BY <4>2, <4>3
    <3> QED
      BY <3>1, <3>2
  <2>6. Runs(g, k, b, step)
    BY <2>4, <2>5 DEF Runs
  <2> QED
    BY <2>3, <2>6
<1> HIDE DEF Good
<1>3. n \in Good
  <2>1. \A k \in 0 .. n : k \in Good
    BY <1>1, <1>2, Induction
  <2> QED
    BY <2>1
<1> QED
  BY <1>3 DEF Good

-----------------------------------------------------------------------------
(* The waits.                                                              *)

\* No wait between two attempts is longer than RetryAfterMax.
LEMMA BackoffFacts ==
    ASSUME attempt \in 0 .. MaxRetries - 1
    PROVE  \A b \in Backoff : b \in 0 .. RetryAfterMax
<1>1. BaseDelay * 2 ^ attempt \in 0 .. RetryAfterMax
  BY MeshyAssumption
<1>2. \A r \in RetryAfters :
         (IF r < RetryAfterMax THEN r ELSE RetryAfterMax)
            \in 0 .. RetryAfterMax
  BY MeshyAssumption
<1>3. QED
  BY <1>1, <1>2 DEF Backoff

-----------------------------------------------------------------------------
(* The files and the part.                                                 *)

\* What a call has chosen to import, and done to the part, at every point.
FileInv ==
    /\ stage = "preview" => chosen = "preview"
    /\ stage = "refine" => glb["preview"] = "whole"
    /\ pc \in {"create", "poll", "get", "download", "stream"} =>
          chosen = "preview"
    /\ pc \in {"import", "sew"} => glb[chosen] = "whole"
    /\ brep \in Stages => glb[chosen] = "whole"

PartInv ==
    /\ pc # "done" => source = "before" /\ brep = "before" /\ reply = "none"
    /\ RecordFollowsReply

Safe == TypeOK /\ FileInv /\ PartInv

LEMMA InitSafe == Init => Safe
<1> SUFFICES ASSUME Init PROVE Safe
  OBVIOUS
<1>1. ClientTypeOK
  <2>1. attempt \in 0 .. MaxRetries - 1 /\ left \in Int
    BY MeshyAssumption DEF Init, ClientInit
  <2>2. glb \in [Stages -> {"none", "torn", "whole"}]
    BY DEF Init, ClientInit
  <2>3. QED
    BY <2>1, <2>2 DEF Init, ClientInit, ClientTypeOK, Stages, Replies
<1>2. TypeOK
  BY <1>1, GenMeshAssumption DEF Init, TypeOK, Stages
<1>3. FileInv /\ PartInv
  BY DEF Init, ClientInit, FileInv, PartInv, RecordFollowsReply, Stages
<1>4. QED
  BY <1>2, <1>3 DEF Safe

\* The tool's variables stand still while the client is at work.
LEMMA ClientSafe ==
    ASSUME Safe, Client
    PROVE  Safe'
<1> USE DEF Safe
<1>0. /\ pc \in {"create", "poll", "get", "download", "stream"}
      /\ UNCHANGED toolVars
  BY DEF Client, Create, CreateFails, Poll, PollTimesOut, Get, Retry,
         GetFails, Pending, PendingTooLong, TaskFailed, TaskSucceeded,
         DownloadRefused, DownloadOpens, DownloadRejected, DownloadBreaks
<1>1. /\ source = "before" /\ brep = "before" /\ reply = "none"
      /\ chosen = "preview"
      /\ source' = "before" /\ brep' = "before" /\ chosen' = "preview"
  BY <1>0 DEF FileInv, PartInv, toolVars
<1>2. ASSUME NEW r \in Replies \ {"ok"}, Fails(r),
             left' \in Int, glb' \in [Stages -> {"none", "torn", "whole"}],
             stage = "refine" => glb'["preview"] = "whole"
      PROVE  Safe'
  <2>1. TypeOK'
    BY <1>0, <1>2 DEF Fails, TypeOK, ClientTypeOK, toolVars
  <2>2. FileInv' /\ PartInv'
    BY <1>1, <1>2 DEF Fails, FileInv, PartInv, RecordFollowsReply, Stages
  <2>3. QED
    BY <2>1, <2>2
<1>3. ASSUME pc' \in {"create", "poll", "get", "download", "stream"},
             left' \in Int, attempt' \in 0 .. MaxRetries - 1, url' \in BOOLEAN,
             glb' \in [Stages -> {"none", "torn", "whole"}],
             stage = "refine" => glb'["preview"] = "whole",
             UNCHANGED <<stage, reply>>
      PROVE  Safe'
  <2>1. TypeOK'
    BY <1>0, <1>3 DEF TypeOK, ClientTypeOK, toolVars
  <2>2. FileInv' /\ PartInv'
    BY <1>1, <1>3 DEF FileInv, PartInv, RecordFollowsReply, Stages
  <2>3. QED
    BY <2>1, <2>2
<1>4. CASE Create
  BY <1>3, <1>4, MeshyAssumption
     DEF Create, Timeout, TypeOK, ClientTypeOK, FileInv
<1>5. CASE CreateFails
  BY <1>2, <1>5 DEF CreateFails, TypeOK, ClientTypeOK, FileInv, Replies
<1>6. CASE Poll
  BY <1>3, <1>6, MeshyAssumption DEF Poll, TypeOK, ClientTypeOK, FileInv
<1>7. CASE PollTimesOut
  BY <1>2, <1>7 DEF PollTimesOut, TypeOK, ClientTypeOK, FileInv, Replies
<1>8. CASE Get
  <2>1. PICK d \in 0 .. MaxLatency :
           \/ Retry(d) \/ GetFails(d) \/ Pending(d) \/ PendingTooLong(d)
           \/ TaskFailed(d) \/ TaskSucceeded(d)
    BY <1>8 DEF Get
  <2>2. d \in Int /\ left - d \in Int
    BY <2>1, MeshyAssumption DEF TypeOK, ClientTypeOK
  <2>3. CASE Retry(d)
    <3>1. left' \in Int
      BY <2>2, <2>3, BackoffFacts, MeshyAssumption
         DEF Retry, TypeOK, ClientTypeOK
    <3>2. attempt' \in 0 .. MaxRetries - 1
      BY <2>3, MeshyAssumption DEF Retry, MayRetry, TypeOK, ClientTypeOK
    <3>3. QED
      BY <1>0, <1>3, <2>3, <3>1, <3>2 DEF Retry, TypeOK, ClientTypeOK, FileInv
  <2>4. CASE GetFails(d)
    BY <1>2, <2>2, <2>4 DEF GetFails, TypeOK, ClientTypeOK, FileInv, Replies
  <2>5. CASE Pending(d)
    BY <1>3, <2>2, <2>5, MeshyAssumption
       DEF Pending, Sleep, TypeOK, ClientTypeOK, FileInv
  <2>6. CASE PendingTooLong(d)
    BY <1>2, <2>2, <2>6
       DEF PendingTooLong, TypeOK, ClientTypeOK, FileInv, Replies
  <2>7. CASE TaskFailed(d)
    BY <1>2, <2>2, <2>7 DEF TaskFailed, TypeOK, ClientTypeOK, FileInv, Replies
  <2>8. CASE TaskSucceeded(d)
    BY <1>3, <2>2, <2>8 DEF TaskSucceeded, TypeOK, ClientTypeOK, FileInv
  <2>9. QED
    BY <2>1, <2>3, <2>4, <2>5, <2>6, <2>7, <2>8
<1>9. CASE DownloadRefused
  BY <1>2, <1>9 DEF DownloadRefused, TypeOK, ClientTypeOK, FileInv, Replies
<1>10. ASSUME NEW w \in {"none", "torn"}, glb' = [glb EXCEPT ![stage] = w]
       PROVE  /\ glb' \in [Stages -> {"none", "torn", "whole"}]
              /\ stage = "refine" => glb'["preview"] = "whole"
  BY <1>10 DEF TypeOK, ClientTypeOK, FileInv, Stages
<1>11. CASE DownloadOpens
  BY <1>3, <1>10, <1>11 DEF DownloadOpens, TypeOK, ClientTypeOK
<1>12. CASE DownloadRejected
  BY <1>2, <1>10, <1>12 DEF DownloadRejected, TypeOK, ClientTypeOK, Replies
<1>13. CASE DownloadBreaks
  BY <1>2, <1>13 DEF DownloadBreaks, TypeOK, ClientTypeOK, FileInv, Replies
<1>14. QED
  BY <1>4, <1>5, <1>6, <1>7, <1>8, <1>9, <1>11, <1>12, <1>13 DEF Client

\* What is chosen and imported is a file that has just been completed, or the
\* one of a preview that was.
LEMMA ToolSafe ==
    ASSUME Safe, Tool
    PROVE  Safe'
<1> USE DEF Safe
<1>1. CASE NoPreview
  <2>1. TypeOK'
    BY <1>1 DEF NoPreview, Fails, TypeOK, ClientTypeOK, Replies, toolVars
  <2>2. FileInv' /\ PartInv'
    BY <1>1 DEF NoPreview, Fails, FileInv, PartInv, RecordFollowsReply, Stages,
                toolVars
  <2>3. QED
    BY <2>1, <2>2
<1>2. CASE NoRefined
  <2>1. TypeOK'
    BY <1>2 DEF NoRefined, TypeOK, ClientTypeOK, Stages
  <2>2. FileInv' /\ PartInv'
    BY <1>2 DEF NoRefined, FileInv, PartInv, RecordFollowsReply, Stages
  <2>3. QED
    BY <2>1, <2>2
<1>3. CASE Downloaded
  <2>1. TypeOK'
    BY <1>3 DEF Downloaded, TypeOK, ClientTypeOK, Stages
  <2>2. FileInv'
    BY <1>3 DEF Downloaded, TypeOK, ClientTypeOK, FileInv, PartInv, Stages
  <2>3. PartInv'
    BY <1>3 DEF Downloaded, PartInv, RecordFollowsReply
  <2>4. QED
    BY <2>1, <2>2, <2>3
<1>4. CASE LoadFails
  <2>1. TypeOK'
    BY <1>4 DEF LoadFails, Fails, TypeOK, ClientTypeOK, Replies, toolVars
  <2>2. FileInv' /\ PartInv'
    BY <1>4 DEF LoadFails, Fails, FileInv, PartInv, RecordFollowsReply, Stages,
                toolVars
  <2>3. QED
    BY <2>1, <2>2
<1>5. CASE Load
  <2>1. sewn' \in 0 .. MaxFaces
    BY <1>5, GenMeshAssumption DEF Load, Decimated
  <2>2. TypeOK'
    BY <1>5, <2>1 DEF Load, TypeOK, ClientTypeOK
  <2>3. FileInv' /\ PartInv'
    BY <1>5 DEF Load, FileInv, PartInv, RecordFollowsReply, Stages
  <2>4. QED
    BY <2>2, <2>3
<1>6. CASE SewFails
  <2>1. TypeOK'
    BY <1>6 DEF SewFails, Written, Fails, TypeOK, ClientTypeOK, Replies
  <2>2. FileInv' /\ PartInv'
    BY <1>6 DEF SewFails, Written, Fails, FileInv, PartInv, RecordFollowsReply, Stages
  <2>3. QED
    BY <2>1, <2>2
<1>7. CASE Import
  <2>1. TypeOK'
    BY <1>7 DEF Import, Written, Fails, TypeOK, ClientTypeOK, Replies
  <2>2. FileInv' /\ PartInv'
    BY <1>7 DEF Import, Written, Fails, FileInv, PartInv, RecordFollowsReply, Stages, TypeOK
  <2>3. QED
    BY <2>1, <2>2
<1>8. QED
  BY <1>1, <1>2, <1>3, <1>4, <1>5, <1>6, <1>7 DEF Tool

LEMMA Stutter ==
    ASSUME Safe, UNCHANGED vars
    PROVE  Safe'
BY DEF Safe, TypeOK, ClientTypeOK, FileInv, PartInv, RecordFollowsReply, vars,
       clientVars, toolVars

LEMMA AlwaysSafe == Spec => []Safe
<1>1. Safe /\ [Next]_vars => Safe'
  BY ClientSafe, ToolSafe, Stutter DEF Next
<1>2. QED
  BY InitSafe, <1>1, PTL DEF Spec

\* The state of a generation stays of its type, whatever the service answers.
THEOREM TypeCorrect == Spec => []TypeOK
<1>1. Safe => TypeOK
  BY DEF Safe
<1>2. QED
  BY <1>1, AlwaysSafe, PTL

\* A download that broke off is never imported, and no part is made of one:
\* glb_to_brep reads only files that download_glb has completed.
THEOREM WholeFilesOnly == Spec => []ImportsWholeFiles
<1>1. Safe => ImportsWholeFiles
  BY DEF Safe, FileInv, ImportsWholeFiles
<1>2. QED
  BY <1>1, AlwaysSafe, PTL

\* gen_ai_mesh makes a mesh part with its good reply and never before it, and
\* whatever goes wrong before the sewing leaves the part's file as it was.
THEOREM RecordedWithReply == Spec => []RecordFollowsReply
<1>1. Safe => RecordFollowsReply
  BY DEF Safe, PartInv
<1>2. QED
  BY <1>1, AlwaysSafe, PTL

-----------------------------------------------------------------------------
(* The deadline.                                                           *)

Round == MaxLatency + RetryAfterMax

\* Between two looks at the clock lie at most the rounds of one request.
TimeInv ==
    /\ pc = "get" => left >= - (attempt * Round)
    /\ OverrunIsBounded

LEMMA RoundFacts ==
    ASSUME NEW a \in 0 .. MaxRetries - 1
    PROVE  /\ a * Round \in Nat
           /\ (a + 1) * Round = a * Round + Round
           /\ a * Round + MaxLatency
                <= MaxRetries * MaxLatency + (MaxRetries - 1) * RetryAfterMax
<1> DEFINE m == MaxRetries - 1
<1>1. /\ MaxRetries \in Nat /\ m \in Nat /\ a \in Nat /\ a <= m
      /\ MaxLatency \in Nat /\ RetryAfterMax \in Nat /\ Round \in Nat
  BY MeshyAssumption DEF Round
<1>2. \A x, y, z \in Nat : x <= y => x * z <= y * z
  OBVIOUS
<1>3. a * Round <= m * Round
  BY <1>1, <1>2
<1>4. m * Round = m * MaxLatency + m * RetryAfterMax
  BY <1>1 DEF Round
<1>5. m * MaxLatency + MaxLatency = MaxRetries * MaxLatency
  BY <1>1
<1>6. /\ a * Round \in Nat /\ m * MaxLatency \in Nat
      /\ m * RetryAfterMax \in Nat /\ m * Round \in Nat
  BY <1>1
<1>7. (a + 1) * Round = a * Round + Round
  BY <1>1
<1>8. QED
  BY <1>1, <1>3, <1>4, <1>5, <1>6, <1>7

LEMMA StepInTime ==
    ASSUME Safe, TimeInv, Next
    PROVE  TimeInv'
<1>1. /\ left \in Int /\ attempt \in 0 .. MaxRetries - 1 /\ pc # "done"
      /\ MaxLatency \in Nat /\ RetryAfterMax \in Nat
      /\ MaxRetries \in Nat \ {0}
  BY MeshyAssumption
     DEF Safe, TypeOK, ClientTypeOK, Next, Client, Tool, Create, CreateFails,
         Poll, PollTimesOut, Get, Retry, GetFails, Pending, PendingTooLong,
         TaskFailed, TaskSucceeded, DownloadRefused, DownloadOpens,
         DownloadRejected, DownloadBreaks, NoPreview, NoRefined, Downloaded,
         LoadFails, Load, SewFails, Import
<1> DEFINE Slack == MaxRetries * MaxLatency + (MaxRetries - 1) * RetryAfterMax
<1>2. Slack \in Nat
  <2>1. MaxRetries * MaxLatency \in Nat
    BY <1>1
  <2>2. (MaxRetries - 1) * RetryAfterMax \in Nat
    BY <1>1
  <2>3. QED
    BY <2>1, <2>2
<1>3. left >= - Slack
  BY DEF TimeInv, OverrunIsBounded
<1>4. ASSUME pc' # "get", left' \in Int, left' >= - Slack
      PROVE  TimeInv'
  BY <1>4 DEF TimeInv, OverrunIsBounded
<1>5. CASE Create
  <2>1. left' \in Nat
    BY <1>5, MeshyAssumption DEF Create, Timeout
  <2>2. pc' # "get"
    BY <1>5 DEF Create
  <2>3. QED
    BY <1>2, <1>4, <2>1, <2>2
<1>6. CASE Poll
  <2>1. left' = left /\ left > 0 /\ attempt' = 0
    BY <1>6 DEF Poll
  <2>2. Round \in Nat
    BY <1>1 DEF Round
  <2>3. attempt' * Round = 0
    BY <2>1, <2>2
  <2>4. left' >= - (attempt' * Round) /\ left' >= - Slack
    BY <1>1, <1>2, <2>1, <2>3
  <2>5. QED
    BY <2>4 DEF TimeInv, OverrunIsBounded
<1>7. CASE Get
  <2>1. PICK d \in 0 .. MaxLatency :
           \/ Retry(d) \/ GetFails(d) \/ Pending(d) \/ PendingTooLong(d)
           \/ TaskFailed(d) \/ TaskSucceeded(d)
    BY <1>7 DEF Get
  <2>2. pc = "get" /\ d \in Nat /\ d <= MaxLatency
    BY <1>1, <2>1 DEF Retry, GetFails, Pending, PendingTooLong, TaskFailed,
                      TaskSucceeded
  <2>3. left >= - (attempt * Round)
    BY <2>2 DEF TimeInv
  <2>4. /\ attempt * Round \in Nat
        /\ (attempt + 1) * Round = attempt * Round + Round
        /\ attempt * Round + MaxLatency <= Slack
    BY <1>1, RoundFacts
  <2>5. left - d \in Int /\ left - d >= - Slack
    BY <1>1, <1>2, <2>2, <2>3, <2>4
  <2>6. CASE Retry(d)
    <3>1. PICK b \in Backoff : left' = left - d - b
      BY <2>6 DEF Retry
    <3>2. b \in Nat /\ b <= RetryAfterMax
      BY <1>1, <3>1, BackoffFacts
    <3>3. attempt' = attempt + 1 /\ attempt' \in 0 .. MaxRetries - 1
      BY <1>1, <2>6 DEF Retry, MayRetry
    <3>4. left' \in Int /\ left' >= - (attempt' * Round)
      BY <1>1, <2>2, <2>3, <2>4, <3>1, <3>2, <3>3 DEF Round
    <3>5. attempt' * Round \in Nat /\ attempt' * Round + MaxLatency <= Slack
      BY <3>3, RoundFacts
    <3>6. left' >= - Slack
      BY <1>1, <1>2, <3>4, <3>5
    <3>7. QED
      BY <3>4, <3>6 DEF TimeInv, OverrunIsBounded
  <2>7. CASE Pending(d)
    <3>1. left - d > 0 /\ left' = left - d - Sleep(left - d) /\ pc' = "poll"
      BY <2>7 DEF Pending
    <3>2. Sleep(left - d) \in Nat /\ Sleep(left - d) <= left - d
      BY <2>5, <3>1, MeshyAssumption DEF Sleep
    <3>3. left' \in Nat
      BY <2>5, <3>1, <3>2
    <3>4. QED
      BY <1>2, <1>4, <3>1, <3>3
  <2>8. CASE GetFails(d) \/ PendingTooLong(d) \/ TaskFailed(d)
             \/ TaskSucceeded(d)
    <3>1. left' = left - d /\ pc' # "get"
      BY <2>8 DEF GetFails, PendingTooLong, TaskFailed, TaskSucceeded, Fails
    <3>2. QED
      BY <1>4, <2>5, <3>1
  <2>9. QED
    BY <2>1, <2>6, <2>7, <2>8
<1>8. CASE ~ (Create \/ Poll \/ Get)
  <2>1. left' = left /\ pc' # "get"
    BY <1>8
       DEF Next, Client, Tool, CreateFails, PollTimesOut, DownloadRefused,
           DownloadOpens, DownloadRejected, DownloadBreaks, Fails, NoPreview,
           NoRefined, Downloaded, LoadFails, Load, SewFails, Import, toolVars
  <2>2. QED
    BY <1>1, <1>3, <1>4, <2>1
<1>9. QED
  BY <1>5, <1>6, <1>7, <1>8

\* poll_until_done gives a task up at its deadline or at most one round of
\* retries after it, whatever the service answers and asks to wait.
THEOREM GivenUpInTime == Spec => []OverrunIsBounded
<1>1. Init => TimeInv
  <2> SUFFICES ASSUME Init PROVE TimeInv
    OBVIOUS
  <2>1. 0 \in 0 .. MaxRetries - 1 /\ MaxLatency \in Nat
    BY MeshyAssumption
  <2>2. 0 * Round \in Nat /\ 0 * Round + MaxLatency
           <= MaxRetries * MaxLatency + (MaxRetries - 1) * RetryAfterMax
    BY <2>1, RoundFacts
  <2>3. /\ MaxRetries * MaxLatency \in Nat
        /\ (MaxRetries - 1) * RetryAfterMax \in Nat
    BY MeshyAssumption
  <2>4. left = 0 /\ pc = "create"
    BY DEF Init, ClientInit
  <2>5. QED
    BY <2>3, <2>4 DEF TimeInv, OverrunIsBounded
<1>2. Safe /\ TimeInv /\ [Next]_vars => TimeInv'
  <2>1. ASSUME TimeInv, UNCHANGED vars PROVE TimeInv'
    BY <2>1 DEF TimeInv, OverrunIsBounded, vars, clientVars
  <2>2. QED
    BY <2>1, StepInTime
<1>3. TimeInv => OverrunIsBounded
  BY DEF TimeInv
<1>4. QED
  BY <1>1, <1>2, <1>3, AlwaysSafe, PTL DEF Spec

-----------------------------------------------------------------------------
(* export_model: names and files.                                          *)

\* Two calls that are under way have not been given one name.
NoSharedName ==
    \A t, u \in Threads :
        (t # u /\ thr[t].pc = "write" /\ thr[u].pc = "write") =>
            thr[t].file # thr[u].file

\* One call is under way at a time.
OneByOne ==
    \A t, u \in Threads : thr[t] # Idle /\ thr[u] # Idle => t = u

\* The equation of WithModel's definition.
LEMMA WithModelEquation ==
    ASSUME NEW list \in Seq(Parts)
    PROVE  /\ WithModel(list) \in [0 .. Len(list) -> Seq(Parts)]
           /\ WithModel(list)[0] = <<>>
           /\ \A k \in 1 .. Len(list) :
                 WithModel(list)[k] =
                    IF list[k] \in model
                    THEN Append(WithModel(list)[k - 1], list[k])
                    ELSE WithModel(list)[k - 1]
<1> DEFINE n == Len(list)
           A == Seq(Parts)
           step == [x \in (1 .. n) \X A |->
                       IF list[x[1]] \in model THEN Append(x[2], list[x[1]])
                       ELSE x[2]]
           Solves(g) == g = [k \in 0 .. n |->
                               IF k = 0 THEN <<>>
                               ELSE IF list[k] \in model
                                    THEN Append(g[k - 1], list[k])
                                    ELSE g[k - 1]]
<1>1. /\ n \in Nat /\ <<>> \in A
      /\ \A k \in 1 .. n : list[k] \in Parts
  OBVIOUS
<1>2. step \in [(1 .. n) \X A -> A]
  <2>1. ASSUME NEW x \in (1 .. n) \X A
        PROVE  (IF list[x[1]] \in model THEN Append(x[2], list[x[1]])
                ELSE x[2]) \in A
    <3>1. x[1] \in 1 .. n /\ x[2] \in A /\ list[x[1]] \in Parts
      BY <1>1
    <3>2. Append(x[2], list[x[1]]) \in A
      BY <3>1
    <3> QED
      BY <3>1, <3>2
  <2> QED
    BY <2>1
<1>3. PICK f \in [0 .. n -> A] : Runs(f, n, <<>>, step)
  <2> HIDE DEF n, A, step
  <2> QED
    BY <1>1, <1>2, LoopsRun
<1>4. \A k \in 1 .. n : f[k] = IF list[k] \in model THEN Append(f[k - 1], list[k])
                               ELSE f[k - 1]
  <2> TAKE k \in 1 .. n
  <2>1. f[k] = step[<<k, f[k - 1]>>]
    BY <1>3 DEF Runs
  <2>2. k - 1 \in 0 .. n /\ f[k - 1] \in A
    <3> HIDE DEF n, A
    <3> QED
      BY <1>1
  <2>3. <<k, f[k - 1]>> \in (1 .. n) \X A
    BY <2>2
  <2> QED
    BY <2>1, <2>3
<1>5. Solves(f)
  <2>1. f = [k \in 0 .. n |-> f[k]]
    BY <1>3
  <2>2. \A k \in 0 .. n : f[k] = IF k = 0 THEN <<>>
                                 ELSE IF list[k] \in model
                                      THEN Append(f[k - 1], list[k])
                                      ELSE f[k - 1]
    <3> TAKE k \in 0 .. n
    <3>1. CASE k = 0
      BY <1>3, <3>1 DEF Runs
    <3>2. CASE k # 0
      <4>1. k \in 1 .. n
        BY <3>2
      <4> QED
        BY <1>4, <3>2, <4>1
    <3> QED
      BY <3>1, <3>2
  <2> QED
    BY <2>1, <2>2, Zenon
<1>6. WithModel(list) = CHOOSE g : Solves(g)
  BY DEF WithModel
<1> DEFINE w == WithModel(list)
<1>7. Solves(w)
  <2> HIDE DEF Solves
  <2> QED
    BY <1>5, <1>6
<1>8. \A k \in 0 .. n : w[k] = IF k = 0 THEN <<>>
                               ELSE IF list[k] \in model
                                    THEN Append(w[k - 1], list[k])
                                    ELSE w[k - 1]
  <2> HIDE DEF w
  <2> QED
    BY <1>7, Zenon
<1>9. /\ w[0] = <<>>
      /\ \A k \in 1 .. n : w[k] = IF list[k] \in model
                                  THEN Append(w[k - 1], list[k]) ELSE w[k - 1]
  <2>1. /\ 0 \in 0 .. n
        /\ \A k \in 1 .. n : k \in 0 .. n /\ k # 0
    BY <1>1
  <2> HIDE DEF w
  <2> QED
    BY <1>8, <2>1
<1>10. w \in [0 .. n -> A]
  <2> DEFINE Good == {k \in 0 .. n : w[k] \in A}
  <2>1. 0 \in Good
    <3> HIDE DEF w, n, A
    <3> QED
      BY <1>1, <1>9
  <2>2. \A k \in 1 .. n : k - 1 \in Good => k \in Good
    <3> TAKE k \in 1 .. n
    <3> HAVE k - 1 \in Good
    <3>1. w[k - 1] \in A /\ list[k] \in Parts /\ k \in 0 .. n
      BY <1>1
    <3> HIDE DEF w
    <3>2. Append(w[k - 1], list[k]) \in A
      BY <3>1
    <3>3. w[k] \in A
      BY <1>9, <3>1, <3>2
    <3> QED
      BY <3>1, <3>3
  <2>3. \A k \in 0 .. n : k \in Good
    <3> HIDE DEF Good
    <3> QED
      BY <1>1, <2>1, <2>2, Induction
  <2>4. w = [k \in 0 .. n |-> w[k]]
    <3>1. \E F : w = [k \in 0 .. n |-> F[k]]
      <4> DEFINE F == [k \in 0 .. n |-> IF k = 0 THEN <<>>
                               ELSE IF list[k] \in model
                                    THEN Append(w[k - 1], list[k])
                                    ELSE w[k - 1]]
      <4>1. w = F
        BY <1>7
      <4>2. F = [k \in 0 .. n |-> F[k]]
        OBVIOUS
      <4> QED
        BY <4>1, <4>2
    <3> HIDE DEF w
    <3> QED
      BY <3>1
  <2> HIDE DEF w
  <2> QED
    BY <2>3, <2>4
<1> QED
  BY <1>9, <1>10

LEMMA ChosenFacts ==
    ASSUME NEW list \in Lists
    PROVE  Chosen(list) \in Seq(Parts)
<1>1. list \in Seq(Parts) /\ Len(list) \in 0 .. Len(list)
  BY ExportsAssumption
<1>2. WithModel(list)[Len(list)] \in Seq(Parts)
  BY <1>1, WithModelEquation
<1> QED
  BY <1>1, <1>2 DEF Chosen

\* A call has at least one job, and each is a single file, a part's or the
\* assembly's.
LEMMA JobsFacts ==
    ASSUME NEW s \in Seq(Parts), s # <<>>
    PROVE  Jobs(s) \in Seq(Job) /\ Jobs(s) # <<>>
<1>0. /\ Len(s) \in Nat \ {0} /\ DOMAIN s = 1 .. Len(s)
      /\ \A i \in DOMAIN s : s[i] \in Parts
  OBVIOUS
<1>1. CASE Len(s) = 1
  <2> DEFINE j == [kind |-> "single", parts |-> {s[1]}, label |-> Single]
  <2>1. s[1] \in Parts /\ Single \in Labels
    BY <1>0, <1>1 DEF Labels
  <2>2. j \in Job
    BY <2>1 DEF Job
  <2>3. Jobs(s) = <<j>>
    BY <1>1 DEF Jobs
  <2> HIDE DEF j
  <2> QED
    BY <2>2, <2>3
<1>2. CASE Len(s) # 1
  <2> DEFINE P == [i \in DOMAIN s |->
                     [kind |-> "part", parts |-> {s[i]}, label |-> s[i]]]
             a == [kind |-> "assembly", parts |-> ToSet(s), label |-> Assembly]
  <2>1. P \in Seq(Job)
    <3>1. \A i \in DOMAIN s :
             [kind |-> "part", parts |-> {s[i]}, label |-> s[i]] \in Job
      <4> TAKE i \in DOMAIN s
      <4>1. s[i] \in Parts /\ s[i] \in Labels
        BY <1>0 DEF Labels
      <4> QED
        BY <4>1 DEF Job
    <3>2. P \in [1 .. Len(s) -> Job]
      BY <1>0, <3>1
    <3> HIDE DEF P
    <3> QED
      BY <1>0, <3>2
  <2>2. a \in Job
    <3>1. ToSet(s) \subseteq Parts
      BY <1>0 DEF ToSet
    <3>2. ToSet(s) \in SUBSET Parts
      BY <3>1
    <3> QED
      BY <3>2 DEF Job
  <2>3. Jobs(s) = P \o <<a>>
    BY <1>2 DEF Jobs
  <2> HIDE DEF P, a
  <2>4. P \o <<a>> \in Seq(Job) /\ Len(P \o <<a>>) = Len(P) + 1 /\ Len(P) \in Nat
    BY <2>1, <2>2
  <2> QED
    BY <2>3, <2>4
<1> QED
  BY <1>1, <1>2

\* The file that a call has been given is not there yet.
NameInv == \A t \in Threads : thr[t].pc = "write" => ~ Exists(thr[t].file)

\* The frames of a call that has work.
LEMMA WorkFrames ==
    ASSUME NEW w \in Work
    PROVE  /\ \A c \in {"name", "return", "raise"} :
                 [pc |-> c, work |-> w] \in Frame
           /\ \A f \in Paths : [pc |-> "write", work |-> w, file |-> f] \in Frame
BY DEF Frame

LEMMA FrameFacts ==
    ASSUME NEW f \in Frame, f # Idle
    PROVE  /\ f.pc \in {"name", "return", "raise", "write"}
           /\ f.work \in Work
           /\ f.pc = "write" => f.file \in Paths
<1>1. CASE f \in [pc: {"idle"}]
  <2>1. f = [pc |-> "idle"]
    BY <1>1
  <2> QED
    BY <2>1 DEF Idle
<1>2. CASE f \in [pc: {"name", "return", "raise"}, work: Work]
  BY <1>2
<1>3. CASE f \in [pc: {"write"}, work: Work, file: Paths]
  BY <1>3
<1> QED
  BY <1>1, <1>2, <1>3 DEF Frame

\* A call is in hand, and works on the first of its jobs.
LEMMA WorkFacts ==
    ASSUME ExportsTypeOK, NEW t \in Threads,
           thr[t].pc \in {"name", "return", "raise", "write"}
    PROVE  /\ thr[t] \in Frame /\ thr[t] # Idle
           /\ thr[t].work \in Work
           /\ thr[t].work.num \in 1 .. MaxCalls
           /\ thr[t].pc \in {"name", "write"} =>
                 thr[t].work.todo \in Seq(Job) /\ thr[t].work.todo # <<>>
           /\ thr[t].pc = "write" => thr[t].file \in Paths
<1>1. thr[t] \in Frame /\ thr[t] # Idle
  BY DEF ExportsTypeOK, Idle
<1>2. thr[t].work \in Work
  BY <1>1, FrameFacts
<1> QED
  BY <1>1, <1>2, FrameFacts DEF ExportsTypeOK, Work

LEMMA DroppedFacts ==
    ASSUME NEW w \in Work, w.todo # <<>>, NEW S \in SUBSET Paths
    PROVE  /\ Dropped(w) \in Work
           /\ [Dropped(w) EXCEPT !.good = @ \union S] \in Work
<1>1. w.todo \in Seq(Job) /\ Tail(w.todo) \in Seq(Job)
  BY DEF Work
<1> QED
  BY <1>1 DEF Dropped, Work

\* A thread goes on with another frame.
LEMMA GoesOn ==
    ASSUME ExportsTypeOK, NEW t \in Threads, NEW f \in Frame,
           f.pc \in {"name", "write"} => f.work.todo # <<>>,
           thr' = [thr EXCEPT ![t] = f]
    PROVE  /\ thr' \in [Threads -> Frame]
           /\ thr'[t] = f
           /\ \A u \in Threads \ {t} : thr'[u] = thr[u]
           /\ \A u \in Threads :
                 thr'[u].pc \in {"name", "write"} => thr'[u].work.todo # <<>>
BY DEF ExportsTypeOK

LEMMA ProceedFacts ==
    ASSUME ExportsTypeOK, NEW t \in Threads, NEW w \in Work, Proceed(t, w)
    PROVE  /\ thr' \in [Threads -> Frame]
           /\ thr'[t].pc \in {"return", "name"}
           /\ \A u \in Threads \ {t} : thr'[u] = thr[u]
           /\ \A u \in Threads :
                 thr'[u].pc \in {"name", "write"} => thr'[u].work.todo # <<>>
<1> DEFINE f == [pc |-> IF w.todo = <<>> THEN "return" ELSE "name", work |-> w]
<1>1. /\ f \in Frame /\ f.pc \in {"return", "name"}
      /\ f.pc \in {"name", "write"} => f.work.todo # <<>>
  BY WorkFrames
<1>2. thr' = [thr EXCEPT ![t] = f]
  BY DEF Proceed
<1> HIDE DEF f
<1> QED
  BY <1>1, <1>2, GoesOn

-----------------------------------------------------------------------------

ExportsSafe == ExportsTypeOK /\ NameInv /\ ListedIsThere

LEMMA ExportsInitSafe == ExportsInit => ExportsSafe
<1> SUFFICES ASSUME ExportsInit PROVE ExportsSafe
  OBVIOUS
<1>1. /\ Idle \in Frame /\ Idle.pc = "idle"
      /\ 0 \in 0 .. MaxCalls
  BY ExportsAssumption DEF Idle, Frame
<1>2. ExportsTypeOK
  BY <1>1 DEF ExportsInit, ExportsTypeOK
<1>3. NameInv /\ ListedIsThere
  BY <1>1 DEF ExportsInit, NameInv, ListedIsThere
<1> QED
  BY <1>2, <1>3 DEF ExportsSafe

\* The type is kept by every step, whoever is given which name.
LEMMA ExportsTypeKept ==
    ASSUME ExportsTypeOK, [ExportsNext]_exportsVars
    PROVE  ExportsTypeOK'
<1>1. ASSUME NEW t \in Threads, NEW b \in Bases, NEW l \in Lists,
             ExportCall(t, b, l)
      PROVE  ExportsTypeOK'
  <2> DEFINE w == [num |-> calls + 1, base |-> b, todo |-> Jobs(Chosen(l)),
                   good |-> {}]
             f == [pc |-> "name", work |-> w]
  <2>1. Jobs(Chosen(l)) \in Seq(Job) /\ Jobs(Chosen(l)) # <<>>
    BY <1>1, ChosenFacts, JobsFacts DEF ExportCall
  <2>2. calls + 1 \in 1 .. MaxCalls /\ calls + 1 \in 0 .. MaxCalls
    BY <1>1, ExportsAssumption DEF ExportCall, ExportsTypeOK
  <2>3. w \in Work
    BY <2>1, <2>2 DEF Work
  <2>4. f \in Frame /\ f.work.todo # <<>>
    BY <2>1, <2>3, WorkFrames
  <2>5. thr' = [thr EXCEPT ![t] = f]
    BY <1>1 DEF ExportCall
  <2> HIDE DEF f
  <2>6. /\ thr' \in [Threads -> Frame]
        /\ \A u \in Threads :
              thr'[u].pc \in {"name", "write"} => thr'[u].work.todo # <<>>
    BY <2>4, <2>5, GoesOn
  <2> QED
    BY <1>1, <2>2, <2>6 DEF ExportCall, ExportsTypeOK
<1>2. ASSUME NEW t \in Threads, Name(t)
      PROVE  ExportsTypeOK'
  <2> DEFINE w == thr[t].work
  <2>1. w \in Work /\ w.todo # <<>>
    BY <1>2, WorkFacts DEF Name
  <2>2. PICK f \in UniqueOutputPath(w.base, Head(w.todo).label) :
           thr' = [thr EXCEPT ![t] = [pc |-> "write", work |-> w, file |-> f]]
    BY <1>2 DEF Name
  <2>3. f \in Paths
    BY <2>2 DEF UniqueOutputPath
  <2> DEFINE g == [pc |-> "write", work |-> w, file |-> f]
  <2>4. g \in Frame /\ g.work.todo # <<>>
    BY <2>1, <2>3, WorkFrames
  <2> HIDE DEF g
  <2>5. /\ thr' \in [Threads -> Frame]
        /\ \A u \in Threads :
              thr'[u].pc \in {"name", "write"} => thr'[u].work.todo # <<>>
    BY <2>2, <2>4, GoesOn DEF g
  <2> QED
    BY <1>2, <2>5 DEF Name, ExportsTypeOK
<1>3. ASSUME NEW t \in Threads, NoName(t)
      PROVE  ExportsTypeOK'
  <2> DEFINE w == thr[t].work
  <2>1. w \in Work /\ w.todo # <<>>
    BY <1>3, WorkFacts DEF NoName
  <2>2. CASE Proceed(t, Dropped(w))
    <3>1. Dropped(w) \in Work
      BY <2>1, DroppedFacts
    <3> QED
      BY <1>3, <2>2, <3>1, ProceedFacts DEF NoName, ExportsTypeOK
  <2>3. CASE thr' = [thr EXCEPT ![t] = [pc |-> "raise", work |-> w]]
    <3> DEFINE g == [pc |-> "raise", work |-> w]
    <3>1. g \in Frame /\ g.pc = "raise"
      BY <2>1, WorkFrames
    <3> HIDE DEF g
    <3>2. /\ thr' \in [Threads -> Frame]
          /\ \A u \in Threads :
                thr'[u].pc \in {"name", "write"} => thr'[u].work.todo # <<>>
      BY <2>3, <3>1, GoesOn DEF g
    <3> QED
      BY <1>3, <3>2 DEF NoName, ExportsTypeOK
  <2> QED
    BY <1>3, <2>2, <2>3 DEF NoName
<1>4. ASSUME NEW t \in Threads, Write(t)
      PROVE  ExportsTypeOK'
  <2> DEFINE w == thr[t].work
             f == thr[t].file
             v == [Dropped(w) EXCEPT !.good = @ \union {f}]
  <2>1. /\ w \in Work /\ w.todo # <<>> /\ w.num \in 1 .. MaxCalls
        /\ f \in Paths
    BY <1>4, WorkFacts DEF Write
  <2>2. v \in Work
    BY <2>1, DroppedFacts
  <2>3. Proceed(t, v)
    BY <1>4 DEF Write
  <2> HIDE DEF v
  <2>4. /\ thr' \in [Threads -> Frame]
        /\ \A u \in Threads :
              thr'[u].pc \in {"name", "write"} => thr'[u].work.todo # <<>>
    BY <2>2, <2>3, ProceedFacts
  <2>5. disk' \in [Paths -> Content \union {NoFile}]
    BY <1>4, <2>1 DEF Write, ExportsTypeOK, Content
  <2>6. exports' \subseteq [file: Paths, by: 1 .. MaxCalls]
    BY <1>4, <2>1 DEF Write, ExportsTypeOK
  <2> QED
    BY <1>4, <2>4, <2>5, <2>6 DEF Write, ExportsTypeOK
<1>5. ASSUME NEW t \in Threads, WriteFails(t)
      PROVE  ExportsTypeOK'
  <2> DEFINE w == thr[t].work
  <2>1. /\ w \in Work /\ w.todo # <<>> /\ w.num \in 1 .. MaxCalls
    BY <1>5, WorkFacts DEF WriteFails
  <2>2. Dropped(w) \in Work
    BY <2>1, DroppedFacts
  <2>3. Proceed(t, Dropped(w))
    BY <1>5 DEF WriteFails
  <2>4. /\ thr' \in [Threads -> Frame]
        /\ \A u \in Threads :
              thr'[u].pc \in {"name", "write"} => thr'[u].work.todo # <<>>
    BY <2>2, <2>3, ProceedFacts
  <2>5. disk' \in [Paths -> Content \union {NoFile}]
    <3>1. [by |-> w.num, whole |-> FALSE] \in Content
      BY <2>1 DEF Content
    <3> QED
      BY <1>5, <3>1 DEF WriteFails, ExportsTypeOK
  <2> QED
    BY <1>5, <2>4, <2>5 DEF WriteFails, ExportsTypeOK
<1>6. ASSUME NEW t \in Threads, Return(t)
      PROVE  ExportsTypeOK'
  <2>1. Idle \in Frame /\ Idle.pc = "idle"
    BY DEF Idle, Frame
  <2>2. /\ thr' \in [Threads -> Frame]
        /\ \A u \in Threads :
              thr'[u].pc \in {"name", "write"} => thr'[u].work.todo # <<>>
    BY <1>6, <2>1, GoesOn DEF Return
  <2> QED
    BY <1>6, <2>2 DEF Return, ExportsTypeOK
<1>7. ASSUME NEW p \in Parts, Change(p)
      PROVE  ExportsTypeOK'
  BY <1>7 DEF Change, ExportsTypeOK
<1>8. CASE UNCHANGED exportsVars
  BY <1>8 DEF exportsVars, ExportsTypeOK
<1> QED
  BY <1>1, <1>2, <1>3, <1>4, <1>5, <1>6, <1>7, <1>8 DEF ExportsNext, Step

\* A file that is there is not the one that a call is about to write.
LEMMA WrittenIsNew ==
    ASSUME ExportsSafe, [ExportsNext]_exportsVars, NEW f \in Paths, Exists(f)
    PROVE  disk'[f] = disk[f]
<1>1. ASSUME NEW t \in Threads, Write(t) \/ WriteFails(t)
      PROVE  disk'[f] = disk[f]
  <2>1. thr[t].file # f
    BY <1>1 DEF ExportsSafe, NameInv, Write, WriteFails
  <2>2. disk \in [Paths -> Content \union {NoFile}]
    BY DEF ExportsSafe, ExportsTypeOK
  <2> QED
    BY <1>1, <2>1, <2>2 DEF Write, WriteFails
<1>2. CASE UNCHANGED disk
  BY <1>2
<1> QED
  BY <1>1, <1>2 DEF ExportsNext, Step, ExportCall, Name, NoName, Return, Change,
                    exportsVars

\* What the exports list stays there, and what is listed newly is there.
LEMMA ListedKept ==
    ASSUME ExportsSafe, [ExportsNext]_exportsVars
    PROVE  ListedIsThere'
<1> SUFFICES ASSUME NEW e \in exports'
             PROVE  disk'[e.file] = [by |-> e.by, whole |-> TRUE]
  BY DEF ListedIsThere
<1>1. CASE e \in exports
  <2>1. /\ e.file \in Paths /\ e.by \in 1 .. MaxCalls
        /\ disk[e.file] = [by |-> e.by, whole |-> TRUE]
    BY <1>1 DEF ExportsSafe, ExportsTypeOK, ListedIsThere
  <2>2. disk[e.file] # NoFile
    BY <2>1 DEF NoFile
  <2>3. disk'[e.file] = disk[e.file]
    BY <2>1, <2>2, WrittenIsNew DEF Exists
  <2> QED
    BY <2>1, <2>3
<1>2. CASE e \notin exports
  <2>1. PICK t \in Threads : Write(t)
    BY <1>2 DEF ExportsNext, Step, ExportCall, Name, NoName, WriteFails, Return,
                Change, exportsVars
  <2>2. e = [file |-> thr[t].file, by |-> thr[t].work.num]
    BY <1>2, <2>1 DEF Write
  <2>3. thr[t].file \in Paths
    BY <2>1, WorkFacts DEF Write, ExportsSafe
  <2> QED
    BY <2>1, <2>2, <2>3 DEF Write, ExportsSafe, ExportsTypeOK
<1> QED
  BY <1>1, <1>2

\* A call's file stays free until the call writes it, when no other call has
\* been given the same.
LEMMA NameKept ==
    ASSUME ExportsSafe, NoSharedName, [ExportsNext]_exportsVars
    PROVE  NameInv'
<1> SUFFICES ASSUME NEW t \in Threads, thr'[t].pc = "write"
             PROVE  disk'[thr'[t].file] = NoFile
  BY DEF NameInv, Exists
<1> USE DEF ExportsSafe
<1>1. ASSUME NEW u \in Threads, Write(u) \/ WriteFails(u)
      PROVE  disk'[thr'[t].file] = NoFile
  <2> DEFINE w == thr[u].work
  <2>1. /\ w \in Work /\ w.todo # <<>> /\ thr[u].file \in Paths
        /\ thr[u].pc = "write"
    BY <1>1, WorkFacts DEF Write, WriteFails
  <2>2. PICK v \in Work : Proceed(u, v)
    <3>1. /\ Dropped(w) \in Work
          /\ [Dropped(w) EXCEPT !.good = @ \union {thr[u].file}] \in Work
      BY <2>1, DroppedFacts
    <3> QED
      BY <1>1, <3>1 DEF Write, WriteFails
  <2>3. t # u /\ thr'[t] = thr[t]
    BY <2>2, ProceedFacts
  <2>4. thr[t].file # thr[u].file /\ disk[thr[t].file] = NoFile
    BY <2>1, <2>3 DEF NoSharedName, NameInv, Exists
  <2>5. thr[t].file \in Paths
    BY <2>3, WorkFacts
  <2>6. disk'[thr[t].file] = disk[thr[t].file]
    BY <1>1, <2>1, <2>4, <2>5 DEF Write, WriteFails, ExportsTypeOK
  <2> QED
    BY <2>3, <2>4, <2>6 DEF Exists
<1>2. ASSUME NEW u \in Threads, Name(u)
      PROVE  disk'[thr'[t].file] = NoFile
  <2> DEFINE w == thr[u].work
  <2>1. PICK f \in UniqueOutputPath(w.base, Head(w.todo).label) :
           thr' = [thr EXCEPT ![u] = [pc |-> "write", work |-> w, file |-> f]]
    BY <1>2 DEF Name
  <2>2. disk' = disk /\ ~ Exists(f)
    BY <1>2, <2>1 DEF Name, UniqueOutputPath
  <2>3. CASE t = u
    <3>1. thr'[t].file = f
      BY <2>1, <2>3 DEF ExportsTypeOK
    <3> QED
      BY <2>2, <3>1 DEF Exists
  <2>4. CASE t # u
    <3>1. thr'[t] = thr[t]
      BY <2>1, <2>4 DEF ExportsTypeOK
    <3> QED
      BY <2>2, <3>1 DEF Exists, NameInv
  <2> QED
    BY <2>3, <2>4
<1>3. ASSUME disk' = disk, thr'[t] = thr[t]
      PROVE  disk'[thr'[t].file] = NoFile
  BY <1>3 DEF Exists, NameInv
<1>4. ASSUME NEW u \in Threads, NoName(u)
      PROVE  disk' = disk /\ thr'[t] = thr[t]
  <2> DEFINE w == thr[u].work
  <2>1. w \in Work /\ w.todo # <<>>
    BY <1>4, WorkFacts DEF NoName
  <2>2. CASE Proceed(u, Dropped(w))
    <3>1. Dropped(w) \in Work
      BY <2>1, DroppedFacts
    <3>2. thr'[t] = thr[t]
      BY <2>2, <3>1, ProceedFacts
    <3> QED
      BY <1>4, <3>2 DEF NoName
  <2>3. CASE thr' = [thr EXCEPT ![u] = [pc |-> "raise", work |-> w]]
    BY <1>4, <2>3 DEF NoName, ExportsTypeOK
  <2> QED
    BY <1>4, <2>2, <2>3 DEF NoName
<1>5. ASSUME NEW u \in Threads, NEW b \in Bases, NEW l \in Lists,
             ExportCall(u, b, l)
      PROVE  disk' = disk /\ thr'[t] = thr[t]
  BY <1>5 DEF ExportCall, ExportsTypeOK
<1>6. ASSUME NEW u \in Threads, Return(u)
      PROVE  disk' = disk /\ thr'[t] = thr[t]
  BY <1>6 DEF Return, ExportsTypeOK, Idle
<1>7. ASSUME NEW p \in Parts, Change(p)
      PROVE  disk' = disk /\ thr'[t] = thr[t]
  BY <1>7 DEF Change
<1>8. CASE UNCHANGED exportsVars
  BY <1>3, <1>8 DEF exportsVars
<1> QED
  BY <1>1, <1>2, <1>3, <1>4, <1>5, <1>6, <1>7, <1>8 DEF ExportsNext, Step

-----------------------------------------------------------------------------
(* Theorems.                                                               *)

\* The state of export_model stays of its type, for any parts, lists, names
\* and calls, however they overlap.
THEOREM ExportsTypeCorrect == ExportsSpec => []ExportsTypeOK
<1>1. ExportsInit => ExportsTypeOK
  BY ExportsInitSafe DEF ExportsSafe
<1>2. ExportsTypeOK /\ [ExportsNext]_exportsVars => ExportsTypeOK'
  BY ExportsTypeKept
<1> QED
  BY <1>1, <1>2, PTL DEF ExportsSpec

\* While no two calls have been given one name, every export that the session
\* lists is on disk as its call wrote it, whichever names mean one file.
THEOREM ExportsAreThere ==
    ExportsSpec /\ []NoSharedName => []ListedIsThere
<1>1. ExportsInit => ExportsSafe
  BY ExportsInitSafe
<1>2. ExportsSafe /\ NoSharedName /\ [ExportsNext]_exportsVars => ExportsSafe'
  BY ExportsTypeKept, NameKept, ListedKept DEF ExportsSafe
<1>3. ExportsSafe => ListedIsThere
  BY DEF ExportsSafe
<1> QED
  BY <1>1, <1>2, <1>3, PTL DEF ExportsSpec

\* unique_output_path "never overwrites", while no two calls have been given
\* one name.
THEOREM NothingOverwritten ==
    ExportsSpec /\ []NoSharedName => NeverOverwrites
<1>1. ExportsInit => ExportsSafe
  BY ExportsInitSafe
<1>2. ExportsSafe /\ NoSharedName /\ [ExportsNext]_exportsVars => ExportsSafe'
  BY ExportsTypeKept, NameKept, ListedKept DEF ExportsSafe
<1>3. ExportsSafe /\ [ExportsNext]_exportsVars
         => [\A f \in Paths : Exists(f) => disk'[f] = disk[f]]_exportsVars
  BY WrittenIsNew
<1> QED
  BY <1>1, <1>2, <1>3, PTL DEF ExportsSpec, NeverOverwrites

\* It is so in particular for a client that makes one call at a time.
THEOREM OneByOneOverwritesNothing ==
    ExportsSpec /\ []OneByOne => NeverOverwrites /\ []ListedIsThere
<1>1. OneByOne => NoSharedName
  BY DEF OneByOne, NoSharedName, Idle
<1> QED
  BY <1>1, ExportsAreThere, NothingOverwritten, PTL

-----------------------------------------------------------------------------
(* validate_mesh: the regions of overhanging faces.                        *)

RegionTypeOK ==
    /\ corners \in [Faces -> SUBSET Vertices]
    /\ flagged \subseteq Faces
    /\ parent \in [Faces -> Faces]
    /\ todo \subseteq Union
    /\ group \subseteq flagged
    /\ at \in [pc: {"next", "first", "other", "group"}, x: Faces, root: Faces]
    /\ groups \in [Faces -> SUBSET Faces]

\* The parents are a forest: rt takes a face to the root of its tree, and
\* d grows on the way there.
Forest(rt, d) ==
    /\ rt \in [Faces -> Faces]
    /\ d \in [Faces -> Nat]
    /\ \A f \in Faces : rt[parent[f]] = rt[f] /\ parent[rt[f]] = rt[f]
    /\ \A f \in Faces : parent[f] = f => rt[f] = f
    /\ \A f \in Faces : parent[f] # f => d[f] < d[parent[f]]

\* A tree is never larger than a region.
Sound(rt) ==
    \A S \in SUBSET flagged : Closed(S) =>
        \A f \in Faces : f \in S <=> rt[f] \in S

AllUnions == UNION {Unions(v) : v \in Vertices}

\* The unions made so far have joined the trees of their faces.
Joined(rt) ==
    /\ todo \subseteq AllUnions
    /\ \A u \in AllUnions \ todo : rt[u.first] = rt[u.other]

\* A walk stays in the tree in which it began, and the root of the first face
\* is a root as long as it is needed.
WalkInv(rt) ==
    /\ at.pc = "first" => \A u \in todo : NextOne(u) => rt[at.x] = rt[u.first]
    /\ at.pc = "other" =>
          /\ parent[at.root] = at.root
          /\ \A u \in todo : NextOne(u) =>
                rt[at.root] = rt[u.first] /\ rt[at.x] = rt[u.other]
    /\ at.pc = "group" =>
          /\ todo = {}
          /\ \A f \in group : Least(group, f) => rt[at.x] = rt[f]

\* The faces that have been put into groups are with their roots; none is
\* before the unions are made.
GroupInv(rt) ==
    /\ todo # {} => group = flagged
    /\ \A r \in Faces : groups[r] = {f \in flagged \ group : rt[f] = r}

RegionSafe(rt, d) ==
    Forest(rt, d) /\ Sound(rt) /\ Joined(rt) /\ WalkInv(rt) /\ GroupInv(rt)

RegionInv == RegionTypeOK /\ \E rt, d : RegionSafe(rt, d)

-----------------------------------------------------------------------------
(* The unions.                                                             *)

LEMMA UnionFacts ==
    ASSUME RegionTypeOK, NEW u \in AllUnions
    PROVE  /\ u \in Union
           /\ u.first \in flagged /\ u.other \in flagged
           /\ u.first \in Faces /\ u.other \in Faces
           /\ u.vertex \in corners[u.first] \intersect corners[u.other]
<1>1. PICK v \in Vertices : u \in Unions(v)
  BY DEF AllUnions
<1> QED
  BY <1>1 DEF Unions, Least, Touching, RegionTypeOK

\* The next union is one.
LEMMA NextIsOne ==
    ASSUME RegionTypeOK, NEW u \in todo, NEW w \in todo, NextOne(u), NextOne(w)
    PROVE  u = w
<1> SUFFICES ASSUME u # w
             PROVE  FALSE
  OBVIOUS
<1>1. Before(u, w) /\ Before(w, u)
  BY DEF NextOne
<1>2. /\ u \in Union /\ w \in Union /\ Vertices \subseteq Nat
      /\ Faces \subseteq Nat
  BY OverhangsAssumption DEF RegionTypeOK, Faces
<1>3. /\ u.vertex \in Nat /\ w.vertex \in Nat
      /\ u.other \in Nat /\ w.other \in Nat
  BY <1>2 DEF Union
<1> QED
  BY <1>1, <1>3 DEF Before

\* Two flagged faces at a vertex are joined, each to the first one there.
LEMMA MeetingFaces ==
    ASSUME RegionTypeOK, NEW rt, Joined(rt), todo = {},
           NEW f \in flagged, NEW g \in flagged,
           corners[f] \intersect corners[g] # {}
    PROVE  rt[f] = rt[g]
<1>1. PICK v \in Vertices : v \in corners[f] /\ v \in corners[g]
  BY DEF RegionTypeOK
<1>2. f \in Touching(v) /\ g \in Touching(v)
  BY <1>1 DEF Touching
<1>3. PICK h \in Touching(v) : Least(Touching(v), h)
  <2>1. Touching(v) \in SUBSET Nat /\ Touching(v) # {}
    <3>1. Faces \subseteq Nat
      BY DEF Faces
    <3> QED
      BY <1>2, <3>1 DEF Touching, RegionTypeOK
  <2>2. PICK h \in Touching(v) : \A k \in Touching(v) : h <= k
    BY <2>1, LeastNatural
  <2> QED
    BY <2>2 DEF Least
<1>4. ASSUME NEW k \in Touching(v)
      PROVE  rt[h] = rt[k]
  <2>1. CASE k = h
    BY <2>1
  <2>2. CASE k # h
    <3> DEFINE u == [vertex |-> v, first |-> h, other |-> k]
    <3>1. u \in Union
      BY <1>3, <1>4 DEF Union, Touching, RegionTypeOK
    <3>2. u \in Unions(v)
      BY <1>3, <1>4, <2>2, <3>1 DEF Unions
    <3>3. u \in AllUnions
      BY <3>2 DEF AllUnions
    <3> HIDE DEF u
    <3>4. rt[u.first] = rt[u.other]
      BY <3>3 DEF Joined
    <3> QED
      BY <3>4 DEF u
  <2> QED
    BY <2>1, <2>2
<1> QED
  BY <1>2, <1>4

-----------------------------------------------------------------------------
(* The invariant.                                                          *)

LEMMA RegionInvStarts ==
    ASSUME corners \in [Faces -> SUBSET Vertices], flagged \subseteq Faces,
           parent = [f \in Faces |-> f], todo = AllUnions, group = flagged,
           at = NoWalk, groups = [f \in Faces |-> {}]
    PROVE  RegionInv
<1> DEFINE rt == [f \in Faces |-> f]
           d == [f \in Faces |-> 0]
<1>1. RegionTypeOK
  <2>1. AllUnions \subseteq Union
    BY DEF AllUnions, Unions
  <2>2. 1 \in Faces
    BY OverhangsAssumption DEF Faces
  <2> QED
    BY <2>1, <2>2 DEF RegionTypeOK, NoWalk
<1>2. Forest(rt, d)
  BY DEF Forest
<1>3. Sound(rt)
  BY DEF Sound
<1>4. Joined(rt)
  BY DEF Joined
<1>5. WalkInv(rt)
  BY DEF WalkInv, NoWalk
<1>6. GroupInv(rt)
  BY DEF GroupInv
<1> HIDE DEF rt, d
<1> QED
  BY <1>1, <1>2, <1>3, <1>4, <1>5, <1>6 DEF RegionInv, RegionSafe

\* A root is its own.
LEMMA RootFound ==
    ASSUME NEW rt, NEW d, Forest(rt, d), NEW f \in Faces, parent[f] = f
    PROVE  rt[f] = f
BY DEF Forest

\* A step of find() keeps every tree together.
LEMMA HalveKeeps ==
    ASSUME RegionTypeOK, NEW rt, NEW d, RegionSafe(rt, d), Halve
    PROVE  RegionTypeOK' /\ RegionSafe(rt, d)'
<1> DEFINE x == at.x
           p == parent[at.x]
           q == parent[parent[at.x]]
<1>1. /\ x \in Faces /\ p \in Faces /\ q \in Faces
      /\ p # x /\ parent' = [parent EXCEPT ![x] = q]
      /\ at' = [at EXCEPT !.x = q]
      /\ UNCHANGED <<corners, flagged, todo, group, groups>>
  BY DEF Halve, RegionTypeOK
<1>2. /\ at' \in [pc: {"next", "first", "other", "group"}, x: Faces, root: Faces]
      /\ at'.pc = at.pc /\ at'.x = q /\ at'.root = at.root
      /\ at.root \in Faces
  BY <1>1 DEF RegionTypeOK
<1>3. RegionTypeOK'
  BY <1>1, <1>2 DEF RegionTypeOK
<1>4. /\ rt[q] = rt[x]
      /\ d[x] < d[q] /\ q # x
  <2>1. rt[q] = rt[p] /\ rt[p] = rt[x]
    BY <1>1 DEF RegionSafe, Forest
  <2>2. d[x] < d[p] /\ (q # p => d[p] < d[q])
    BY <1>1 DEF RegionSafe, Forest
  <2>3. d[x] \in Nat /\ d[p] \in Nat /\ d[q] \in Nat
    BY <1>1 DEF RegionSafe, Forest
  <2> HIDE DEF x, p, q
  <2> QED
    BY <2>1, <2>2, <2>3
<1>5. \A f \in Faces : parent'[f] = IF f = x THEN q ELSE parent[f]
  BY <1>1 DEF RegionTypeOK
<1> HIDE DEF x, p, q
<1>6. Forest(rt, d)'
  <2>1. \A f \in Faces : rt[f] \in Faces /\ rt[f] # x
    BY <1>1 DEF RegionSafe, Forest, x, p
  <2> QED
    BY <1>1, <1>4, <1>5, <2>1 DEF RegionSafe, Forest
<1>7. Sound(rt)'
  BY <1>1 DEF RegionSafe, Sound, Closed
<1>8. Joined(rt)'
  BY <1>1 DEF RegionSafe, Joined, AllUnions, Unions, Least, Touching
<1>9. WalkInv(rt)'
  <2>1. at.pc = "other" => at.root # x
    BY <1>1 DEF RegionSafe, WalkInv, x, p
  <2> QED
    BY <1>1, <1>2, <1>4, <1>5, <2>1
       DEF RegionSafe, WalkInv, NextOne, Before, Least, x
<1>10. GroupInv(rt)'
  BY <1>1 DEF RegionSafe, GroupInv
<1> QED
  BY <1>3, <1>6, <1>7, <1>8, <1>9, <1>10 DEF RegionSafe

\* A walk begins, or the second one of a union.
LEMMA WalkKeeps ==
    ASSUME RegionTypeOK, NEW rt, NEW d, RegionSafe(rt, d),
           \/ \E u \in todo : NextUnion(u) \/ FirstFound(u)
           \/ \E f \in group : NextMember(f)
    PROVE  RegionTypeOK' /\ RegionSafe(rt, d)'
<1>1. UNCHANGED <<corners, flagged, parent, todo, group, groups>>
  BY DEF NextUnion, FirstFound, NextMember
<1>2. /\ Forest(rt, d)' /\ Sound(rt)' /\ Joined(rt)' /\ GroupInv(rt)'
  <2>1. Forest(rt, d)'
    BY <1>1 DEF RegionSafe, Forest
  <2>2. Sound(rt)'
    BY <1>1 DEF RegionSafe, Sound, Closed
  <2>3. Joined(rt)'
    BY <1>1 DEF RegionSafe, Joined, AllUnions, Unions, Least, Touching
  <2>4. GroupInv(rt)'
    BY <1>1 DEF RegionSafe, GroupInv
  <2> QED
    BY <2>1, <2>2, <2>3, <2>4
<1>3. \A u \in todo : NextOne(u)' <=> NextOne(u)
  BY <1>1 DEF NextOne, Before
<1>4. \A u \in todo : u.first \in Faces /\ u.other \in Faces
  BY DEF RegionTypeOK, Union
<1>5. ASSUME NEW u \in todo, NextUnion(u)
      PROVE  RegionTypeOK' /\ WalkInv(rt)'
  <2>1. /\ at' \in [pc: {"next", "first", "other", "group"}, x: Faces,
                    root: Faces]
        /\ at'.pc = "first" /\ at'.x = u.first /\ NextOne(u)
    BY <1>4, <1>5 DEF NextUnion, RegionTypeOK
  <2>2. \A w \in todo : NextOne(w) => w = u
    BY <2>1, NextIsOne
  <2>3. WalkInv(rt)'
    BY <1>1, <1>3, <2>1, <2>2 DEF WalkInv
  <2> QED
    BY <1>1, <2>1, <2>3 DEF RegionTypeOK
<1>6. ASSUME NEW u \in todo, FirstFound(u)
      PROVE  RegionTypeOK' /\ WalkInv(rt)'
  <2>1. /\ at' = [pc |-> "other", x |-> u.other, root |-> at.x]
        /\ at.pc = "first" /\ NextOne(u) /\ parent[at.x] = at.x
        /\ at.x \in Faces
    BY <1>6 DEF FirstFound, RegionTypeOK
  <2>2. \A w \in todo : NextOne(w) => w = u
    BY <2>1, NextIsOne
  <2>3. rt[at.x] = rt[u.first]
    BY <2>1 DEF RegionSafe, WalkInv
  <2>4. WalkInv(rt)'
    BY <1>1, <1>3, <2>1, <2>2, <2>3 DEF WalkInv
  <2> QED
    BY <1>1, <1>4, <2>1, <2>4 DEF RegionTypeOK
<1>7. ASSUME NEW f \in group, NextMember(f)
      PROVE  RegionTypeOK' /\ WalkInv(rt)'
  <2>1. f \in Faces
    BY DEF RegionTypeOK
  <2>2. /\ at' \in [pc: {"next", "first", "other", "group"}, x: Faces,
                    root: Faces]
        /\ at'.pc = "group" /\ at'.x = f /\ todo = {} /\ Least(group, f)
    BY <1>7, <2>1 DEF NextMember, RegionTypeOK
  <2>3. \A g \in group : Least(group, g) => g = f
    BY <2>2, OverhangsAssumption DEF Least, RegionTypeOK, Faces
  <2>4. WalkInv(rt)'
    BY <1>1, <2>2, <2>3 DEF WalkInv, Least
  <2> QED
    BY <1>1, <2>2, <2>4 DEF RegionTypeOK
<1> QED
  BY <1>2, <1>5, <1>6, <1>7 DEF RegionSafe

\* A union hangs one tree on the root of the other.
LEMMA UnionKeeps ==
    ASSUME RegionTypeOK, NEW rt, NEW d, RegionSafe(rt, d),
           NEW u \in todo, OtherFound(u)
    PROVE  RegionTypeOK' /\ \E rt2, d2 : RegionSafe(rt2, d2)'
<1>a. PICK x, r : x = at.x /\ r = at.root
  OBVIOUS
<1>b. PICK rt2 : rt2 = [f \in Faces |-> IF rt[f] = x THEN r ELSE rt[f]]
  OBVIOUS
<1>c. PICK d2 : d2 = IF r = x THEN d ELSE [d EXCEPT ![r] = d[r] + d[x] + 1]
  OBVIOUS
<1>1. /\ x \in Faces /\ r \in Faces /\ at.pc = "other" /\ NextOne(u)
      /\ parent[x] = x
      /\ parent' = [parent EXCEPT ![x] = r]
      /\ todo' = todo \ {u} /\ at' = NoWalk
      /\ UNCHANGED <<corners, flagged, group, groups>>
  BY <1>a DEF OtherFound, RegionTypeOK
<1>2. /\ parent[r] = r /\ rt[r] = r /\ rt[x] = x
      /\ rt[u.first] = r /\ rt[u.other] = x
  BY <1>1, <1>a, RootFound DEF RegionSafe, WalkInv
<1>3. u \in AllUnions
  BY DEF RegionSafe, Joined
<1>4. RegionTypeOK'
  <2>1. 1 \in Faces
    BY OverhangsAssumption DEF Faces
  <2> QED
    BY <1>1, <2>1 DEF RegionTypeOK, NoWalk
<1>5. \A f \in Faces : parent'[f] = IF f = x THEN r ELSE parent[f]
  BY <1>1 DEF RegionTypeOK
<1>6. /\ rt \in [Faces -> Faces] /\ d \in [Faces -> Nat]
      /\ parent \in [Faces -> Faces]
      /\ \A f \in Faces : rt[f] \in Faces /\ parent[f] \in Faces /\ d[f] \in Nat
  BY DEF RegionSafe, Forest, RegionTypeOK
<1>7. /\ rt2 \in [Faces -> Faces] /\ d2 \in [Faces -> Nat]
      /\ \A f \in Faces : rt2[f] = IF rt[f] = x THEN r ELSE rt[f]
      /\ r = x => d2 = d
      /\ r # x => \A f \in Faces :
                     d2[f] = IF f = r THEN d[r] + d[x] + 1 ELSE d[f]
  BY <1>1, <1>6, <1>b, <1>c
<1>8. Forest(rt2, d2)'
  <2>1. CASE r = x
    <3>1. \A f \in Faces : parent'[f] = parent[f] /\ rt2[f] = rt[f]
      BY <1>2, <1>5, <1>7, <2>1
    <3> QED
      BY <1>6, <1>7, <2>1, <3>1 DEF RegionSafe, Forest
  <2>2. CASE r # x
    <3>1. \A f \in Faces : /\ rt2[parent'[f]] = rt2[f]
                           /\ parent'[rt2[f]] = rt2[f]
      BY <1>1, <1>2, <1>5, <1>6, <1>7, <2>2 DEF RegionSafe, Forest
    <3>2. \A f \in Faces : parent'[f] = f => rt2[f] = f
      BY <1>1, <1>2, <1>5, <1>6, <1>7, <2>2 DEF RegionSafe, Forest
    <3>3. ASSUME NEW f \in Faces, parent'[f] # f
          PROVE  d2[f] < d2[parent'[f]]
      <4>1. CASE f = x
        BY <1>1, <1>5, <1>6, <1>7, <2>2, <4>1
      <4>2. CASE f # x
        <5>1. parent'[f] = parent[f] /\ f # r /\ d[f] < d[parent[f]]
          BY <1>2, <1>5, <3>3, <4>2 DEF RegionSafe, Forest
        <5>2. d2[f] = d[f] /\ d[parent[f]] <= d2[parent[f]]
          BY <1>1, <1>6, <1>7, <2>2, <5>1
        <5>3. d2[parent[f]] \in Nat
          BY <1>6, <1>7
        <5> QED
          BY <1>6, <5>1, <5>2, <5>3
      <4> QED
        BY <4>1, <4>2
    <3> QED
      BY <1>7, <3>1, <3>2, <3>3 DEF Forest
  <2> QED
    BY <2>1, <2>2
<1>9. Sound(rt2)'
  <2> SUFFICES ASSUME NEW S \in SUBSET flagged, Closed(S), NEW f \in Faces
               PROVE  f \in S <=> rt2[f] \in S
    BY <1>1 DEF Sound, Closed
  <2>1. \A g \in Faces : g \in S <=> rt[g] \in S
    BY DEF RegionSafe, Sound
  <2>2. u.first \in S <=> u.other \in S
    BY <1>3, UnionFacts DEF Closed
  <2>3. r \in S <=> x \in S
    BY <1>2, <1>3, <2>1, <2>2, UnionFacts
  <2> QED
    BY <1>7, <2>1, <2>3
<1>10. Joined(rt2)'
  <2>1. AllUnions' = AllUnions
    BY <1>1 DEF AllUnions, Unions, Least, Touching
  <2>2. todo' \subseteq AllUnions
    BY <1>1 DEF RegionSafe, Joined
  <2>3. \A w \in AllUnions \ todo : rt2[w.first] = rt2[w.other]
    BY <1>7, UnionFacts DEF RegionSafe, Joined
  <2>4. rt2[u.first] = rt2[u.other]
    BY <1>2, <1>3, <1>7, UnionFacts
  <2> QED
    BY <1>1, <2>1, <2>2, <2>3, <2>4 DEF Joined
<1>11. WalkInv(rt2)'
  BY <1>1 DEF WalkInv, NoWalk
<1>12. GroupInv(rt2)'
  <2>1. group = flagged /\ \A f \in Faces : groups[f] = {}
    BY DEF RegionSafe, GroupInv
  <2> QED
    BY <1>1, <2>1 DEF GroupInv
<1> QED
  BY <1>4, <1>8, <1>9, <1>10, <1>11, <1>12 DEF RegionSafe

\* A face is put into the group of its root.
LEMMA MemberKeeps ==
    ASSUME RegionTypeOK, NEW rt, NEW d, RegionSafe(rt, d),
           NEW f \in group, MemberFound(f)
    PROVE  RegionTypeOK' /\ RegionSafe(rt, d)'
<1>1. /\ at.pc = "group" /\ Least(group, f) /\ parent[at.x] = at.x
      /\ groups' = [groups EXCEPT ![at.x] = groups[at.x] \union {f}]
      /\ group' = group \ {f} /\ at' = NoWalk
      /\ UNCHANGED <<corners, flagged, parent, todo>>
      /\ at.x \in Faces /\ f \in Faces /\ f \in flagged
  BY DEF MemberFound, RegionTypeOK
<1>2. todo = {} /\ rt[f] = at.x
  BY <1>1, RootFound DEF RegionSafe, WalkInv
<1>3. RegionTypeOK'
  <2>1. 1 \in Faces
    BY OverhangsAssumption DEF Faces
  <2>2. groups' \in [Faces -> SUBSET Faces]
    BY <1>1 DEF RegionTypeOK
  <2> QED
    BY <1>1, <2>1, <2>2 DEF RegionTypeOK, NoWalk
<1>4. Forest(rt, d)'
  BY <1>1 DEF RegionSafe, Forest
<1>5. Sound(rt)'
  BY <1>1 DEF RegionSafe, Sound, Closed
<1>6. Joined(rt)'
  BY <1>1 DEF RegionSafe, Joined, AllUnions, Unions, Least, Touching
<1>7. WalkInv(rt)'
  BY <1>1 DEF WalkInv, NoWalk
<1>8. GroupInv(rt)'
  <2> SUFFICES ASSUME NEW r \in Faces
               PROVE  groups'[r] = {g \in flagged \ group' : rt[g] = r}
    BY <1>1, <1>2 DEF GroupInv
  <2>1. groups[r] = {g \in flagged \ group : rt[g] = r}
    BY DEF RegionSafe, GroupInv
  <2>2. groups'[r] = IF r = at.x THEN groups[r] \union {f} ELSE groups[r]
    BY <1>1 DEF RegionTypeOK
  <2> QED
    BY <1>1, <1>2, <2>1, <2>2
<1> QED
  BY <1>3, <1>4, <1>5, <1>6, <1>7, <1>8 DEF RegionSafe

LEMMA RegionInvKept ==
    ASSUME RegionInv, RegionStep \/ UNCHANGED regionVars
    PROVE  RegionInv'
<1>1. PICK rt, d : RegionSafe(rt, d)
  BY DEF RegionInv
<1>2. RegionTypeOK
  BY DEF RegionInv
<1>3. CASE Halve
  BY <1>1, <1>2, <1>3, HalveKeeps DEF RegionInv
<1>4. CASE \/ \E u \in todo : NextUnion(u) \/ FirstFound(u)
           \/ \E f \in group : NextMember(f)
  BY <1>1, <1>2, <1>4, WalkKeeps DEF RegionInv
<1>5. ASSUME NEW u \in todo, OtherFound(u)
      PROVE  RegionInv'
  BY <1>1, <1>2, <1>5, UnionKeeps DEF RegionInv
<1>6. ASSUME NEW f \in group, MemberFound(f)
      PROVE  RegionInv'
  BY <1>1, <1>2, <1>6, MemberKeeps DEF RegionInv
<1>7. CASE UNCHANGED regionVars
  <2>1. RegionTypeOK'
    BY <1>2, <1>7 DEF regionVars, RegionTypeOK
  <2>2. Forest(rt, d)'
    BY <1>1, <1>7 DEF regionVars, RegionSafe, Forest
  <2>3. Sound(rt)'
    BY <1>1, <1>7 DEF regionVars, RegionSafe, Sound, Closed
  <2>4. Joined(rt)'
    BY <1>1, <1>7 DEF regionVars, RegionSafe, Joined, AllUnions, Unions, Least,
                      Touching
  <2>5. WalkInv(rt)'
    BY <1>1, <1>7 DEF regionVars, RegionSafe, WalkInv, NextOne, Before, Least
  <2>6. GroupInv(rt)'
    BY <1>1, <1>7 DEF regionVars, RegionSafe, GroupInv
  <2> QED
    BY <2>1, <2>2, <2>3, <2>4, <2>5, <2>6 DEF RegionInv, RegionSafe
<1> QED
  BY <1>3, <1>4, <1>5, <1>6, <1>7 DEF RegionStep

-----------------------------------------------------------------------------
(* The groups and the regions.                                             *)

\* When all is done, the flagged faces with one root are a region.
LEMMA TreesAreRegions ==
    ASSUME RegionTypeOK, NEW rt, NEW d, RegionSafe(rt, d), todo = {},
           NEW f \in flagged
    PROVE  {g \in flagged : rt[g] = rt[f]} \in Regions
<1> DEFINE C == {g \in flagged : rt[g] = rt[f]}
<1>1. f \in C /\ C \subseteq flagged
  OBVIOUS
<1>2. Closed(C)
  <2> SUFFICES ASSUME NEW g \in C, NEW h \in flagged,
                      corners[g] \intersect corners[h] # {}
               PROVE  h \in C
    BY DEF Closed
  <2>1. rt[g] = rt[h]
    BY MeetingFaces DEF RegionSafe
  <2> QED
    BY <2>1
<1>3. ASSUME NEW T \in (SUBSET C) \ {{}, C}, Closed(T)
      PROVE  FALSE
  <2>1. PICK t \in T : TRUE
    OBVIOUS
  <2>2. T \in SUBSET flagged
    BY <1>1
  <2>3. \A g \in Faces : g \in T <=> rt[g] \in T
    BY <1>3, <2>2 DEF RegionSafe, Sound
  <2>4. t \in flagged /\ rt[t] = rt[f] /\ rt[f] \in T
    BY <2>1, <2>3 DEF RegionTypeOK
  <2>5. C \subseteq T
    BY <2>3, <2>4 DEF RegionTypeOK
  <2> QED
    BY <1>3, <2>5
<1> HIDE DEF C
<1>4. C \in Regions
  BY <1>1, <1>2, <1>3 DEF Regions
<1> QED
  BY <1>4 DEF C

\* A region is one of them.
LEMMA RegionsAreTrees ==
    ASSUME RegionTypeOK, NEW rt, NEW d, RegionSafe(rt, d), todo = {},
           NEW S \in Regions
    PROVE  \E f \in flagged : S = {g \in flagged : rt[g] = rt[f]}
<1>1. /\ S \in SUBSET flagged /\ S # {} /\ Closed(S)
      /\ \A T \in (SUBSET S) \ {{}, S} : ~ Closed(T)
  BY DEF Regions
<1>2. PICK f \in S : f \in flagged
  BY <1>1
<1> DEFINE C == {g \in flagged : rt[g] = rt[f]}
<1>3. C \in Regions /\ f \in C
  BY <1>2, TreesAreRegions
<1>4. C \subseteq S
  <2>1. \A g \in Faces : g \in S <=> rt[g] \in S
    BY <1>1 DEF RegionSafe, Sound
  <2> QED
    BY <1>2, <2>1 DEF RegionTypeOK
<1>5. Closed(C) /\ C # {}
  BY <1>3 DEF Regions
<1> HIDE DEF C
<1>6. C = S
  BY <1>1, <1>4, <1>5
<1> QED
  BY <1>2, <1>6 DEF C

LEMMA RegionInvSuffices ==
    ASSUME RegionInv
    PROVE  RegionsAreComponents
<1> SUFFICES ASSUME Clustered
             PROVE  {groups[f] : f \in Faces} \ {{}} = Regions
  BY DEF RegionsAreComponents
<1>1. PICK rt, d : RegionSafe(rt, d)
  BY DEF RegionInv
<1>2. RegionTypeOK /\ todo = {} /\ group = {}
  BY DEF RegionInv, Clustered
<1>3. \A r \in Faces : groups[r] = {g \in flagged : rt[g] = r}
  BY <1>1, <1>2 DEF RegionSafe, GroupInv
<1>4. ASSUME NEW f \in Faces, groups[f] # {}
      PROVE  groups[f] \in Regions
  <2>1. PICK g \in flagged : rt[g] = f
    BY <1>3, <1>4
  <2>2. groups[f] = {h \in flagged : rt[h] = rt[g]}
    BY <1>3, <2>1
  <2> QED
    BY <1>1, <1>2, <2>2, TreesAreRegions
<1>5. ASSUME NEW S \in Regions
      PROVE  S # {} /\ \E f \in Faces : S = groups[f]
  <2>1. PICK g \in flagged : S = {h \in flagged : rt[h] = rt[g]}
    BY <1>1, <1>2, RegionsAreTrees
  <2>2. rt[g] \in Faces
    BY <1>1, <1>2 DEF RegionSafe, Forest, RegionTypeOK
  <2>3. S = groups[rt[g]]
    BY <1>3, <2>1, <2>2
  <2> QED
    BY <2>2, <2>3 DEF Regions
<1> QED
  BY <1>4, <1>5

-----------------------------------------------------------------------------
(* canonicalise_3mf: the numbers of the UUIDs.                             *)

\* No UUID is met twice.
Distinct(seen) ==
    \A i, j \in DOMAIN seen : seen[i] = seen[j] => i = j

\* One sequence of UUIDs is another, redrawn.
Renamed(s, t, rho) ==
    DOMAIN t = DOMAIN s /\ \A i \in DOMAIN s : t[i] = rho[s[i]]

\* The equation of Met's definition.
LEMMA MetEquation ==
    ASSUME NEW s \in Seq(Uuids)
    PROVE  /\ Met(s) \in [0 .. Len(s) -> Seq(Uuids)]
           /\ Met(s)[0] = <<>>
           /\ \A k \in 1 .. Len(s) :
                 Met(s)[k] = IF Contains(Met(s)[k - 1], s[k])
                             THEN Met(s)[k - 1]
                             ELSE Append(Met(s)[k - 1], s[k])
<1> DEFINE n == Len(s)
           A == Seq(Uuids)
           step == [x \in (1 .. n) \X A |->
                       IF Contains(x[2], s[x[1]]) THEN x[2]
                       ELSE Append(x[2], s[x[1]])]
           Solves(g) == g = [k \in 0 .. n |->
                               IF k = 0 THEN <<>>
                               ELSE IF Contains(g[k - 1], s[k]) THEN g[k - 1]
                                    ELSE Append(g[k - 1], s[k])]
<1>1. /\ n \in Nat /\ <<>> \in A
      /\ \A k \in 1 .. n : s[k] \in Uuids
  OBVIOUS
<1>2. step \in [(1 .. n) \X A -> A]
  <2>1. ASSUME NEW x \in (1 .. n) \X A
        PROVE  (IF Contains(x[2], s[x[1]]) THEN x[2]
                ELSE Append(x[2], s[x[1]])) \in A
    <3>1. x[1] \in 1 .. n /\ x[2] \in A /\ s[x[1]] \in Uuids
      BY <1>1
    <3>2. Append(x[2], s[x[1]]) \in A
      BY <3>1
    <3> QED
      BY <3>1, <3>2
  <2> QED
    BY <2>1
<1>3. PICK f \in [0 .. n -> A] : Runs(f, n, <<>>, step)
  <2> HIDE DEF n, A, step
  <2> QED
    BY <1>1, <1>2, LoopsRun
<1>4. \A k \in 1 .. n : f[k] = IF Contains(f[k - 1], s[k]) THEN f[k - 1]
                               ELSE Append(f[k - 1], s[k])
  <2> TAKE k \in 1 .. n
  <2>1. f[k] = step[<<k, f[k - 1]>>]
    BY <1>3 DEF Runs
  <2>2. k - 1 \in 0 .. n /\ f[k - 1] \in A
    <3> HIDE DEF n, A
    <3> QED
      BY <1>1
  <2>3. <<k, f[k - 1]>> \in (1 .. n) \X A
    BY <2>2
  <2> QED
    BY <2>1, <2>3
<1>5. Solves(f)
  <2>1. f = [k \in 0 .. n |-> f[k]]
    BY <1>3
  <2>2. \A k \in 0 .. n : f[k] = IF k = 0 THEN <<>>
                                 ELSE IF Contains(f[k - 1], s[k]) THEN f[k - 1]
                                      ELSE Append(f[k - 1], s[k])
    <3> TAKE k \in 0 .. n
    <3>1. CASE k = 0
      BY <1>3, <3>1 DEF Runs
    <3>2. CASE k # 0
      <4>1. k \in 1 .. n
        BY <3>2
      <4> QED
        BY <1>4, <3>2, <4>1
    <3> QED
      BY <3>1, <3>2
  <2> QED
    BY <2>1, <2>2, Zenon
<1>6. Met(s) = CHOOSE g : Solves(g)
  BY DEF Met
<1> DEFINE w == Met(s)
<1>7. Solves(w)
  <2> HIDE DEF Solves
  <2> QED
    BY <1>5, <1>6
<1>8. \A k \in 0 .. n : w[k] = IF k = 0 THEN <<>>
                               ELSE IF Contains(w[k - 1], s[k]) THEN w[k - 1]
                                    ELSE Append(w[k - 1], s[k])
  <2> HIDE DEF w
  <2> QED
    BY <1>7, Zenon
<1>9. /\ w[0] = <<>>
      /\ \A k \in 1 .. n : w[k] = IF Contains(w[k - 1], s[k]) THEN w[k - 1]
                                  ELSE Append(w[k - 1], s[k])
  <2>1. /\ 0 \in 0 .. n
        /\ \A k \in 1 .. n : k \in 0 .. n /\ k # 0
    BY <1>1
  <2> HIDE DEF w
  <2> QED
    BY <1>8, <2>1
<1>10. w \in [0 .. n -> A]
  <2> DEFINE Good == {k \in 0 .. n : w[k] \in A}
  <2>1. 0 \in Good
    <3> HIDE DEF w, n, A
    <3> QED
      BY <1>1, <1>9
  <2>2. \A k \in 1 .. n : k - 1 \in Good => k \in Good
    <3> TAKE k \in 1 .. n
    <3> HAVE k - 1 \in Good
    <3>1. w[k - 1] \in A /\ s[k] \in Uuids /\ k \in 0 .. n
      BY <1>1
    <3> HIDE DEF w
    <3>2. Append(w[k - 1], s[k]) \in A
      BY <3>1
    <3>3. w[k] \in A
      BY <1>9, <3>1, <3>2
    <3> QED
      BY <3>1, <3>3
  <2>3. \A k \in 0 .. n : k \in Good
    <3> HIDE DEF Good
    <3> QED
      BY <1>1, <2>1, <2>2, Induction
  <2>4. w = [k \in 0 .. n |-> w[k]]
    <3>1. \E F : w = [k \in 0 .. n |-> F[k]]
      <4> DEFINE F == [k \in 0 .. n |-> IF k = 0 THEN <<>>
                               ELSE IF Contains(w[k - 1], s[k]) THEN w[k - 1]
                                    ELSE Append(w[k - 1], s[k])]
      <4>1. w = F
        BY <1>7
      <4>2. F = [k \in 0 .. n |-> F[k]]
        OBVIOUS
      <4> QED
        BY <4>1, <4>2
    <3> HIDE DEF w
    <3> QED
      BY <3>1
  <2> HIDE DEF w
  <2> QED
    BY <2>3, <2>4
<1> QED
  BY <1>9, <1>10

\* A UUID is added to those that were met if it is not among them.
LEMMA StepFacts ==
    ASSUME NEW a \in Seq(Uuids), NEW u \in Uuids, Distinct(a),
           NEW b,
           Contains(a, u) => b = a,
           ~ Contains(a, u) => b = Append(a, u)
    PROVE  /\ b \in Seq(Uuids) /\ Distinct(b)
           /\ \E i \in DOMAIN b : b[i] = u
           /\ \A j \in DOMAIN a : j \in DOMAIN b /\ b[j] = a[j]
<1>1. CASE Contains(a, u)
  BY <1>1 DEF Contains
<1>2. CASE ~ Contains(a, u)
  <2>1. /\ b \in Seq(Uuids)
        /\ b[Len(a) + 1] = u /\ \A i \in 1 .. Len(a) : b[i] = a[i]
        /\ DOMAIN b = 1 .. Len(a) + 1 /\ DOMAIN a = 1 .. Len(a)
        /\ Len(a) \in Nat
    <3> DEFINE c == Append(a, u)
    <3>1. b = c
      BY <1>2
    <3>2. /\ c \in Seq(Uuids)
          /\ c[Len(a) + 1] = u /\ \A i \in 1 .. Len(a) : c[i] = a[i]
          /\ DOMAIN c = 1 .. Len(a) + 1 /\ DOMAIN a = 1 .. Len(a)
          /\ Len(a) \in Nat
      OBVIOUS
    <3> HIDE DEF c
    <3> QED
      BY <3>1, <3>2
  <2>2. \A i \in 1 .. Len(a) : a[i] # u
    BY <1>2 DEF Contains
  <2>3. ASSUME NEW i \in DOMAIN b, NEW j \in DOMAIN b, b[i] = b[j]
        PROVE  i = j
    <3>1. i \in 1 .. Len(a) \/ i = Len(a) + 1
      BY <2>1
    <3>2. j \in 1 .. Len(a) \/ j = Len(a) + 1
      BY <2>1
    <3> QED
      BY <2>1, <2>2, <2>3, <3>1, <3>2 DEF Distinct
  <2>4. Len(a) + 1 \in DOMAIN b
    BY <2>1
  <2> QED
    BY <2>1, <2>3, <2>4 DEF Distinct
<1> QED
  BY <1>1, <1>2

LEMMA MappingFacts ==
    ASSUME NEW s \in Seq(Uuids)
    PROVE  /\ Mapping(s) \in Seq(Uuids) /\ Distinct(Mapping(s))
           /\ \A k \in DOMAIN s : \E i \in DOMAIN Mapping(s) :
                 Mapping(s)[i] = s[k]
<1> DEFINE M == Met(s)
           n == Len(s)
           Good == {k \in 0 .. n :
                       /\ Distinct(M[k])
                       /\ \A j \in 1 .. k : \E i \in DOMAIN M[k] :
                             M[k][i] = s[j]}
<1>1. /\ n \in Nat /\ M \in [0 .. n -> Seq(Uuids)] /\ M[0] = <<>>
      /\ \A k \in 1 .. n : M[k] = IF Contains(M[k - 1], s[k]) THEN M[k - 1]
                                  ELSE Append(M[k - 1], s[k])
      /\ DOMAIN s = 1 .. n
  BY MetEquation
<1> HIDE DEF M, n
<1>2. 0 \in Good
  BY <1>1 DEF Distinct
<1>3. ASSUME NEW k \in 1 .. n, k - 1 \in Good
      PROVE  k \in Good
  <2>1. /\ M[k - 1] \in Seq(Uuids) /\ s[k] \in Uuids /\ Distinct(M[k - 1])
        /\ k \in 0 .. n
    BY <1>1, <1>3
  <2>2. /\ Distinct(M[k])
        /\ \E i \in DOMAIN M[k] : M[k][i] = s[k]
        /\ \A j \in DOMAIN M[k - 1] : j \in DOMAIN M[k] /\ M[k][j] = M[k - 1][j]
    <3> DEFINE a == M[k - 1]
               b == M[k]
               u == s[k]
    <3>1. /\ Contains(a, u) => b = a
          /\ ~ Contains(a, u) => b = Append(a, u)
      BY <1>1
    <3> HIDE DEF a, b, u
    <3>2. a \in Seq(Uuids) /\ u \in Uuids /\ Distinct(a)
      BY <2>1 DEF a, u
    <3>3. /\ Distinct(b)
          /\ \E i \in DOMAIN b : b[i] = u
          /\ \A j \in DOMAIN a : j \in DOMAIN b /\ b[j] = a[j]
      BY <3>1, <3>2, StepFacts
    <3> QED
      BY <3>3 DEF a, b, u
  <2>3. ASSUME NEW j \in 1 .. k
        PROVE  \E i \in DOMAIN M[k] : M[k][i] = s[j]
    <3>1. CASE j = k
      BY <2>2, <3>1
    <3>2. CASE j # k
      <4>1. j \in 1 .. k - 1
        BY <3>2
      <4>2. PICK i \in DOMAIN M[k - 1] : M[k - 1][i] = s[j]
        BY <1>3, <4>1
      <4> QED
        BY <2>2, <4>2
    <3> QED
      BY <3>1, <3>2
  <2> QED
    BY <2>1, <2>2, <2>3
<1>4. n \in Good
  <2> HIDE DEF Good
  <2>1. \A k \in 0 .. n : k \in Good
    BY <1>1, <1>2, <1>3, Induction
  <2> QED
    BY <1>1, <2>1
<1>5. Mapping(s) = M[n] /\ n \in 0 .. n
  BY <1>1 DEF Mapping, M, n
<1> QED
  BY <1>1, <1>4, <1>5

\* Of redrawn UUIDs the same ones are met, redrawn.
LEMMA MappingRenamed ==
    ASSUME NEW s \in Seq(Uuids), NEW t \in Seq(Uuids),
           NEW rho \in [Uuids -> Uuids],
           \A u, v \in Uuids : rho[u] = rho[v] => u = v,
           Renamed(s, t, rho)
    PROVE  Renamed(Mapping(s), Mapping(t), rho)
<1> DEFINE M == Met(s)
           N == Met(t)
           n == Len(s)
           Good == {k \in 0 .. n : Renamed(M[k], N[k], rho)}
<1>1. /\ n \in Nat /\ M \in [0 .. n -> Seq(Uuids)] /\ M[0] = <<>>
      /\ \A k \in 1 .. n : M[k] = IF Contains(M[k - 1], s[k]) THEN M[k - 1]
                                  ELSE Append(M[k - 1], s[k])
      /\ DOMAIN s = 1 .. n
  BY MetEquation
<1>2. Len(t) = n
  BY <1>1 DEF Renamed
<1>3. /\ N \in [0 .. n -> Seq(Uuids)] /\ N[0] = <<>>
      /\ \A k \in 1 .. n : N[k] = IF Contains(N[k - 1], t[k]) THEN N[k - 1]
                                  ELSE Append(N[k - 1], t[k])
  <2> HIDE DEF n
  <2> QED
    BY <1>2, MetEquation
<1> HIDE DEF M, N, n
<1>4. 0 \in Good
  BY <1>1, <1>3 DEF Renamed
<1>5. ASSUME NEW k \in 1 .. n, k - 1 \in Good
      PROVE  k \in Good
  <2> DEFINE a == M[k - 1]
             b == N[k - 1]
  <2>1. /\ a \in Seq(Uuids) /\ b \in Seq(Uuids) /\ s[k] \in Uuids
        /\ t[k] = rho[s[k]] /\ Renamed(a, b, rho) /\ k \in 0 .. n
    <3>1. k \in 0 .. n /\ k - 1 \in 0 .. n /\ Renamed(a, b, rho)
      BY <1>1, <1>5
    <3>2. s[k] \in Uuids /\ t[k] = rho[s[k]]
      BY DEF Renamed, n
    <3> HIDE DEF Good
    <3> QED
      BY <1>1, <1>3, <3>1, <3>2
  <2>2. /\ M[k] = IF Contains(a, s[k]) THEN a ELSE Append(a, s[k])
        /\ N[k] = IF Contains(b, t[k]) THEN b ELSE Append(b, t[k])
    BY <1>1, <1>3
  <2> HIDE DEF a, b
  <2>3. /\ Len(b) = Len(a) /\ Len(a) \in Nat
        /\ DOMAIN a = 1 .. Len(a) /\ DOMAIN b = 1 .. Len(a)
        /\ \A i \in 1 .. Len(a) : b[i] = rho[a[i]] /\ a[i] \in Uuids
    BY <2>1 DEF Renamed
  <2>4. Contains(a, s[k]) <=> Contains(b, t[k])
    BY <2>1, <2>3 DEF Contains
  <2>5. CASE Contains(a, s[k])
    BY <2>1, <2>2, <2>4, <2>5
  <2>6. CASE ~ Contains(a, s[k])
    <3>1. M[k] = Append(a, s[k]) /\ N[k] = Append(b, t[k])
      BY <2>2, <2>4, <2>6
    <3>2. /\ DOMAIN M[k] = 1 .. Len(a) + 1 /\ DOMAIN N[k] = 1 .. Len(a) + 1
          /\ M[k][Len(a) + 1] = s[k] /\ N[k][Len(a) + 1] = t[k]
          /\ \A i \in 1 .. Len(a) : M[k][i] = a[i] /\ N[k][i] = b[i]
      BY <2>1, <2>3, <3>1
    <3>3. \A i \in 1 .. Len(a) + 1 : i \in 1 .. Len(a) \/ i = Len(a) + 1
      BY <2>3
    <3>4. Renamed(M[k], N[k], rho)
      BY <2>1, <2>3, <3>2, <3>3 DEF Renamed
    <3> QED
      BY <2>1, <3>4
  <2> QED
    BY <2>5, <2>6
<1>6. n \in Good
  <2> HIDE DEF Good
  <2>1. \A k \in 0 .. n : k \in Good
    BY <1>1, <1>4, <1>5, Induction
  <2> QED
    BY <1>1, <2>1
<1> QED
  BY <1>2, <1>6 DEF Mapping, M, N, n

\* The number of a UUID that was met is where it is among them.
LEMMA NumberFacts ==
    ASSUME NEW seen, Distinct(seen), NEW i \in DOMAIN seen
    PROVE  Number(seen, seen[i]) = i
BY DEF Distinct, Number

-----------------------------------------------------------------------------
(* canonicalise_3mf: the members of a container, one after the other.      *)

\* The equation of FlattenSeq's definition.
LEMMA FlattenEquation ==
    ASSUME NEW d \in Seq(Seq(Uuids)), Len(d) # 0
    PROVE  \E w : /\ FlattenSeq(d) = w[Len(d)]
                  /\ w[1] = d[1]
                  /\ \A k \in 2 .. Len(d) : w[k] = w[k - 1] \o d[k]
<1> DEFINE n == Len(d)
           A == Seq(Uuids)
           step == [x \in (1 .. n) \X A |-> x[2] \o d[x[1]]]
           Solves(g) == g = [k \in 1 .. n |-> IF k = 1 THEN d[k]
                                              ELSE g[k - 1] \o d[k]]
<1>1. /\ n \in Nat /\ n >= 1 /\ <<>> \in A
      /\ \A k \in 1 .. n : d[k] \in A
  OBVIOUS
<1>2. step \in [(1 .. n) \X A -> A]
  <2>1. ASSUME NEW x \in (1 .. n) \X A
        PROVE  x[2] \o d[x[1]] \in A
    <3>1. x[2] \in A /\ d[x[1]] \in A
      BY <1>1
    <3> QED
      BY <3>1
  <2> QED
    BY <2>1
<1>3. PICK f \in [0 .. n -> A] : Runs(f, n, <<>>, step)
  <2> HIDE DEF n, A, step
  <2> QED
    BY <1>1, <1>2, LoopsRun
<1>4. \A k \in 1 .. n : f[k] = f[k - 1] \o d[k]
  <2> TAKE k \in 1 .. n
  <2>1. f[k] = step[<<k, f[k - 1]>>]
    BY <1>3 DEF Runs
  <2>2. k - 1 \in 0 .. n /\ f[k - 1] \in A
    <3> HIDE DEF n, A
    <3> QED
      BY <1>1
  <2>3. <<k, f[k - 1]>> \in (1 .. n) \X A
    BY <2>2
  <2> QED
    BY <2>1, <2>3
<1>5. f[1] = d[1]
  <2>1. f[1] = <<>> \o d[1] /\ d[1] \in A
    <3>1. 1 \in 1 .. n /\ f[1 - 1] = <<>>
      BY <1>1, <1>3 DEF Runs
    <3> HIDE DEF n, A
    <3> QED
      BY <1>1, <1>4, <3>1
  <2> QED
    BY <2>1
<1> DEFINE h == [k \in 1 .. n |-> f[k]]
<1>6. Solves(h)
  <2>1. \A k \in 1 .. n : h[k] = IF k = 1 THEN d[k] ELSE h[k - 1] \o d[k]
    <3> TAKE k \in 1 .. n
    <3>1. CASE k = 1
      BY <1>5, <3>1
    <3>2. CASE k # 1
      <4>1. k - 1 \in 1 .. n
        BY <1>1, <3>2
      <4>2. h[k] = f[k] /\ h[k - 1] = f[k - 1]
        BY <4>1
      <4>3. f[k] = f[k - 1] \o d[k]
        BY <1>4
      <4> HIDE DEF h, n
      <4> QED
        BY <3>2, <4>2, <4>3
    <3> QED
      BY <3>1, <3>2
  <2>2. h = [k \in 1 .. n |-> h[k]]
    OBVIOUS
  <2> HIDE DEF h
  <2> QED
    BY <2>1, <2>2, Zenon
<1> DEFINE w == CHOOSE g : Solves(g)
<1>7. FlattenSeq(d) = w[n]
  BY DEF FlattenSeq
<1>8. Solves(w)
  <2> HIDE DEF Solves, h
  <2> QED
    BY <1>6
<1>9. \A k \in 1 .. n : w[k] = IF k = 1 THEN d[k] ELSE w[k - 1] \o d[k]
  <2> HIDE DEF w
  <2> QED
    BY <1>8, Zenon
<1>10. /\ w[1] = d[1]
       /\ \A k \in 2 .. n : w[k] = w[k - 1] \o d[k]
  <2>1. /\ 1 \in 1 .. n
        /\ \A k \in 2 .. n : k \in 1 .. n /\ k # 1
    BY <1>1
  <2> HIDE DEF w
  <2> QED
    BY <1>9, <2>1
<1> HIDE DEF w
<1> QED
  BY <1>7, <1>10

\* All that the members mention is among the mentions.
LEMMA FlattenFacts ==
    ASSUME NEW d \in Seq(Seq(Uuids)), Len(d) # 0
    PROVE  /\ FlattenSeq(d) \in Seq(Uuids)
           /\ \A m \in DOMAIN d : \A i \in DOMAIN d[m] :
                 \E k \in DOMAIN FlattenSeq(d) : FlattenSeq(d)[k] = d[m][i]
<1> DEFINE n == Len(d)
<1>1. /\ n \in Nat /\ n >= 1 /\ DOMAIN d = 1 .. n
      /\ \A k \in 1 .. n : d[k] \in Seq(Uuids)
  OBVIOUS
<1>2. PICK w : /\ FlattenSeq(d) = w[n]
               /\ w[1] = d[1]
               /\ \A k \in 2 .. n : w[k] = w[k - 1] \o d[k]
  BY FlattenEquation
<1> HIDE DEF n
<1> DEFINE Holds(k, m) == \A i \in DOMAIN d[m] : \E j \in DOMAIN w[k] :
                             w[k][j] = d[m][i]
           Good == {k \in 0 .. n : k # 0 =>
                       w[k] \in Seq(Uuids) /\ \A m \in 1 .. k : Holds(k, m)}
<1>3. 0 \in Good
  BY <1>1
<1>4. ASSUME NEW k \in 1 .. n, k - 1 \in Good
      PROVE  k \in Good
  <2>1. CASE k = 1
    <3>1. w[1] \in Seq(Uuids) /\ Holds(1, 1)
      BY <1>1, <1>2
    <3> HIDE DEF Holds
    <3> QED
      BY <1>1, <2>1, <3>1
  <2>2. CASE k # 1
    <3> DEFINE a == w[k - 1]
               b == d[k]
               c == w[k]
    <3>1. /\ k \in 2 .. n /\ k - 1 # 0 /\ k \in 0 .. n
          /\ a \in Seq(Uuids) /\ b \in Seq(Uuids) /\ c = a \o b
      <4>1. k \in 2 .. n /\ k - 1 # 0 /\ k \in 0 .. n
        BY <1>1, <2>2
      <4>2. a \in Seq(Uuids)
        <5> HIDE DEF Holds
        <5> QED
          BY <1>4, <4>1
      <4>3. b \in Seq(Uuids) /\ c = a \o b
        BY <1>1, <1>2, <4>1
      <4> HIDE DEF Good
      <4> QED
        BY <4>1, <4>2, <4>3
    <3> HIDE DEF a, b, c
    <3>2. /\ c \in Seq(Uuids)
          /\ Len(a) \in Nat /\ Len(b) \in Nat
          /\ DOMAIN c = 1 .. Len(a) + Len(b)
          /\ DOMAIN a = 1 .. Len(a) /\ DOMAIN b = 1 .. Len(b)
          /\ \A i \in 1 .. Len(a) : c[i] = a[i]
          /\ \A i \in 1 .. Len(b) : c[Len(a) + i] = b[i]
      BY <3>1
    <3>3. ASSUME NEW m \in 1 .. k
          PROVE  Holds(k, m)
      <4>1. CASE m = k
        <5>1. \A i \in 1 .. Len(b) : Len(a) + i \in 1 .. Len(a) + Len(b)
          BY <3>2
        <5>2. ASSUME NEW i \in DOMAIN b
              PROVE  \E j \in DOMAIN c : c[j] = b[i]
          <6>1. Len(a) + i \in DOMAIN c /\ c[Len(a) + i] = b[i]
            BY <3>2, <5>1
          <6> QED
            BY <6>1
        <5> QED
          BY <4>1, <5>2 DEF b, c
      <4>2. CASE m # k
        <5>1. m \in 1 .. k - 1
          BY <4>2
        <5>2. \A i \in DOMAIN d[m] : \E j \in DOMAIN a : a[j] = d[m][i]
          BY <1>4, <3>1, <5>1 DEF a
        <5>3. \A j \in DOMAIN a : j \in DOMAIN c /\ c[j] = a[j]
          BY <3>2
        <5>4. \A i \in DOMAIN d[m] : \E j \in DOMAIN c : c[j] = d[m][i]
          BY <5>2, <5>3
        <5> QED
          BY <5>4 DEF c
      <4> QED
        BY <4>1, <4>2
    <3> HIDE DEF Holds
    <3> QED
      BY <3>1, <3>2, <3>3 DEF c
  <2> QED
    BY <2>1, <2>2
<1>5. n \in Good
  <2> HIDE DEF Good
  <2>1. \A k \in 0 .. n : k \in Good
    BY <1>1, <1>3, <1>4, Induction
  <2> QED
    BY <1>1, <2>1
<1> QED
  BY <1>1, <1>2, <1>5

\* What redrawn members mention is what they mentioned, redrawn.
LEMMA FlattenRenamed ==
    ASSUME NEW d \in Seq(Seq(Uuids)), NEW e \in Seq(Seq(Uuids)), NEW rho,
           Len(d) # 0, Len(e) = Len(d),
           \A m \in DOMAIN d : Renamed(d[m], e[m], rho)
    PROVE  Renamed(FlattenSeq(d), FlattenSeq(e), rho)
<1> DEFINE n == Len(d)
<1>1. /\ n \in Nat /\ n >= 1 /\ DOMAIN d = 1 .. n
      /\ \A k \in 1 .. n : d[k] \in Seq(Uuids) /\ e[k] \in Seq(Uuids)
  OBVIOUS
<1>2. PICK v : /\ FlattenSeq(d) = v[n]
               /\ v[1] = d[1]
               /\ \A k \in 2 .. n : v[k] = v[k - 1] \o d[k]
  BY FlattenEquation
<1>3. PICK w : /\ FlattenSeq(e) = w[n]
               /\ w[1] = e[1]
               /\ \A k \in 2 .. n : w[k] = w[k - 1] \o e[k]
  <2>1. Len(e) # 0 /\ n = Len(e)
    OBVIOUS
  <2> HIDE DEF n
  <2> QED
    BY <2>1, FlattenEquation
<1> HIDE DEF n
<1> DEFINE Good == {k \in 0 .. n : k # 0 =>
                       /\ v[k] \in Seq(Uuids) /\ w[k] \in Seq(Uuids)
                       /\ Renamed(v[k], w[k], rho)}
<1>4. 0 \in Good
  BY <1>1
<1>5. ASSUME NEW k \in 1 .. n, k - 1 \in Good
      PROVE  k \in Good
  <2>1. CASE k = 1
    <3>1. /\ v[1] \in Seq(Uuids) /\ w[1] \in Seq(Uuids)
          /\ Renamed(v[1], w[1], rho)
      <4>1. 1 \in 1 .. n
        BY <1>1
      <4>2. d[1] \in Seq(Uuids) /\ e[1] \in Seq(Uuids) /\ Renamed(d[1], e[1], rho)
        BY <1>1, <4>1
      <4> HIDE DEF Good
      <4> QED
        BY <1>2, <1>3, <4>2
    <3> QED
      BY <1>1, <2>1, <3>1
  <2>2. CASE k # 1
    <3> DEFINE a == v[k - 1]
               b == d[k]
               p == w[k - 1]
               q == e[k]
    <3>1. /\ k \in 2 .. n /\ k - 1 # 0 /\ k \in 0 .. n
          /\ a \in Seq(Uuids) /\ b \in Seq(Uuids)
          /\ p \in Seq(Uuids) /\ q \in Seq(Uuids)
          /\ v[k] = a \o b /\ w[k] = p \o q
          /\ Renamed(a, p, rho) /\ Renamed(b, q, rho)
      <4>1. k \in 2 .. n /\ k - 1 # 0 /\ k \in 0 .. n
        BY <1>1, <2>2
      <4>2. a \in Seq(Uuids) /\ p \in Seq(Uuids) /\ Renamed(a, p, rho)
        BY <1>5, <4>1
      <4>3. /\ b \in Seq(Uuids) /\ q \in Seq(Uuids)
            /\ v[k] = a \o b /\ w[k] = p \o q
        BY <1>1, <1>2, <1>3, <4>1
      <4>4. Renamed(b, q, rho)
        BY <1>1
      <4> HIDE DEF Good
      <4> QED
        BY <4>1, <4>2, <4>3, <4>4
    <3> HIDE DEF a, b, p, q
    <3>2. Len(p) = Len(a) /\ Len(q) = Len(b)
      BY <3>1 DEF Renamed
    <3> DEFINE x == a \o b
               y == p \o q
    <3>3. /\ x \in Seq(Uuids) /\ DOMAIN x = 1 .. Len(a) + Len(b)
          /\ DOMAIN a = 1 .. Len(a) /\ DOMAIN b = 1 .. Len(b)
          /\ Len(a) \in Nat /\ Len(b) \in Nat
          /\ \A i \in 1 .. Len(a) : x[i] = a[i]
          /\ \A i \in 1 .. Len(b) : x[Len(a) + i] = b[i]
      BY <3>1
    <3>4. /\ y \in Seq(Uuids) /\ DOMAIN y = 1 .. Len(a) + Len(b)
          /\ \A i \in 1 .. Len(a) : y[i] = p[i]
          /\ \A i \in 1 .. Len(b) : y[Len(a) + i] = q[i]
      <4>1. /\ y \in Seq(Uuids) /\ DOMAIN y = 1 .. Len(p) + Len(q)
            /\ \A i \in 1 .. Len(p) : y[i] = p[i]
            /\ \A i \in 1 .. Len(q) : y[Len(p) + i] = q[i]
        BY <3>1
      <4> HIDE DEF y
      <4> QED
        BY <3>2, <4>1
    <3> HIDE DEF x, y
    <3>5. ASSUME NEW i \in 1 .. Len(a) + Len(b)
          PROVE  y[i] = rho[x[i]]
      <4>1. CASE i <= Len(a)
        <5>1. i \in 1 .. Len(a)
          BY <3>3, <4>1
        <5>2. p[i] = rho[a[i]]
          BY <3>1, <3>3, <5>1 DEF Renamed
        <5> QED
          BY <3>3, <3>4, <5>1, <5>2
      <4>2. CASE ~ (i <= Len(a))
        <5>1. PICK j \in 1 .. Len(b) : i = Len(a) + j
          <6>1. i - Len(a) \in 1 .. Len(b) /\ i = Len(a) + (i - Len(a))
            BY <3>3, <4>2
          <6> QED
            BY <6>1
        <5>2. q[j] = rho[b[j]]
          BY <3>1, <3>3 DEF Renamed
        <5> QED
          BY <3>3, <3>4, <5>1, <5>2
      <4> QED
        BY <4>1, <4>2
    <3>6. Renamed(x, y, rho)
      BY <3>3, <3>4, <3>5 DEF Renamed
    <3> QED
      BY <3>1, <3>3, <3>4, <3>6 DEF x, y
  <2> QED
    BY <2>1, <2>2
<1>6. n \in Good
  <2> HIDE DEF Good
  <2>1. \A k \in 0 .. n : k \in Good
    BY <1>1, <1>4, <1>5, Induction
  <2> QED
    BY <1>1, <2>1
<1> QED
  BY <1>1, <1>2, <1>3, <1>6

-----------------------------------------------------------------------------
(* canonicalise_3mf as a whole.                                            *)

LEMMA DocumentFacts ==
    ASSUME NEW doc \in Documents
    PROVE  /\ doc \in Seq(Seq(Uuids)) /\ Len(doc) = NumMembers
           /\ Len(doc) # 0 /\ DOMAIN doc = 1 .. NumMembers
           /\ \A m \in DOMAIN doc :
                 doc[m] \in Seq(Uuids) /\ \A i \in DOMAIN doc[m] : doc[m][i] \in Uuids
<1>1. BoundedSeq(Uuids, MaxUuids) \subseteq Seq(Uuids)
  BY CanonicalAssumption DEF BoundedSeq, SeqOf
<1>2. doc \in [1 .. NumMembers -> Seq(Uuids)]
  BY <1>1 DEF Documents
<1> QED
  BY <1>2, CanonicalAssumption

\* A UUID of a document is numbered by where the mapping has it.
LEMMA NumbersAreIndices ==
    ASSUME NEW doc \in Documents, NEW m \in DOMAIN doc, NEW i \in DOMAIN doc[m]
    PROVE  LET seen == Mapping(FlattenSeq(doc))
               n == Number(seen, doc[m][i])
           IN n \in DOMAIN seen /\ seen[n] = doc[m][i]
<1> DEFINE seen == Mapping(FlattenSeq(doc))
           u == doc[m][i]
<1>1. PICK k \in DOMAIN FlattenSeq(doc) : FlattenSeq(doc)[k] = u
  BY DocumentFacts, FlattenFacts
<1>2. FlattenSeq(doc) \in Seq(Uuids)
  BY DocumentFacts, FlattenFacts
<1>3. PICK j \in DOMAIN seen : seen[j] = u
  <2> HIDE DEF u
  <2> QED
    BY <1>1, <1>2, MappingFacts
<1>4. Distinct(seen)
  BY <1>2, MappingFacts
<1> HIDE DEF seen, u
<1>5. Number(seen, u) = j
  BY <1>3, <1>4, NumberFacts
<1> QED
  BY <1>3, <1>5 DEF seen, u

LEMMA SameUuidSameNumber ==
    ASSUME NEW doc \in Documents,
           NEW m \in DOMAIN doc, NEW n \in DOMAIN doc,
           NEW i \in DOMAIN doc[m], NEW j \in DOMAIN doc[n]
    PROVE  doc[m][i] = doc[n][j] <=>
              Canonicalise(doc)[m][i] = Canonicalise(doc)[n][j]
<1> DEFINE seen == Mapping(FlattenSeq(doc))
<1>1. /\ Canonicalise(doc)[m][i] = Number(seen, doc[m][i])
      /\ Canonicalise(doc)[n][j] = Number(seen, doc[n][j])
  BY DEF Canonicalise
<1>2. /\ seen[Number(seen, doc[m][i])] = doc[m][i]
      /\ seen[Number(seen, doc[n][j])] = doc[n][j]
  BY NumbersAreIndices
<1> HIDE DEF seen
<1> QED
  BY <1>1, <1>2

LEMMA RedrawnIsOne ==
    ASSUME NEW doc \in Documents, NEW rho \in [Uuids -> Uuids],
           \A u, v \in Uuids : rho[u] = rho[v] => u = v
    PROVE  Canonicalise(Redrawn(doc, rho)) = Canonicalise(doc)
<1> DEFINE red == Redrawn(doc, rho)
           flat == FlattenSeq(doc)
           flatR == FlattenSeq(red)
           seen == Mapping(flat)
           seenR == Mapping(flatR)
<1>1. /\ doc \in Seq(Seq(Uuids)) /\ Len(doc) # 0 /\ DOMAIN doc = 1 .. NumMembers
      /\ \A m \in DOMAIN doc :
            doc[m] \in Seq(Uuids) /\ \A i \in DOMAIN doc[m] : doc[m][i] \in Uuids
      /\ Len(doc) = NumMembers
  BY DocumentFacts
<1>2. /\ DOMAIN red = DOMAIN doc
      /\ \A m \in DOMAIN doc :
            /\ DOMAIN red[m] = DOMAIN doc[m]
            /\ \A i \in DOMAIN doc[m] : red[m][i] = rho[doc[m][i]]
            /\ red[m] = [i \in DOMAIN doc[m] |-> red[m][i]]
      /\ red = [m \in DOMAIN doc |-> red[m]]
  BY DEF Redrawn
<1> HIDE DEF red
<1>3. \A m \in DOMAIN doc : red[m] \in Seq(Uuids) /\ Renamed(doc[m], red[m], rho)
  <2> TAKE m \in DOMAIN doc
  <2>1. \A i \in DOMAIN doc[m] : red[m][i] \in Uuids
    BY <1>1, <1>2
  <2>2. DOMAIN doc[m] = 1 .. Len(doc[m]) /\ Len(doc[m]) \in Nat
    BY <1>1
  <2>3. red[m] \in [1 .. Len(doc[m]) -> Uuids]
    BY <1>2, <2>1, <2>2
  <2>4. red[m] \in Seq(Uuids)
    BY <2>2, <2>3
  <2> QED
    BY <1>2, <2>4 DEF Renamed
<1>4. red \in Seq(Seq(Uuids)) /\ Len(red) = Len(doc)
  <2>1. red \in [1 .. NumMembers -> Seq(Uuids)]
    BY <1>1, <1>2, <1>3
  <2> QED
    BY <1>1, <2>1, CanonicalAssumption
<1>5. /\ flat \in Seq(Uuids) /\ flatR \in Seq(Uuids)
      /\ Renamed(flat, flatR, rho)
  BY <1>1, <1>3, <1>4, FlattenFacts, FlattenRenamed
<1> HIDE DEF flat, flatR
<1>6. Renamed(seen, seenR, rho) /\ Distinct(seenR)
  BY <1>5, MappingFacts, MappingRenamed
<1>7. ASSUME NEW m \in DOMAIN doc, NEW i \in DOMAIN doc[m]
      PROVE  Number(seenR, red[m][i]) = Number(seen, doc[m][i])
  <2> DEFINE n == Number(seen, doc[m][i])
  <2>1. n \in DOMAIN seen /\ seen[n] = doc[m][i]
    BY NumbersAreIndices DEF flat
  <2> HIDE DEF n, seen, seenR
  <2>2. n \in DOMAIN seenR /\ seenR[n] = red[m][i]
    BY <1>2, <1>6, <2>1 DEF Renamed
  <2>3. Number(seenR, seenR[n]) = n
    BY <1>6, <2>2, NumberFacts
  <2> QED
    BY <2>2, <2>3 DEF n
<1> HIDE DEF seen, seenR
<1>8. Canonicalise(doc) = [m \in DOMAIN doc |->
                             [i \in DOMAIN doc[m] |-> Number(seen, doc[m][i])]]
  BY DEF Canonicalise, seen, flat
<1>9. Canonicalise(red) = [m \in DOMAIN red |->
                             [i \in DOMAIN red[m] |-> Number(seenR, red[m][i])]]
  BY DEF Canonicalise, seenR, flatR
<1>10. \A m \in DOMAIN doc :
          [i \in DOMAIN red[m] |-> Number(seenR, red[m][i])]
             = [i \in DOMAIN doc[m] |-> Number(seen, doc[m][i])]
  BY <1>2, <1>7
<1> QED
  BY <1>2, <1>8, <1>9, <1>10 DEF red

-----------------------------------------------------------------------------
(* A part's transform, written twice.                                      *)

LEMMA TrigFacts ==
    ASSUME NEW q \in QuarterTurns
    PROVE  Sin(q) \in Int /\ Cos(q) \in Int
BY DEF QuarterTurns, Sin, Cos

\* The rows of the product of the rotations about z, y and x.
LEMMA RowsAlike ==
    ASSUME NEW cx \in Int, NEW sx \in Int, NEW cy \in Int, NEW sy \in Int,
           NEW cz \in Int, NEW sz \in Int,
           NEW x \in Int, NEW y \in Int, NEW z \in Int
    PROVE  LET y1 == cx * y + (-sx) * z
               z1 == sx * y + cx * z
               x2 == cy * x + sy * z1
               z2 == (-sy) * x + cy * z1
           IN /\ (cy * cz) * x + (sx * sy * cz - cx * sz) * y
                   + (cx * sy * cz + sx * sz) * z = cz * x2 + (-sz) * y1
              /\ (cy * sz) * x + (sx * sy * sz + cx * cz) * y
                   + (cx * sy * sz - sx * cz) * z = sz * x2 + cz * y1
              /\ (-sy) * x + (sx * cy) * y + (cx * cy) * z = z2
  OBVIOUS

\* What a product of a matrix and a vector is, row by row.
LEMMA TimesFacts ==
    ASSUME NEW m, NEW v
    PROVE  /\ Times(m, v) = [i \in Axes |-> Times(m, v)[i]]
           /\ \A i \in {1, 2, 3} :
                 Times(m, v)[i] = m[i][1] * v[1] + m[i][2] * v[2] + m[i][3] * v[3]
BY DEF Times, Axes

\* The matrix that draws and exports meshes is the product of the rotations
\* that the kernel applies to shapes.
LEMMA RotationsAlike ==
    ASSUME NEW v \in [Axes -> Int],
           NEW r \in QuarterTurns \X QuarterTurns \X QuarterTurns
    PROVE  Times(Rotation(r), v) =
              Times(Turn(3, r[3]), Times(Turn(2, r[2]), Times(Turn(1, r[1]), v)))
<1> DEFINE cx == Cos(r[1])  sx == Sin(r[1])
           cy == Cos(r[2])  sy == Sin(r[2])
           cz == Cos(r[3])  sz == Sin(r[3])
           x == v[1]  y == v[2]  z == v[3]
           a == Times(Turn(1, r[1]), v)
           b == Times(Turn(2, r[2]), a)
           c == Times(Turn(3, r[3]), b)
           m == Times(Rotation(r), v)
<1>1. /\ cx \in Int /\ sx \in Int /\ cy \in Int /\ sy \in Int
      /\ cz \in Int /\ sz \in Int
      /\ x \in Int /\ y \in Int /\ z \in Int
  <2>1. r[1] \in QuarterTurns /\ r[2] \in QuarterTurns /\ r[3] \in QuarterTurns
    OBVIOUS
  <2>2. x \in Int /\ y \in Int /\ z \in Int
    BY DEF Axes
  <2> QED
    BY <2>1, <2>2, TrigFacts
<1>2. /\ Rotation(r)[1] = <<cy * cz, sx * sy * cz - cx * sz, cx * sy * cz + sx * sz>>
      /\ Rotation(r)[2] = <<cy * sz, sx * sy * sz + cx * cz, cx * sy * sz - sx * cz>>
      /\ Rotation(r)[3] = <<-sy, sx * cy, cx * cy>>
  BY DEF Rotation
<1>3. /\ Turn(1, r[1])[1] = <<1, 0, 0>>
      /\ Turn(1, r[1])[2] = <<0, cx, -sx>>
      /\ Turn(1, r[1])[3] = <<0, sx, cx>>
  BY DEF Turn
<1>4. /\ Turn(2, r[2])[1] = <<cy, 0, sy>>
      /\ Turn(2, r[2])[2] = <<0, 1, 0>>
      /\ Turn(2, r[2])[3] = <<-sy, 0, cy>>
  BY DEF Turn
<1>5. /\ Turn(3, r[3])[1] = <<cz, -sz, 0>>
      /\ Turn(3, r[3])[2] = <<sz, cz, 0>>
      /\ Turn(3, r[3])[3] = <<0, 0, 1>>
  BY DEF Turn
<1> HIDE DEF cx, sx, cy, sy, cz, sz, x, y, z
<1>6. /\ a[1] = x /\ a[2] = cx * y + (-sx) * z /\ a[3] = sx * y + cx * z
  <2>1. /\ a[1] = 1 * x + 0 * y + 0 * z
        /\ a[2] = 0 * x + cx * y + (-sx) * z
        /\ a[3] = 0 * x + sx * y + cx * z
    BY <1>3, TimesFacts DEF x, y, z
  <2> HIDE DEF a
  <2> QED
    BY <1>1, <2>1
<1> HIDE DEF a
<1>7. a[1] \in Int /\ a[2] \in Int /\ a[3] \in Int
  BY <1>1, <1>6
<1>8. /\ b[1] = cy * a[1] + sy * a[3] /\ b[2] = a[2]
      /\ b[3] = (-sy) * a[1] + cy * a[3]
  <2>1. /\ b[1] = cy * a[1] + 0 * a[2] + sy * a[3]
        /\ b[2] = 0 * a[1] + 1 * a[2] + 0 * a[3]
        /\ b[3] = (-sy) * a[1] + 0 * a[2] + cy * a[3]
    BY <1>4, TimesFacts
  <2> HIDE DEF b
  <2> QED
    BY <1>1, <1>7, <2>1
<1> HIDE DEF b
<1>9. b[1] \in Int /\ b[2] \in Int /\ b[3] \in Int
  BY <1>1, <1>7, <1>8
<1>10. /\ c[1] = cz * b[1] + (-sz) * b[2] /\ c[2] = sz * b[1] + cz * b[2]
       /\ c[3] = b[3]
  <2>1. /\ c[1] = cz * b[1] + (-sz) * b[2] + 0 * b[3]
        /\ c[2] = sz * b[1] + cz * b[2] + 0 * b[3]
        /\ c[3] = 0 * b[1] + 0 * b[2] + 1 * b[3]
    BY <1>5, TimesFacts
  <2> HIDE DEF c
  <2> QED
    BY <1>1, <1>9, <2>1
<1>11. /\ m[1] = (cy * cz) * x + (sx * sy * cz - cx * sz) * y
                    + (cx * sy * cz + sx * sz) * z
       /\ m[2] = (cy * sz) * x + (sx * sy * sz + cx * cz) * y
                    + (cx * sy * sz - sx * cz) * z
       /\ m[3] = (-sy) * x + (sx * cy) * y + (cx * cy) * z
  BY <1>2, TimesFacts DEF x, y, z
<1>12. m = [i \in Axes |-> m[i]] /\ c = [i \in Axes |-> c[i]]
  BY TimesFacts
<1> HIDE DEF c, m
<1>13. m[1] = c[1] /\ m[2] = c[2] /\ m[3] = c[3]
  BY <1>1, <1>6, <1>8, <1>10, <1>11, RowsAlike
<1>14. m = c
  BY <1>12, <1>13 DEF Axes
<1> QED
  BY <1>14 DEF m, c, b, a

LEMMA PlacedAlikeFacts ==
    ASSUME NEW p \in Placements
    PROVE  ApplyTransform(p.v, p.t, p.r) = TransformOcpShape(p.v, p.t, p.r)
<1>1. /\ p.v \in [Axes -> Int]
      /\ p.r \in QuarterTurns \X QuarterTurns \X QuarterTurns
  BY ShapesAssumption DEF Placements
<1> QED
  BY <1>1, RotationsAlike DEF ApplyTransform, TransformOcpShape

-----------------------------------------------------------------------------
(* One computation after its input is chosen.                              *)

ShapesInv ==
    /\ RegionInv
    /\ job = "place" => input \in Placements
    /\ job = "canonical" => input \in Documents
    /\ Done("place") =>
          output = [mesh |-> ApplyTransform(input.v, input.t, input.r),
                    shape |-> TransformOcpShape(input.v, input.t, input.r)]
    /\ Done("canonical") => output = Canonicalise(input)

LEMMA ShapesInvStarts == ShapesInit => ShapesInv
<1> SUFFICES ASSUME ShapesInit
             PROVE  ShapesInv
  OBVIOUS
<1>1. CASE job = "overhangs"
  <2>1. RegionInit
    BY <1>1 DEF ShapesInit
  <2>2. RegionInv
    BY <2>1, RegionInvStarts, OverhangsAssumption DEF RegionInit, AllUnions
  <2> QED
    BY <1>1, <2>2 DEF ShapesInv, ShapesInit, Done
<1>2. CASE job # "overhangs"
  <2>1. NoRegions
    BY <1>2 DEF ShapesInit
  <2>2. AllUnions = {}
    BY <2>1 DEF NoRegions, AllUnions, Unions, Touching, Least
  <2>3. RegionInv
    <3>1. corners \in [Faces -> SUBSET Vertices] /\ group = flagged
      BY <2>1 DEF NoRegions
    <3> QED
      BY <2>1, <2>2, <3>1, RegionInvStarts DEF NoRegions
  <2> QED
    BY <1>2, <2>3 DEF ShapesInv, ShapesInit, Done
<1> QED
  BY <1>1, <1>2

LEMMA ShapesInvKept == ShapesInv /\ [ShapesNext]_shapesVars => ShapesInv'
<1> SUFFICES ASSUME ShapesInv, [ShapesNext]_shapesVars
             PROVE  ShapesInv'
  OBVIOUS
<1>1. RegionInv'
  <2>1. RegionStep \/ UNCHANGED regionVars
    BY DEF ShapesNext, Cluster, Place, Pin, Measure, shapesVars
  <2> QED
    BY <2>1, RegionInvKept DEF ShapesInv
<1>2. job' = job /\ input' = input
  BY DEF ShapesNext, Cluster, Place, Pin, Measure, shapesVars
<1>3. CASE Cluster
  BY <1>1, <1>2, <1>3 DEF ShapesInv, Cluster, Done
<1>4. CASE Place
  BY <1>1, <1>2, <1>4 DEF ShapesInv, Place, Done
<1>5. CASE Pin
  BY <1>1, <1>2, <1>5 DEF ShapesInv, Pin, Done
<1>6. CASE Measure
  BY <1>1, <1>2, <1>6 DEF ShapesInv, Measure, Done
<1>7. CASE UNCHANGED shapesVars
  BY <1>1, <1>2, <1>7 DEF ShapesInv, shapesVars, Done
<1> QED
  BY <1>3, <1>4, <1>5, <1>6, <1>7 DEF ShapesNext

LEMMA ShapesInvHolds == ShapesSpec => []ShapesInv
BY ShapesInvStarts, ShapesInvKept, PTL DEF ShapesSpec

\* validate_mesh: the groups that the union-find comes to are the connected
\* regions of overhanging faces, for every mesh and every flagging.
THEOREM GroupsAreRegions == ShapesSpec => []RegionsAreComponents
<1>1. ShapesInv => RegionsAreComponents
  BY RegionInvSuffices DEF ShapesInv
<1> QED
  BY <1>1, ShapesInvHolds, PTL

\* A part is drawn and exported as a mesh where the kernel measures it.
THEOREM MeshAndShapeAgree == ShapesSpec => []PlacedAlike
<1>1. ShapesInv => PlacedAlike
  <2> SUFFICES ASSUME ShapesInv, Done("place")
               PROVE  output.mesh = output.shape
    BY DEF PlacedAlike
  <2>1. input \in Placements
    BY DEF ShapesInv, Done
  <2>2. /\ output.mesh = ApplyTransform(input.v, input.t, input.r)
        /\ output.shape = TransformOcpShape(input.v, input.t, input.r)
    BY DEF ShapesInv
  <2> QED
    BY <2>1, <2>2, PlacedAlikeFacts
<1> QED
  BY <1>1, ShapesInvHolds, PTL

\* The canonical file depends on what is in it and not on the UUIDs that the
\* writer drew: for every number of members, of UUIDs and of mentions.
THEOREM NumbersFollowContent == ShapesSpec => []PinnedToContent
<1>1. ShapesInv => PinnedToContent
  <2> SUFFICES ASSUME ShapesInv, Done("canonical")
               PROVE  PinnedToContent
    BY DEF PinnedToContent
  <2>1. input \in Documents /\ output = Canonicalise(input)
    BY DEF ShapesInv, Done
  <2>2. ASSUME NEW rho \in Bijection(Uuids, Uuids)
        PROVE  Canonicalise(Redrawn(input, rho)) = output
    <3>1. /\ rho \in [Uuids -> Uuids]
          /\ \A u, v \in Uuids : rho[u] = rho[v] => u = v
      BY DEF Bijection, Injection, IsInjective
    <3> QED
      BY <2>1, <3>1, RedrawnIsOne
  <2>3. ASSUME NEW m \in DOMAIN input, NEW n \in DOMAIN input,
               NEW i \in DOMAIN input[m], NEW j \in DOMAIN input[n]
        PROVE  input[m][i] = input[n][j] <=> output[m][i] = output[n][j]
    BY <2>1, SameUuidSameNumber
  <2> QED
    BY <2>2, <2>3 DEF PinnedToContent
<1> QED
  BY <1>1, ShapesInvHolds, PTL
=============================================================================
