------------------------------ MODULE GenMesh -------------------------------
(***************************************************************************)
(* One call of gen_ai_mesh from its arguments to its report: a preview, a  *)
(* refinement when one is asked for, and the import of the last GLB that   *)
(* was downloaded into the active part.                                    *)
(***************************************************************************)
EXTENDS Meshy

CONSTANTS
    MaxSew,     \* MAX_SEW_TRIANGLES
    MaxFaces    \* bound: triangles of a downloaded model

ASSUME GenMeshAssumption == MaxSew \in Nat /\ MaxFaces \in Nat

VARIABLES
    refine,     \* the caller's argument
    chosen,     \* glb_path: the task whose file is imported
    task,       \* task_id: the task that is reported
    sewn,       \* triangles handed to the geometry worker
    brep,       \* what the part's file is made of
    source      \* Part.source, with the prompt, the GLB and the history

toolVars == <<refine, chosen, task, sewn, brep, source>>
vars == <<clientVars, toolVars>>

-----------------------------------------------------------------------------

TypeOK ==
    /\ ClientTypeOK
    /\ refine \in BOOLEAN
    /\ chosen \in Stages
    /\ task \in Stages
    /\ sewn \in 0 .. MaxFaces
    /\ brep \in {"before", "torn"} \union Stages
    /\ source \in {"before", "ai_mesh"}

\* The arguments and the key have been found good.
Init ==
    /\ ClientInit
    /\ refine \in BOOLEAN
    /\ chosen = "preview"
    /\ task = "preview"
    /\ sewn = 0
    /\ brep = "before"
    /\ source = "before"

Client ==
    /\ \/ Create \/ CreateFails
       \/ Poll \/ PollTimesOut \/ Get
       \/ DownloadRefused \/ DownloadOpens \/ DownloadRejected
       \/ DownloadBreaks
    /\ UNCHANGED toolVars

-----------------------------------------------------------------------------

\* A preview without a GLB is an error.
NoPreview ==
    /\ pc = "download" /\ ~ url /\ stage = "preview"
    /\ Fails("ImportError")
    /\ UNCHANGED <<left, glb, toolVars>>

\* Mutant: the refinement's path is taken before its file is there.
NoRefinedPath ==
    /\ pc = "download" /\ ~ url /\ stage = "refine"
    /\ pc' = "import"
    /\ task' = "refine" /\ chosen' = "refine"
    /\ UNCHANGED <<stage, left, attempt, url, glb, reply,
                   refine, sewn, brep, source>>

\* A refinement without one is not: the preview's file is imported, under the
\* refinement's name.
NoRefined ==
    /\ pc = "download" /\ ~ url /\ stage = "refine"
    /\ pc' = "import"
    /\ task' = "refine"
    /\ UNCHANGED <<stage, left, attempt, url, glb, reply,
                   refine, chosen, sewn, brep, source>>

\* The file is complete, and the next task is asked for or the import begins.
Downloaded ==
    /\ pc = "stream"
    /\ glb' = [glb EXCEPT ![stage] = "whole"]
    /\ chosen' = stage
    /\ task' = stage
    /\ IF stage = "preview" /\ refine
       THEN pc' = "create" /\ stage' = "refine"
       ELSE pc' = "import" /\ UNCHANGED stage
    /\ url' = FALSE
    /\ UNCHANGED <<left, attempt, reply, refine, sewn, brep, source>>

-----------------------------------------------------------------------------
(* glb_to_brep.                                                            *)

\* Mutant: a simplifier is trusted to reach its target.
DecimatedTrusting(n) == IF n > MaxSew THEN 0 .. n ELSE {n}

\* _decimate: what a simplifier leaves is taken if it is little enough, and
\* otherwise a subset of the triangles.
Decimated(n) == IF n > MaxSew THEN 0 .. MaxSew ELSE {n}

\* No triangles in the file, or a file that does not load.
LoadFails ==
    /\ pc = "import"
    /\ Fails("ImportError")
    /\ UNCHANGED <<left, glb, toolVars>>

\* Mutant: the part is recorded when its mesh has been read.
LoadRecords ==
    /\ pc = "import"
    /\ pc' = "sew"
    /\ \E n \in 1 .. MaxFaces : sewn' \in Decimated(n)
    /\ source' = "ai_mesh"
    /\ UNCHANGED <<stage, left, attempt, url, glb, reply,
                   refine, chosen, task, brep>>

Load ==
    /\ pc = "import"
    /\ pc' = "sew"
    /\ \E n \in 1 .. MaxFaces : sewn' \in Decimated(n)
    /\ UNCHANGED <<stage, left, attempt, url, glb, reply,
                   refine, chosen, task, brep, source>>

\* The part's file, written in place, when the kernel is through with it or has
\* been stopped: as it was, in the middle, or the new one.
Written == {brep, "torn", chosen}

\* The kernel fails before, in or after the writing: a crash, or chatter past
\* the deadline.  Or nothing is left of the mesh, and it has no bounds to report.
SewFails ==
    /\ pc = "sew"
    /\ brep' \in Written
    /\ Fails("ImportError")
    /\ UNCHANGED <<left, glb, refine, chosen, task, sewn, source>>

\* What Write_s returns is not looked at, so that a write that did not succeed
\* is an import.  The part is recorded in the same step: nothing else runs on
\* the event loop between the end of the import and the report.
Import ==
    /\ pc = "sew" /\ sewn > 0
    /\ brep' \in Written
    /\ source' = "ai_mesh"
    /\ Fails("ok")
    /\ UNCHANGED <<left, glb, refine, chosen, task, sewn>>

Tool ==
    \/ NoPreview \/ NoRefined \/ Downloaded
    \/ LoadFails \/ Load \/ SewFails \/ Import

-----------------------------------------------------------------------------

Next == Client \/ Tool

Spec == Init /\ [][Next]_vars

\* The event loop resumes the call; requests end, because the client gives
\* up on them; an operation of the kernel ends (GeometryWorker).
FairSpec == Spec /\ WF_vars(Next)

-----------------------------------------------------------------------------
(* Properties.                                                             *)

\* "Timed against a monotonic clock": a task is given up when its time is
\* over, or at the latest one round of retries after that.
OverrunIsBounded ==
    left >= - (MaxRetries * MaxLatency + (MaxRetries - 1) * RetryAfterMax)

\* A file that broke off is not imported, whichever of two downloads it was,
\* and no part is made of one.
ImportsWholeFiles ==
    pc \in {"import", "sew"} \/ brep \in Stages => glb[chosen] = "whole"

\* The record of the part and the reply agree at every point: the part becomes
\* a mesh part, and its history is dropped, with the good reply and never
\* before it.  Its file is touched by the sewing only, so that whatever goes
\* wrong with the service leaves it as it was.  Nothing is said of the file
\* after the sewing: an error may come with the new file, and a good reply with
\* a torn one.
RecordFollowsReply ==
    /\ source = "ai_mesh" <=> reply = "ok"
    /\ brep # "before" => reply \in {"ok", "ImportError"}

\* "A bounded import beats a server that stalls for minutes": never more
\* triangles than MAX_SEW_TRIANGLES are sewn, however the simplifiers fail.
SewingIsBounded == sewn <= MaxSew

\* Every call ends, whatever the service does.
EveryGenerationEnds == <>(pc = "done")

\* SPEC 10.2 M5, "Downloaded GLB goes to meshy/{task_id}.glb": the task of the
\* report is the one whose file was imported.  It is not, after a refinement
\* without a GLB.
ReportsItsTask == reply = "ok" => chosen = task

\* SPEC 10.2 M4, errors of the service are returned as structured errors.  A
\* connection that breaks in a POST or a download ends in an exception.
RepliesAreStructured == reply # "raised"

=============================================================================
