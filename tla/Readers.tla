------------------------------ MODULE Readers -------------------------------
(***************************************************************************)
(* The tools that read a whole assembly: render_views, validate_mesh and   *)
(* the assembly file of export_model.  Each goes through the parts one     *)
(* after another, has each tessellated through the shared cache, and puts  *)
(* what came of it into one reply, while runs, imports and deletions       *)
(* rewrite the part files and position_part moves the parts.  None of them *)
(* takes a lock.                                                           *)
(*                                                                         *)
(* A part is its file.  A pose is a pair of numbers: which translation and *)
(* which rotation the part was given last.                                 *)
(***************************************************************************)
EXTENDS TessCache, SequencesExt

CONSTANTS
    Order,       \* Session.parts: the parts in the order of their insertion
    TolOf,       \* tool -> the tolerances it tessellates with
    MaxReads,    \* bound: calls of the tools
    MaxMoves     \* bound: calls of position_part

Tools == {"render_views", "validate_mesh", "export_model"}

ASSUME ReadersAssumption ==
    /\ Order \in Seq(Paths) /\ ToSet(Order) = Paths
    /\ TolOf \in [Tools -> Tols]
    /\ MaxReads \in Nat /\ MaxMoves \in Nat

VARIABLES
    rd,      \* thread -> frame of the tool that it runs
    reads,   \* tools begun so far
    pose,    \* part -> its pose
    mover,   \* where the call of position_part is
    moves    \* calls of position_part so far

readerVars == <<rd, reads>>
moverVars == <<pose, mover, moves>>
allVars == <<vars, readerVars, moverVars>>

-----------------------------------------------------------------------------

Pose == [t: Nat, r: Nat]
Drawn == [part: Paths, ver: Nat, pose: Pose]

\* asked: the parts that the tool set out with.  poses: where they were then.
\* out: the meshes of the reply.  errors: the parts it names with an error.
\* pairs: what the interference checks came to.  names: the parts that the
\* reply of render_views says it shows.  quiet: nothing was written, moved or
\* deleted since the tool was called, and no kernel call of it has failed.
ReadFrame ==
    [pc: {"idle", "next", "tess", "pairs", "reply"}, tool: Tools,
     asked: SUBSET Paths, poses: [Paths -> Pose], todo: Seq(Paths),
     out: Seq(Drawn), errors: SUBSET Paths,
     pairs: {"none", "checked", "failed"}, names: SUBSET Paths,
     failed: BOOLEAN, quiet: BOOLEAN]

Origin == [t |-> 0, r |-> 0]

NoRead == [pc |-> "idle", tool |-> "render_views", asked |-> {},
           poses |-> [p \in Paths |-> Origin], todo |-> <<>>, out |-> <<>>,
           errors |-> {}, pairs |-> "none", names |-> {}, failed |-> FALSE,
           quiet |-> TRUE]

Move == [pc: {"idle", "rotate", "refuse"}, part: Paths, was: Pose]

ReadersTypeOK ==
    /\ TypeOK
    /\ rd \in [Threads -> ReadFrame]
    /\ reads \in Nat
    /\ pose \in [Paths -> Pose]
    /\ mover \in Move
    /\ moves \in Nat

NoMove == [pc |-> "idle", part |-> Nothing.path, was |-> Origin]

ReadersInit ==
    /\ Init
    /\ rd = [t \in Threads |-> NoRead]
    /\ reads = 0
    /\ pose = [p \in Paths |-> Origin]
    /\ mover = NoMove
    /\ moves = 0

Modelled == {p \in Paths : file[p] # 0}

\* No reader is any more one that had the assembly to itself.
Disturb ==
    /\ rd' = [t \in Threads |-> IF rd[t].pc = "idle" THEN rd[t]
                                ELSE [rd[t] EXCEPT !.quiet = FALSE]]
    /\ UNCHANGED reads

-----------------------------------------------------------------------------
(* The part files, and position_part.                                      *)

WritePart(p) == Write(p) /\ Disturb /\ UNCHANGED moverVars
UnlinkPart(p) == Unlink(p) /\ Disturb /\ UNCHANGED moverVars

\* The translation, when there is one, is assigned before the rotation is
\* looked at: next comes the rotation, an error about it, or, when there is
\* none, the reply.
MoveTranslate(p) ==
    /\ mover.pc = "idle" /\ moves < MaxMoves
    /\ moves' = moves + 1
    /\ \/ pose' = [pose EXCEPT ![p].t = moves + 1] /\ Disturb
       \/ UNCHANGED <<pose, readerVars>>
    /\ \E pc \in {"idle", "rotate", "refuse"} :
         mover' = IF pc = "idle" THEN NoMove
                  ELSE [pc |-> pc, part |-> p, was |-> pose[p]]
    /\ UNCHANGED vars

MoveRotate ==
    /\ mover.pc = "rotate"
    /\ pose' = [pose EXCEPT ![mover.part].r = moves]
    /\ mover' = NoMove
    /\ Disturb
    /\ UNCHANGED <<vars, moves>>

MoveRefused ==
    /\ mover.pc = "refuse"
    /\ mover' = NoMove
    /\ UNCHANGED <<vars, readerVars, pose, moves>>

-----------------------------------------------------------------------------
(* The readers.                                                            *)

\* Those of the first n parts that are in S, in their order, for each n.
Kept(S) ==
    LET kept[n \in 0 .. Len(Order)] ==
            IF n = 0 THEN <<>>
            ELSE IF Order[n] \in S THEN Append(kept[n - 1], Order[n])
            ELSE kept[n - 1]
    IN kept

\* The parts that have geometry, in their order.
WithGeometry == Kept(Modelled)[Len(Order)]

\* The parts that a tool goes through: render_views asks later which of them
\* have geometry, the others at once.
Listed(tool) == IF tool = "render_views" THEN Order ELSE WithGeometry

ReadBegin(t, tool) ==
    /\ rd[t].pc = "idle"
    /\ reads < MaxReads
    /\ Listed(tool) # <<>>
    /\ reads' = reads + 1
    /\ rd' = [rd EXCEPT ![t] =
                [NoRead EXCEPT !.pc = "next", !.tool = tool,
                               !.asked = ToSet(Listed(tool)),
                               !.poses = IF tool = "export_model" THEN pose
                                         ELSE @,
                               !.todo = Listed(tool)]]
    /\ UNCHANGED <<vars, moverVars>>

\* Mutant: a loop that is left where it should go on.
DroppedAll(f) == [f EXCEPT !.pc = "next", !.todo = <<>>]

\* On to the next part.
Dropped(f) == [f EXCEPT !.pc = "next", !.todo = Tail(@)]

\* A part without a file is left out of the picture, and is an error of its
\* own in a validation.  The assembly export does not ask.
SkipPart(t) ==
    LET f == rd[t]
        p == Head(f.todo)
    IN /\ f.pc = "next" /\ f.todo # <<>>
       /\ p \notin Modelled /\ f.tool # "export_model"
       /\ rd' = [rd EXCEPT ![t] =
                    [Dropped(f) EXCEPT
                       !.errors = IF f.tool = "validate_mesh" THEN @ \union {p}
                                  ELSE @]]
       /\ UNCHANGED <<vars, reads, moverVars>>

AskMesh(t) ==
    LET f == rd[t]
        p == Head(f.todo)
    IN /\ f.pc = "next" /\ f.todo # <<>>
       /\ p \in Modelled \/ f.tool = "export_model"
       /\ Call(t, [path |-> p, tol |-> TolOf[f.tool]])
       /\ rd' = [rd EXCEPT ![t].pc = "tess"]
       /\ UNCHANGED <<reads, moverVars>>

Tessellating(t) ==
    /\ Stat(t) \/ Hit(t) \/ Miss(t) \/ Compute(t) \/ Insert(t)
    /\ UNCHANGED <<readerVars, moverVars>>

\* A picture has the part where it is by then, an assembly file where it was
\* at first, and validation asks for no placement.
PoseRead(f, p) ==
    CASE f.tool = "render_views" -> pose[p]
      [] f.tool = "export_model" -> f.poses[p]
      [] f.tool = "validate_mesh" -> Origin

GotMesh(t) ==
    LET f == rd[t]
        p == Head(f.todo)
    IN /\ f.pc = "tess"
       /\ Return(t)
       /\ rd' = [rd EXCEPT ![t] =
                    [Dropped(f) EXCEPT
                       !.out = Append(@, [part |-> p, ver |-> thr[t].mesh.ver,
                                          pose |-> PoseRead(f, p)])]]
       /\ UNCHANGED <<reads, moverVars>>

\* No file any more, or the kernel fails.  The picture goes without the part,
\* a validation has an error for it, and an assembly file fails altogether.
NoMesh(t) ==
    LET f == rd[t]
        p == Head(f.todo)
        g == [f EXCEPT !.quiet = FALSE]
    IN /\ f.pc = "tess"
       /\ ComputeFails(t)
       /\ rd' = [rd EXCEPT ![t] =
                    CASE f.tool = "render_views" -> Dropped(g)
                      [] f.tool = "validate_mesh" ->
                            [Dropped(g) EXCEPT !.errors = @ \union {p}]
                      [] f.tool = "export_model" ->
                            [g EXCEPT !.pc = "reply", !.todo = <<>>,
                                      !.failed = TRUE]]
       /\ UNCHANGED <<reads, moverVars>>

\* A pair that cannot be checked is reported to be free of interference.
CheckPairs(t, result) ==
    LET f == rd[t]
    IN /\ f.pc = "next" /\ f.todo = <<>> /\ f.tool = "validate_mesh"
       /\ (result = "none") <=> (Cardinality(f.asked \intersect Modelled) < 2)
       /\ rd' = [rd EXCEPT ![t].pc = "reply", ![t].pairs = result,
                           ![t].quiet = @ /\ result # "failed"]
       /\ UNCHANGED <<vars, reads, moverVars>>

\* The picture's reply names the parts that have geometry by then.
Compose(t) ==
    LET f == rd[t]
    IN /\ f.pc = "next" /\ f.todo = <<>> /\ f.tool # "validate_mesh"
       /\ rd' = [rd EXCEPT ![t] =
                    [f EXCEPT !.pc = "reply", !.failed = f.out = <<>>,
                              !.names = IF f.tool = "render_views"
                                        THEN Modelled ELSE {}]]
       /\ UNCHANGED <<vars, reads, moverVars>>

Reply(t) ==
    /\ rd[t].pc = "reply"
    /\ rd' = [rd EXCEPT ![t] = NoRead]
    /\ UNCHANGED <<vars, reads, moverVars>>

-----------------------------------------------------------------------------

ReadStep(t) ==
    \/ SkipPart(t) \/ AskMesh(t) \/ Tessellating(t) \/ GotMesh(t)
    \/ NoMesh(t) \/ Compose(t) \/ Reply(t)
    \/ \E result \in {"none", "checked", "failed"} : CheckPairs(t, result)

ReadersNext ==
    \/ \E p \in Paths : WritePart(p) \/ UnlinkPart(p) \/ MoveTranslate(p)
    \/ MoveRotate \/ MoveRefused
    \/ \E t \in Threads, tool \in Tools : ReadBegin(t, tool)
    \/ \E t \in Threads : ReadStep(t)

ReadersSpec == ReadersInit /\ [][ReadersNext]_allVars

-----------------------------------------------------------------------------
(* Properties.                                                             *)

\* What the assembly is, in the eyes of a tool.
Assembly(tool) ==
    [i \in DOMAIN WithGeometry |->
        LET p == WithGeometry[i]
        IN [part |-> p, ver |-> file[p],
            pose |-> IF tool = "validate_mesh" THEN Origin ELSE pose[p]]]

Checked(f) == f.errors = {} /\ f.pairs # "failed"

DrawnParts(f) == {f.out[i].part : i \in DOMAIN f.out}

\* A tool that nothing disturbs, beside others that fill the same cache with
\* other parts, other tolerances and older versions, replies with the whole
\* assembly as it is: each part that has geometry once, as built last and
\* where it was put last, and nothing unchecked.  And whatever happens to the
\* files meanwhile, a validation and an assembly file account for each of the
\* parts they set out with: with a mesh, an error, or no file at all.
RepliesAreWhole ==
    \A t \in Threads :
        LET f == rd[t]
        IN f.pc = "reply" =>
              /\ f.quiet => /\ f.out = Assembly(f.tool)
                            /\ f.tool = "render_views" =>
                                  f.names = DrawnParts(f)
                            /\ f.tool = "validate_mesh" => Checked(f)
              /\ f.tool # "render_views" =>
                    f.failed \/ f.asked = DrawnParts(f) \union f.errors

\* The parts that render_views says a picture shows are those it shows.
NamesAreDrawn ==
    \A t \in Threads :
        LET f == rd[t]
        IN f.pc = "reply" /\ f.tool = "render_views" /\ ~ f.failed =>
              f.names = DrawnParts(f)

\* A validation without an issue has looked at every part and every pair.
PrintableIsChecked ==
    \A t \in Threads :
        rd[t].pc = "reply" /\ rd[t].tool = "validate_mesh" => Checked(rd[t])

\* An error of position_part leaves the part where it was.
RefusedMovesNothing ==
    mover.pc = "refuse" => pose[mover.part] = mover.was

\* "Applied as a rigid transform during tessellation for
\* render/export/validate": a part that was put somewhere is looked at there.
PoseIsApplied ==
    \A t \in Threads :
        rd[t].pc = "reply" /\ rd[t].quiet =>
            \A i \in DOMAIN rd[t].out :
                rd[t].out[i].pose = pose[rd[t].out[i].part]

=============================================================================
