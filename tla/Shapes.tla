------------------------------- MODULE Shapes -------------------------------
(***************************************************************************)
(* The computations on shapes and files whose results a caller relies on   *)
(* and cannot check: each run of this specification is one of them, on one *)
(* input, and the properties compare what it comes to with a definition of *)
(* what it should.                                                         *)
(***************************************************************************)
EXTENDS Overhangs, Placement, Canonical, Measures

CONSTANTS
    Computations, \* those to be looked at
    Points,      \* points of a part
    Positions,   \* where entities are
    MaxMatches   \* bound: entities of a kind that a selector matches

AllComputations == {"overhangs", "place", "canonical", "distance"}

ASSUME ShapesAssumption ==
    /\ Computations \subseteq AllComputations
    /\ \A p \in Points : p \in [Axes -> Int]
    /\ Positions \subseteq Int
    /\ MaxMatches \in Nat

VARIABLES job, input, done, output

shapesVars == <<regionVars, job, input, done, output>>

-----------------------------------------------------------------------------

NoRegions ==
    /\ corners = [f \in Faces |-> {}] /\ flagged = {}
    /\ parent = [f \in Faces |-> f] /\ todo = {} /\ group = {}
    /\ at = NoWalk /\ groups = [f \in Faces |-> {}]

Placements == [v: Points, t: Points, r: QuarterTurns \X QuarterTurns
                                        \X QuarterTurns]

Found == BoundedSeq(Positions, MaxMatches)
Matches == [{"faces", "edges"} -> Found]

\* Of the two kinds that most selectors are about.
Matching(m) == [k \in ToSet(Kinds) |-> IF k = "vertices" THEN <<>> ELSE m[k]]

Distances == [from: Matches, to: Matches, kind: {"", "edges"}]

ShapesInit ==
    /\ job \in Computations
    /\ done = FALSE /\ output = <<>>
    /\ \/ job = "overhangs" /\ RegionInit /\ input = <<>>
       \/ job = "place" /\ NoRegions /\ input \in Placements
       \/ job = "canonical" /\ NoRegions /\ input \in Documents
       \/ job = "distance" /\ NoRegions /\ input \in Distances

Cluster ==
    /\ job = "overhangs"
    /\ RegionStep
    /\ UNCHANGED <<job, input, done, output>>

Place ==
    /\ job = "place" /\ ~ done /\ done' = TRUE
    /\ output' = [mesh |-> ApplyTransform(input.v, input.t, input.r),
                  shape |-> TransformOcpShape(input.v, input.t, input.r)]
    /\ UNCHANGED <<regionVars, job, input>>

Pin ==
    /\ job = "canonical" /\ ~ done /\ done' = TRUE
    /\ output' = Canonicalise(input)
    /\ UNCHANGED <<regionVars, job, input>>

From(i) == ResolveSelector(Matching(i.from), i.kind)
To(i) == ResolveSelector(Matching(i.to), i.kind)

Measure ==
    /\ job = "distance" /\ ~ done /\ done' = TRUE
    /\ output' = MeasureDistance(From(input), To(input))
    /\ UNCHANGED <<regionVars, job, input>>

ShapesNext == Cluster \/ Place \/ Pin \/ Measure

ShapesSpec == ShapesInit /\ [][ShapesNext]_shapesVars /\ WF_shapesVars(ShapesNext)

Done(j) == job = j /\ done

-----------------------------------------------------------------------------
(* Properties.                                                             *)

\* Where a part's placement is applied, to the vertices of a mesh or to the
\* shape in the kernel, it takes the part to the same place: a picture agrees
\* with the assembly file, interference and clearance.  (measure's volume and
\* bounding box and the STEP file of a single part are of the part unplaced.)
PlacedAlike == Done("place") => output.mesh = output.shape

\* "Its bytes depend only on its geometry": whatever UUIDs the writer drew,
\* the canonical file is the same, and two places of it that had the same
\* UUID, and no others, still have the same one.
PinnedToContent ==
    Done("canonical") =>
        /\ \A rho \in Bijection(Uuids, Uuids) :
              Canonicalise(Redrawn(input, rho)) = output
        /\ \A m, n \in DOMAIN input :
              \A i \in DOMAIN input[m], j \in DOMAIN input[n] :
                  input[m][i] = input[n][j] <=> output[m][i] = output[n][j]

\* A reply that several entities matched says that "the distance is to the
\* nearest of them".
NoteIsTrue ==
    Done("distance") /\ output.note =>
        output.distance = Nearest(From(input), To(input))

=============================================================================
