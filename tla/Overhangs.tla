----------------------------- MODULE Overhangs ------------------------------
(***************************************************************************)
(* How validate_mesh groups the faces that overhang too far into regions:  *)
(* a union-find over the faces, which unites the faces that touch a vertex *)
(* with the first of them, and halves the paths it follows.                *)
(*                                                                         *)
(* The faces are numbered in the order of the mesh.  What makes a face one *)
(* of those that are flagged, its angle, is not modelled.                  *)
(***************************************************************************)
EXTENDS Integers, FiniteSets

CONSTANTS
    NumFaces,
    Vertices,    \* the vertices that several faces may touch, numbered in the
                 \* order in which by_vertex has them
    Flaggings    \* the sets of flagged faces to be looked at

Faces == 1 .. NumFaces

ASSUME OverhangsAssumption ==
    /\ NumFaces \in Nat \ {0}
    /\ IsFiniteSet(Vertices) /\ Vertices \subseteq Nat
    /\ Flaggings \subseteq SUBSET Faces

VARIABLES
    corners,   \* face -> the vertices among Vertices that it touches
    flagged,   \* flagged_idx
    parent,    \* face -> face, of the flagged ones
    todo,      \* the unions that are still to be made
    group,     \* the faces still to be put into a group, when todo is empty
    at,        \* where the walk of find() is, and what it walks for
    groups     \* groups: root -> its faces

regionVars == <<corners, flagged, parent, todo, group, at, groups>>

-----------------------------------------------------------------------------

\* by_vertex: the flagged faces at a vertex.
Touching(v) == {f \in flagged : v \in corners[f]}

Least(S, f) == f \in S /\ \A g \in S : f <= g

Union == [vertex: Vertices, first: Faces, other: Faces]

\* Mutant: all but the last.
UnionsShort(v) ==
    {u \in Union :
        /\ u.vertex = v
        /\ Least(Touching(v), u.first)
        /\ u.other \in Touching(v) \ {u.first}
        /\ \E f \in Touching(v) : u.other < f}

\* The unions at one vertex: the first face there with each of the others.
Unions(v) ==
    {u \in Union :
        /\ u.vertex = v
        /\ Least(Touching(v), u.first)
        /\ u.other \in Touching(v) \ {u.first}}

\* They are made vertex by vertex and face by face.
Before(u, w) ==
    \/ u.vertex < w.vertex
    \/ u.vertex = w.vertex /\ u.other < w.other

NextOne(u) == u \in todo /\ \A w \in todo \ {u} : Before(u, w)

\* pc: what the walk is for.  x: where it is.  root: of the union's first face.
NoWalk == [pc |-> "next", x |-> 1, root |-> 1]

RegionInit ==
    /\ corners \in [Faces -> SUBSET Vertices]
    /\ flagged \in Flaggings
    /\ parent = [f \in Faces |-> f]
    /\ todo = UNION {Unions(v) : v \in Vertices}
    /\ group = flagged
    /\ at = NoWalk
    /\ groups = [f \in Faces |-> {}]

NextUnion(u) ==
    /\ at.pc = "next" /\ NextOne(u)
    /\ at' = [at EXCEPT !.pc = "first", !.x = u.first]
    /\ UNCHANGED <<corners, flagged, parent, todo, group, groups>>

\* Mutant: the path is cut short at the wrong end.
HalveBack ==
    /\ at.pc \in {"first", "other", "group"}
    /\ parent[at.x] # at.x
    /\ parent' = [parent EXCEPT ![parent[at.x]] = at.x]
    /\ at' = [at EXCEPT !.x = parent[at.x]]
    /\ UNCHANGED <<corners, flagged, todo, group, groups>>

\* A step of find(): past the parent to the grandparent.
Halve ==
    /\ at.pc \in {"first", "other", "group"}
    /\ parent[at.x] # at.x
    /\ parent' = [parent EXCEPT ![at.x] = parent[parent[at.x]]]
    /\ at' = [at EXCEPT !.x = parent[parent[at.x]]]
    /\ UNCHANGED <<corners, flagged, todo, group, groups>>

FirstFound(u) ==
    /\ at.pc = "first" /\ NextOne(u) /\ parent[at.x] = at.x
    /\ at' = [pc |-> "other", x |-> u.other, root |-> at.x]
    /\ UNCHANGED <<corners, flagged, parent, todo, group, groups>>

\* Mutant: the face is hung up, not its root.
OtherFoundShallow(u) ==
    /\ at.pc = "other" /\ NextOne(u) /\ parent[at.x] = at.x
    /\ parent' = [parent EXCEPT ![u.other] = at.root]
    /\ todo' = todo \ {u}
    /\ at' = NoWalk
    /\ UNCHANGED <<corners, flagged, group, groups>>

OtherFound(u) ==
    /\ at.pc = "other" /\ NextOne(u) /\ parent[at.x] = at.x
    /\ parent' = [parent EXCEPT ![at.x] = at.root]
    /\ todo' = todo \ {u}
    /\ at' = NoWalk
    /\ UNCHANGED <<corners, flagged, group, groups>>

NextMember(f) ==
    /\ at.pc = "next" /\ todo = {} /\ Least(group, f)
    /\ at' = [at EXCEPT !.pc = "group", !.x = f]
    /\ UNCHANGED <<corners, flagged, parent, todo, group, groups>>

MemberFound(f) ==
    /\ at.pc = "group" /\ Least(group, f) /\ parent[at.x] = at.x
    /\ groups' = [groups EXCEPT ![at.x] = @ \union {f}]
    /\ group' = group \ {f}
    /\ at' = NoWalk
    /\ UNCHANGED <<corners, flagged, parent, todo>>

RegionStep ==
    \/ Halve
    \/ \E u \in todo : NextUnion(u) \/ FirstFound(u) \/ OtherFound(u)
    \/ \E f \in group : NextMember(f) \/ MemberFound(f)

Clustered == todo = {} /\ group = {}

-----------------------------------------------------------------------------
(* Properties.                                                             *)

\* The reference: the smallest sets of flagged faces that no flagged face
\* outside shares a vertex with.
Closed(S) ==
    \A f \in S, g \in flagged :
        corners[f] \intersect corners[g] # {} => g \in S

Regions ==
    {S \in (SUBSET flagged) \ {{}} :
        Closed(S) /\ \A T \in (SUBSET S) \ {{}, S} : ~ Closed(T)}

\* _cluster_regions: "Group flagged faces into connected regions", where
\* "connectivity is shared-vertex adjacency among the flagged faces only".
RegionsAreComponents ==
    Clustered => {groups[f] : f \in Faces} \ {{}} = Regions

\* The walks of find() come to an end.
ClusteringEnds == <>Clustered

=============================================================================
