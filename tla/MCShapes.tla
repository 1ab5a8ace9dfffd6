------------------------------ MODULE MCShapes ------------------------------
(* Instances of Shapes for TLC.                                            *)
EXTENDS Shapes

\* All faces; all but one that may lie between others.
MCFlaggings == {Faces, Faces \ {2}}

\* The axes tell one linear map from another; the origin and a translation
\* do the rest.
MCPoints == {<<0, 0, 0>>, <<1, 0, 0>>, <<0, 1, 0>>, <<0, 0, 1>>}

=============================================================================
