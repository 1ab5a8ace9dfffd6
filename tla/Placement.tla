----------------------------- MODULE Placement ------------------------------
(***************************************************************************)
(* Where a part is put in the assembly: Part.translate and Part.rotate.    *)
(*                                                                         *)
(* The transform is written twice: as a matrix for the meshes that render  *)
(* and export draw (render.py), and as a product of the kernel's rotations *)
(* for the shapes that measure, interference and STEP export use           *)
(* (_geometry_ops.py).  Angles are modelled in quarter turns, for which    *)
(* sines and cosines are integers.                                         *)
(***************************************************************************)
EXTENDS Integers, Sequences

QuarterTurns == 0 .. 3
Axes == 1 .. 3

Sin(q) == CASE q = 1 -> 1 [] q = 3 -> -1 [] OTHER -> 0
Cos(q) == CASE q = 0 -> 1 [] q = 2 -> -1 [] OTHER -> 0

Plus(u, v) == [i \in Axes |-> u[i] + v[i]]
Times(m, v) ==
    [i \in Axes |-> m[i][1] * v[1] + m[i][2] * v[2] + m[i][3] * v[3]]

Origin == <<0, 0, 0>>

-----------------------------------------------------------------------------
(* render.apply_transform.                                                 *)

\* Mutant: X last instead of first.
RotationReversed(r) ==
    LET cx == Cos(r[1])  sx == Sin(r[1])
        cy == Cos(r[2])  sy == Sin(r[2])
        cz == Cos(r[3])  sz == Sin(r[3])
    IN << <<cy * cz, -(cy * sz), sy>>,
          <<sx * sy * cz + cx * sz, cx * cz - sx * sy * sz, -(sx * cy)>>,
          <<sx * sz - cx * sy * cz, cx * sy * sz + sx * cz, cx * cy>> >>

\* r_mat, "combined Rz * Ry * Rx".
Rotation(r) ==
    LET cx == Cos(r[1])  sx == Sin(r[1])
        cy == Cos(r[2])  sy == Sin(r[2])
        cz == Cos(r[3])  sz == Sin(r[3])
    IN << <<cy * cz, sx * sy * cz - cx * sz, cx * sy * cz + sx * sz>>,
          <<cy * sz, sx * sy * sz + cx * cz, cx * sy * sz - sx * cz>>,
          <<-sy, sx * cy, cx * cy>> >>

\* A part that was not moved is not touched.
ApplyTransform(v, t, r) ==
    IF t = Origin /\ r = Origin THEN v ELSE Plus(Times(Rotation(r), v), t)

-----------------------------------------------------------------------------
(* _geometry_ops.build_ocp_transform and transform_ocp_shape.              *)

\* gp_Trsf.SetRotation about an axis through the origin.
Turn(axis, q) ==
    LET c == Cos(q)  s == Sin(q)
    IN CASE axis = 1 -> << <<1, 0, 0>>, <<0, c, -s>>, <<0, s, c>> >>
         [] axis = 2 -> << <<c, 0, s>>, <<0, 1, 0>>, <<-s, 0, c>> >>
         [] axis = 3 -> << <<c, -s, 0>>, <<s, c, 0>>, <<0, 0, 1>> >>

\* gp_Trsf.Multiply: the factor on the right is applied first.
TransformOcpShape(v, t, r) ==
    IF t = Origin /\ r = Origin THEN v
    ELSE Plus(Times(Turn(3, r[3]), Times(Turn(2, r[2]), Times(Turn(1, r[1]), v))),
              t)

=============================================================================
