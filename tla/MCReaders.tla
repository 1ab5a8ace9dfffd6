----------------------------- MODULE MCReaders ------------------------------
(* Instances of Readers for TLC.                                           *)
EXTENDS Readers

CONSTANTS fine, coarse

\* Parts in the order of their names; exports are finer than pictures.
MCOrder == SetToSeq(Paths)
MCTolOf == [tool \in Tools |-> IF tool = "export_model" THEN fine ELSE coarse]

MCSymmetry == Permutations(Threads)

=============================================================================
