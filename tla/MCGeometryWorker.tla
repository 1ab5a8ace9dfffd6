-------------------------- MODULE MCGeometryWorker --------------------------
(* Instances of GeometryWorker for TLC.                                    *)
EXTENDS GeometryWorker, TLC

\* An operation starts at most one process.
MCGens == 1 .. MaxCalls

ThreadSymmetry == Permutations(Threads)

=============================================================================
