---------------------------- MODULE MCWarmSpare -----------------------------
(* Instances of WarmSpare for TLC.                                         *)
EXTENDS WarmSpare, TLC

\* At most MaxOps background threads start a process at the same time.
MCSpawners == 1 .. MaxOps

\* Every thread holds one process at most, and one is the spare.
MCProcs == 1 .. (Cardinality(Runs) + Cardinality(Spawners) + 1)

=============================================================================
