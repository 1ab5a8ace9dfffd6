--------------------------- MODULE MCAssemblyCrew ---------------------------
(* Instances of AssemblyCrew for TLC.                                      *)
EXTENDS AssemblyCrew, TLC

\* Identities 1 to MaxCalls + 1: no call is refused for want of one.
MCIds == 1 .. (MaxCalls + 1)

\* Pool threads do nothing that tells one from another.
ThreadSymmetry == Permutations(Threads)

=============================================================================
