----------------------------- MODULE MCAssembly -----------------------------
(* Instances of Assembly for TLC.                                          *)
EXTENDS Assembly, TLC

\* Identities 1 to MaxCalls + 1: no call is refused for want of one.
MCIds == 1 .. (MaxCalls + 1)

=============================================================================
