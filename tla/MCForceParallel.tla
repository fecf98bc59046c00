-------------------------- MODULE MCForceParallel --------------------------
(* A small instance of ForceParallel for TLC.                                 *)
EXTENDS ForceParallel, TLC

CONSTANTS c1, c2, f1, f2

TwoCalls == {c1, c2}
TwoFiles == {f1, f2}

Symmetric == Permutations(TwoCalls) \cup Permutations(TwoFiles)

=============================================================================
