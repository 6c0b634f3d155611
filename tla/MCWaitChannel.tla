--------------------------- MODULE MCWaitChannel ---------------------------
(* Instances of WaitChannel for TLC. *)
EXTENDS WaitChannel, TLC

FnSymmetry == Permutations(Fns)
=============================================================================
