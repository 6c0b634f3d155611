--------------------------- MODULE MCHttpConnPool ---------------------------
(* Instances of HttpConnPool for TLC. *)
EXTENDS HttpConnPool, TLC

PoolSymmetry == Permutations(Reqs) \cup Permutations(ConnIds)
=============================================================================
