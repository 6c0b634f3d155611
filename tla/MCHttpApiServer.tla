-------------------------- MODULE MCHttpApiServer --------------------------
(* Instances of HttpApiServer for TLC. *)
EXTENDS HttpApiServer, TLC

ConnSymmetry == Permutations(Conns)
=============================================================================
