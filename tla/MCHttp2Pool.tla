---------------------------- MODULE MCHttp2Pool ----------------------------
(* Instances of Http2Pool; requests and connections are interchangeable. *)
EXTENDS Http2Pool, TLC

H2Symmetry == Permutations(Reqs) \cup Permutations(ConnIds)
=============================================================================
