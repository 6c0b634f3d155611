--------------------------- MODULE MCFiberFuture ---------------------------
(* Instances of FiberFuture for TLC. *)
EXTENDS FiberFuture
=============================================================================
