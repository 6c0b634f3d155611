--------------------------- MODULE MCFiberProcess ---------------------------
(* Instances of FiberProcess for TLC. *)
EXTENDS FiberProcess
=============================================================================
