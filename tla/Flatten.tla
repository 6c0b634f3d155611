------------------------------ MODULE Flatten ------------------------------
(***************************************************************************)
(* What a loop leaves in a string or a stream that it appends a part to at *)
(* each round.  It is FlattenSeq of the community modules; here from[i] is *)
(* what the rounds from i on append, the form in which the proofs reason   *)
(* about it.                                                               *)
(***************************************************************************)
EXTENDS Integers, Sequences

Flatten(parts) ==
    LET from[i \in 1..(Len(parts) + 1)] ==
            IF i > Len(parts) THEN <<>> ELSE parts[i] \o from[i + 1]
    IN from[1]
=============================================================================
