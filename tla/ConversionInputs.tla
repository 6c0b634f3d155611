-------------------------- MODULE ConversionInputs --------------------------
(***************************************************************************)
(* What MCConversions gives to a conversion: a text of a kind, or the      *)
(* arguments of the SQL builders, or the rows of a result and their type.  *)
(***************************************************************************)
VARIABLES kind, text, args
=============================================================================
