----------------------------- MODULE Catalogue -----------------------------
(***************************************************************************)
(* What the evaluation pipeline and the tiered feed both speak of.         *)
(***************************************************************************)

CONSTANT Constraints  \* the arbitrage constraints, by id
=============================================================================
