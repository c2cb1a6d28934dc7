--------------------------- MODULE MCEvalPipeline ---------------------------
(* The instance of EvalPipeline that TLC checks.                           *)
EXTENDS EvalPipeline, TLC

CONSTANTS c1, c2, c3, a1, a2

\* c1 and c2 are on the same market.
SameMarket == c1 :> {a1} @@ c2 :> {a1} @@ c3 :> {a2}

Symmetry == Permutations({c1, c2})
=============================================================================
