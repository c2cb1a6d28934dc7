---------------------------- MODULE MCTieredFeed ----------------------------
(* The instance of TieredFeed that TLC checks.                             *)
EXTENDS TieredFeed, TLC

CONSTANTS x, y, a1, a2, a3, mx, my

\* A scan may find a second asset for x, or not yet.
ListsOf == x :> {{a1}, {a1, a2}} @@ y :> {{a3}}
MarketsOf == x :> {mx} @@ y :> {my}
=============================================================================
