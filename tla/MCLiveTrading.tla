--------------------------- MODULE MCLiveTrading ---------------------------
(* The instances of LiveTrading that TLC checks.                           *)
EXTENDS LiveTrading, TLC

\* Two shares of YES on each market, at 2 + 2 < 5.
Even ==
  [sell |-> FALSE,
   price |-> [m \in Markets |-> 2], noPrice |-> [m \in Markets |-> 3],
   bet |-> [m \in Markets |-> 4], expected |-> 0]

Symmetry == Permutations(Pids) \cup Permutations(Markets)
=============================================================================
