-------------------------- MODULE MCPositionManager -------------------------
(* The instances of PositionManager that TLC checks.                       *)
EXTENDS PositionManager, TLC

CONSTANTS m1, m2

\* An order for n[m] shares of each market, at YES price y and NO price no.
Order(sell, y, no, n) ==
  LET cost == Total([m \in Markets |-> n[m] * (IF sell THEN no ELSE y)])
      paying == IF sell THEN Cardinality(Markets) - 1 ELSE 1
      least == CHOOSE k \in {n[m] : m \in Markets} : \A m \in Markets : k <= n[m]
  IN [sell    |-> sell,
      price   |-> [m \in Markets |-> y],
      noPrice |-> [m \in Markets |-> no],
      bet     |-> [m \in Markets |-> n[m] * (IF sell THEN no ELSE y)],
      expected |-> paying * least * Unit - cost - Fee(cost)]

Even(n) == [m \in Markets |-> n]
Uneven == (m1 :> 2 @@ m2 :> 1)

\* Buys of YES at 40 + 40 < 100, sells through NO at 40 + 40 < 100.
BuyOrders   == {Order(FALSE, 40, 60, Even(2)), Order(FALSE, 40, 60, Uneven)}
SellOrders  == {Order(TRUE, 60, 40, Even(2)), Order(TRUE, 60, 40, Uneven)}
\* NO asked at 45 where YES, asked at 70, leaves 30.
SpreadOrders == {Order(TRUE, 70, 45, Even(2))}
AllOrders   == BuyOrders \cup SellOrders \cup SpreadOrders

EvenBids   == {[m \in Markets |-> 30], [m \in Markets |-> 50]}
UnevenBids == {(m1 :> 30 @@ m2 :> 50)}
HighBids   == {[m \in Markets |-> 70]}
AllBids    == EvenBids \cup UnevenBids
AllPaperBids == AllBids \cup HighBids

Symmetry == Permutations(Pids)
=============================================================================
