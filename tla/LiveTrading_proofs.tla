-------------------------- MODULE LiveTrading_proofs --------------------------
(***************************************************************************)
(* Theorems about LiveTrading, for any positions, finite set of markets,   *)
(* order, fill sizes and number of restarts.                               *)
(***************************************************************************)
EXTENDS LiveTrading, FoldTheorems

-----------------------------------------------------------------------------
(* The manager, as far as the confirmed shares of open positions go.       *)

ManagerFields == {"capital", "initial", "profit", "expected", "trades", "wins",
                  "losses", "open", "closed"}
PositionFields == {"sell", "legs", "capital", "fees", "expected", "payout", "profit"}
LegFields == {"price", "bet", "shares", "actual", "fill"}

LegsShape(legs) ==
  /\ DOMAIN legs = Markets
  /\ \A m \in Markets : DOMAIN legs[m] = LegFields /\ legs[m].actual \in Nat

Shape(P) ==
  /\ DOMAIN P = ManagerFields
  /\ DOMAIN P.open = Pids
  /\ \A p \in Pids : IsOpen(P, p) =>
       DOMAIN P.open[p] = PositionFields /\ LegsShape(P.open[p].legs)

Actual(P, p, m) == P.open[p].legs[m].actual

\* What the venue V did stands behind the confirmed shares.
Backed(P, V) ==
  \A p \in Pids, m \in Markets :
    IsOpen(P, p) /\ Actual(P, p, m) > 0 =>
      V[<<p, m>>].status = "confirmed" /\ V[<<p, m>>].filled = Actual(P, p, m)

\* Q opens nothing and confirms nothing.
Keeps(P, Q) ==
  /\ Shape(Q)
  /\ \A p \in Pids : IsOpen(Q, p) =>
       IsOpen(P, p) /\ \A m \in Markets : Actual(Q, p, m) = Actual(P, p, m)

LEMMA KeepsBacked ==
  ASSUME NEW P, NEW Q, NEW V, Keeps(P, Q), Backed(P, V)
  PROVE  Backed(Q, V)
BY DEF Keeps, Backed

LEMMA KeepsTwice ==
  ASSUME NEW P, NEW Q, NEW R, Keeps(P, Q), Keeps(Q, R)
  PROVE  Keeps(P, R)
BY DEF Keeps

LEMMA SameKeeps == ASSUME NEW P, Shape(P) PROVE Keeps(P, P)
BY DEF Keeps

LEMMA NewManagerShape ==
  ASSUME NEW x PROVE Shape(NewManager(x)) /\ \A p \in Pids : ~IsOpen(NewManager(x), p)
BY DEF NewManager, Shape, ManagerFields, IsOpen

LEMMA ImportKeeps ==
  ASSUME NEW P, Shape(P)
  PROVE  Keeps(P, ImportPositions(P))
<1>1. Shape(ImportPositions(P)) /\ ImportPositions(P).open = P.open
  BY DEF ImportPositions, Shape, ManagerFields, IsOpen
<1> QED BY <1>1 DEF Keeps, IsOpen, Actual

LEMMA CloseKeeps ==
  ASSUME NEW P, Shape(P), NEW p \in Pids, NEW pos, NEW x, NEW y
  PROVE  Keeps(P, Close(P, p, pos, x, y))
<1> DEFINE Q == Close(P, p, pos, x, y)
<1>1. DOMAIN Q = ManagerFields /\ Q.open = [P.open EXCEPT ![p] = NoPosition]
  BY DEF Close, Shape, ManagerFields
<1> HIDE DEF Q
<1>2. Keeps(P, Q)
  BY <1>1 DEF Keeps, Shape, IsOpen, Actual
<1> QED BY <1>2 DEF Q

LEMMA ResolutionKeeps ==
  ASSUME NEW P, Shape(P), NEW p \in Pids, NEW w
  PROVE  Keeps(P, CloseOnResolution(P, p, w))
BY CloseKeeps DEF CloseOnResolution

\* Capital and profit are corrected beside the positions.
LEMMA CorrectionKeeps ==
  ASSUME NEW P, Shape(P), NEW x, NEW y
  PROVE  Keeps(P, ReversePhantomPayout(P, x, y))
<1> DEFINE Q == ReversePhantomPayout(P, x, y)
<1>1. DOMAIN Q = ManagerFields /\ Q.open = P.open
  BY DEF ReversePhantomPayout, AdjustCapital, AdjustTotalProfit, Shape, ManagerFields
<1> HIDE DEF Q
<1>2. Keeps(P, Q)
  BY <1>1 DEF Keeps, Shape, IsOpen, Actual
<1> QED BY <1>2 DEF Q

LEMMA RollbackKeeps ==
  ASSUME NEW P, Shape(P), NEW p \in Pids
  PROVE  Keeps(P, RolledBack(P, p)) /\ ~IsOpen(RolledBack(P, p), p)
<1> DEFINE Q == RolledBack(P, p)
<1>1. DOMAIN Q = ManagerFields /\ Q.open = [P.open EXCEPT ![p] = NoPosition]
  BY DEF RolledBack, RefundCapital, RemovePosition, Shape, ManagerFields
<1> HIDE DEF Q
<1>2. Keeps(P, Q) /\ ~IsOpen(Q, p)
  BY <1>1 DEF Keeps, Shape, IsOpen, Actual
<1> QED BY <1>2 DEF Q

\* The reconciler changes the shares a leg was bought with.
LEMMA AdjustKeeps ==
  ASSUME NEW P, Shape(P), NEW p \in Pids, IsOpen(P, p)
  PROVE  Keeps(P, AdjustShares(P, p))
<1> DEFINE d == Differing(P, p)
           legs == [m \in Markets |->
                      IF m \in d THEN [P.open[p].legs[m] EXCEPT !.shares = Wallet(m)]
                      ELSE P.open[p].legs[m]]
           pos == [P.open[p] EXCEPT !.legs = legs]
           Q == AdjustShares(P, p)
<1>1. LegsShape(P.open[p].legs) /\ DOMAIN P.open[p] = PositionFields
  BY DEF Shape
<1>2. LegsShape(legs) /\ \A m \in Markets : legs[m].actual = P.open[p].legs[m].actual
  BY <1>1 DEF LegsShape, LegFields
<1>3. Q = [P EXCEPT !.open = [@ EXCEPT ![p] = pos]]
  BY DEF AdjustShares
<1> HIDE DEF d, legs
<1>4. DOMAIN pos = PositionFields /\ pos.legs = legs
  BY <1>1 DEF PositionFields
<1> HIDE DEF pos, Q
<1>5. DOMAIN Q = ManagerFields /\ Q.open = [P.open EXCEPT ![p] = pos]
  BY <1>3 DEF Shape, ManagerFields
<1>6. Shape(Q)
  BY <1>2, <1>4, <1>5 DEF Shape, IsOpen
<1>7. Keeps(P, Q)
  BY <1>2, <1>4, <1>5, <1>6 DEF Keeps, Shape, IsOpen, Actual
<1> QED BY <1>7 DEF Q

LEMMA ReconciledKeeps ==
  ASSUME NEW P, Shape(P), NEW L, NEW f, NEW others, DOMAIN f = Pids
  PROVE  /\ Keeps(P, Reconciled(P, L, f, others).pm)
         /\ DOMAIN Reconciled(P, L, f, others).fate = Pids
         /\ \A q \in Pids : Reconciled(P, L, f, others).fate[q] \in {f[q], "rolledback"}
<1> DEFINE ps == {p \in OpenPids(P) : Acted(P, p, others)}
           p == CHOOSE q \in ps : TRUE
           R == Reconciled(P, L, f, others)
<1>1. CASE ps = {}
  <2>1. R.pm = P /\ R.fate = f
    BY <1>1 DEF Reconciled
  <2> QED BY <2>1, SameKeeps
<1>2. CASE ps # {}
  <2>1. p \in Pids /\ IsOpen(P, p)
    BY <1>2 DEF OpenPids
  <2>2. Keeps(P, AdjustShares(P, p)) /\ Shape(AdjustShares(P, p))
    BY <2>1, AdjustKeeps DEF Keeps
  <2>3. Keeps(P, RolledBack(AdjustShares(P, p), p))
    BY <2>1, <2>2, RollbackKeeps, KeepsTwice
  <2>4. \/ R.pm = AdjustShares(P, p) /\ R.fate = f
        \/ R.pm = RolledBack(AdjustShares(P, p), p)
           /\ R.fate = [f EXCEPT ![p] = "rolledback"]
    BY <1>2 DEF Reconciled
  <2> HIDE DEF ps, p, R
  <2>5. Keeps(P, R.pm)
    BY <2>2, <2>3, <2>4
  <2>6. DOMAIN R.fate = Pids /\ \A q \in Pids : R.fate[q] \in {f[q], "rolledback"}
    BY <2>4
  <2> QED BY <2>5, <2>6 DEF R
<1> QED BY <1>1, <1>2

\* What an event confirms of a leg, or takes back.
LEMMA FillStatusShape ==
  ASSUME NEW P, Shape(P), NEW p \in Pids, NEW m \in Markets, NEW n \in Nat, NEW s
  PROVE  LET Q == UpdateLegFillStatus(P, p, m, n, s)
         IN /\ Shape(Q)
            /\ \A q \in Pids : IsOpen(Q, q) =>
                 /\ IsOpen(P, q)
                 /\ \A k \in Markets :
                      Actual(Q, q, k) = IF q = p /\ k = m THEN n ELSE Actual(P, q, k)
<1> DEFINE Q == UpdateLegFillStatus(P, p, m, n, s)
<1>1. CASE ~IsOpen(P, p)
  <2>1. Q = P
    BY <1>1 DEF UpdateLegFillStatus
  <2> HIDE DEF Q
  <2>2. \A q \in Pids : IsOpen(P, q) => q # p
    BY <1>1
  <2>3. Shape(Q) /\ \A q \in Pids : IsOpen(Q, q) =>
          IsOpen(P, q) /\ \A k \in Markets :
            Actual(Q, q, k) = IF q = p /\ k = m THEN n ELSE Actual(P, q, k)
    BY <2>1, <2>2
  <2> QED BY <2>3 DEF Q
<1>2. CASE IsOpen(P, p)
  <2> DEFINE leg == [[P.open[p].legs[m] EXCEPT !.actual = n] EXCEPT !.fill = s]
             legs == [P.open[p].legs EXCEPT ![m] = leg]
             pos == [P.open[p] EXCEPT !.legs = legs]
  <2>1. LegsShape(P.open[p].legs) /\ DOMAIN P.open[p] = PositionFields
    BY <1>2 DEF Shape
  <2>2. DOMAIN leg = LegFields /\ leg.actual = n
    BY <2>1 DEF LegsShape, LegFields
  <2>3. LegsShape(legs) /\ \A k \in Markets :
          legs[k].actual = IF k = m THEN n ELSE P.open[p].legs[k].actual
    BY <2>1, <2>2 DEF LegsShape
  <2>4. DOMAIN pos = PositionFields /\ pos.legs = legs
    BY <2>1 DEF PositionFields
  <2>5. DOMAIN Q = ManagerFields /\ DOMAIN Q.open = Pids
        /\ DOMAIN Q.open[p] = PositionFields /\ Q.open[p].legs = legs
        /\ \A q \in Pids : q # p => Q.open[q] = P.open[q]
    BY <1>2, <2>1 DEF UpdateLegFillStatus, Shape, ManagerFields, PositionFields, LegsShape
  <2> HIDE DEF leg, legs, pos, Q
  <2>6. Shape(Q)
    BY <2>3, <2>5 DEF Shape, IsOpen
  <2>7. \A q \in Pids : IsOpen(Q, q) =>
          IsOpen(P, q) /\ \A k \in Markets :
            Actual(Q, q, k) = IF q = p /\ k = m THEN n ELSE Actual(P, q, k)
    BY <1>2, <2>3, <2>5 DEF IsOpen, Actual
  <2> QED BY <2>6, <2>7 DEF Q
<1> QED BY <1>1, <1>2

\* A position that is entered has no confirmed shares.
LEMMA EnteredShape ==
  ASSUME NEW P, Shape(P), NEW p \in Pids, NEW accepted
  PROVE  LET Q == MarkLegs(EnterPosition(P, p, Order), p, accepted)
         IN /\ Shape(Q)
            /\ \A q \in Pids : q # p => Q.open[q] = P.open[q]
            /\ \A m \in Markets : Actual(Q, p, m) = 0
<1> DEFINE E == EnterPosition(P, p, Order)
           Q == MarkLegs(E, p, accepted)
           before == E.open[p].legs
           legs == [m \in Markets |->
                      [before[m] EXCEPT !.actual = 0,
                         !.fill = IF m \in accepted THEN "pending" ELSE "rejected"]]
<1>1. /\ DOMAIN E = ManagerFields /\ DOMAIN E.open = Pids
      /\ DOMAIN E.open[p] = PositionFields
      /\ DOMAIN before = Markets /\ \A m \in Markets : DOMAIN before[m] = LegFields
      /\ \A q \in Pids : q # p => E.open[q] = P.open[q]
  BY DEF EnterPosition, Shape, ManagerFields, PositionFields, LegFields
<1> DEFINE pos == [E.open[p] EXCEPT !.legs = legs]
<1>2. Q = [E EXCEPT !.open = [@ EXCEPT ![p] = pos]]
  BY DEF MarkLegs
<1> HIDE DEF E, Q
<1>3. LegsShape(legs) /\ \A m \in Markets : legs[m].actual = 0
  BY <1>1 DEF LegsShape, LegFields
<1> HIDE DEF before, legs
<1>4. /\ DOMAIN Q = ManagerFields /\ DOMAIN Q.open = Pids
      /\ DOMAIN Q.open[p] = PositionFields /\ Q.open[p].legs = legs
      /\ \A q \in Pids : q # p => Q.open[q] = P.open[q]
  <2>1. DOMAIN pos = PositionFields /\ pos.legs = legs
    BY <1>1 DEF PositionFields
  <2> HIDE DEF pos
  <2>2. DOMAIN Q = ManagerFields /\ Q.open = [E.open EXCEPT ![p] = pos]
    BY <1>1, <1>2 DEF ManagerFields
  <2> QED BY <1>1, <2>1, <2>2
<1>5. Shape(Q) /\ \A m \in Markets : Actual(Q, p, m) = 0
  BY <1>3, <1>4 DEF Shape, IsOpen, Actual
<1> QED BY <1>4, <1>5 DEF Q, E

-----------------------------------------------------------------------------
(* The orders and the events about them.                                   *)

OrdersInv ==
  /\ orders \in [Trades -> OrderRecord]
  /\ venue \in [Trades -> OrderRecord]
  /\ channel \in [Trades -> Seq(OrderStatus)]

\* Only what settled is reported and recorded as confirmed.
HeardInv ==
  \A t \in Trades :
    /\ \A i \in DOMAIN channel[t] : channel[t][i] = "confirmed" => Settled(t)
    /\ orders[t].status = "confirmed" => Settled(t)

BooksInv ==
  /\ DOMAIN saved = {"pm", "ledger"}
  /\ Shape(pm) /\ Shape(saved.pm)
  /\ Backed(pm, venue) /\ Backed(saved.pm, venue)

\* Of a position that was never entered nothing is open, saved or ordered.
FateInv ==
  /\ DOMAIN fate = Pids
  /\ \A p \in Pids : fate[p] = "unused" =>
       /\ ~IsOpen(pm, p) /\ ~IsOpen(saved.pm, p)
       /\ \A m \in Markets : venue[<<p, m>>].status = "none"
  /\ PayoutIsReal

IInv == OrdersInv /\ HeardInv /\ BooksInv /\ FateInv

\* What has settled stays as it is.
Final(V, W) == \A t \in Trades : V[t].status = "confirmed" => W[t] = V[t]

LEMMA FinalBacked ==
  ASSUME NEW P, NEW V, NEW W, Backed(P, V), Final(V, W)
  PROVE  Backed(P, W)
BY DEF Backed, Final, Trades

LEMMA SettledStays ==
  ASSUME Final(venue, venue')
  PROVE  \A t \in Trades : Settled(t) => Settled(t)'
BY DEF Final, Settled

LEMMA NoOrderShape == NoOrder \in OrderRecord /\ NoOrder.status = "none"
BY DEF NoOrder, OrderRecord

LEMMA StatusNames ==
  OrderStatus = {"submitted", "matched", "mined", "retrying", "confirmed",
                 "failed", "cancelled"}
BY DEF OrderStatus, Follows

LEMMA FollowsShape ==
  /\ \A s \in OrderStatus : Follows[s] \subseteq OrderStatus
  /\ Follows["confirmed"] = {}
BY DEF OrderStatus, Follows

LEMMA InitInv == ASSUME Init PROVE IInv
<1>1. OrdersInv
  BY NoOrderShape DEF Init, OrdersInv
<1>2. HeardInv
  BY NoOrderShape DEF Init, HeardInv
<1>3. BooksInv
  BY NewManagerShape DEF Init, BooksInv, Backed
<1>4. FateInv
  BY NewManagerShape, NoOrderShape DEF Init, FateInv, PayoutIsReal, Trades
<1> QED BY <1>1, <1>2, <1>3, <1>4 DEF IInv

LEMMA EnterStep ==
  ASSUME IInv, NEW p \in Pids, Enter(p) PROVE IInv'
<1> PICK sent, accepted \in SUBSET Markets :
      LET entered == MarkLegs(EnterPosition(pm, p, Order), p, accepted)
          taken   == [t \in Trades |-> t \in {p} \X sent]
          tracked == [t \in Trades |-> t \in {p} \X accepted]
      IN /\ pm' = IF accepted = {} THEN RolledBack(entered, p) ELSE entered
         /\ fate' = [fate EXCEPT ![p] = IF accepted = {} THEN "refused" ELSE "entered"]
         /\ orders' = [t \in Trades |-> IF tracked[t]
                         THEN [status |-> "submitted", filled |-> 0] ELSE orders[t]]
         /\ venue' = [t \in Trades |-> IF taken[t]
                        THEN [status |-> "submitted", filled |-> 0] ELSE venue[t]]
  BY DEF Enter
<1> DEFINE entered == MarkLegs(EnterPosition(pm, p, Order), p, accepted)
           sub == [status |-> "submitted", filled |-> 0]
<1>1. sub \in OrderRecord /\ sub.status # "confirmed"
  BY StatusNames DEF OrderRecord
<1> HIDE DEF sub
<1>2. /\ \A t \in Trades : orders'[t] = sub \/ orders'[t] = orders[t]
      /\ \A t \in Trades : venue'[t] = venue[t] \/ (t[1] = p /\ venue'[t] = sub)
      /\ DOMAIN orders' = Trades /\ DOMAIN venue' = Trades
      /\ orders' = [t \in Trades |-> orders'[t]] /\ venue' = [t \in Trades |-> venue'[t]]
  BY DEF sub, Trades
<1>3. fate[p] = "unused" /\ UNCHANGED <<channel, saved>>
  BY DEF Enter
<1>4. OrdersInv'
  BY <1>1, <1>2, <1>3 DEF IInv, OrdersInv
<1>5. \A t \in Trades : t[1] = p => venue[t].status = "none"
  BY <1>3 DEF IInv, FateInv, Trades
<1>6. Final(venue, venue')
  BY <1>2, <1>5 DEF Final
<1>7. HeardInv'
  BY <1>1, <1>2, <1>3, <1>6, SettledStays DEF IInv, HeardInv
<1>8. /\ Shape(entered)
      /\ \A q \in Pids : q # p => entered.open[q] = pm.open[q]
      /\ \A m \in Markets : Actual(entered, p, m) = 0
  BY EnteredShape DEF IInv, BooksInv
<1> HIDE DEF entered
<1>9. Keeps(entered, pm')
  BY <1>8, RollbackKeeps, SameKeeps DEF entered
<1>10. Backed(entered, venue)
  BY <1>8 DEF IInv, BooksInv, Backed, IsOpen, Actual
<1>11. BooksInv'
  <2>1. Shape(pm') /\ Backed(pm', venue)
    BY <1>9, <1>10, KeepsBacked DEF Keeps
  <2> QED BY <2>1, <1>3, <1>6, FinalBacked DEF IInv, BooksInv
<1>12. FateInv'
  <2>1. DOMAIN fate' = Pids /\ fate'[p] \notin {"unused", "paid"}
        /\ \A q \in Pids : q # p => fate'[q] = fate[q]
    BY DEF IInv, FateInv
  <2>2. \A q \in Pids : q # p => (IsOpen(pm', q) => IsOpen(pm, q))
    BY <1>8, <1>9 DEF Keeps, IsOpen
  <2>3. \A q \in Pids, m \in Markets : q # p => venue'[<<q, m>>] = venue[<<q, m>>]
    BY <1>2 DEF Trades
  <2>4. \A q \in Pids : fate'[q] = "unused" =>
          /\ ~IsOpen(pm', q) /\ ~IsOpen(saved'.pm, q)
          /\ \A m \in Markets : venue'[<<q, m>>].status = "none"
    <3>1. \A q \in Pids : fate[q] = "unused" =>
            /\ ~IsOpen(pm, q) /\ ~IsOpen(saved.pm, q)
            /\ \A m \in Markets : venue[<<q, m>>].status = "none"
      BY DEF IInv, FateInv
    <3>2. saved' = saved
      BY <1>3
    <3> QED BY <2>1, <2>2, <2>3, <3>1, <3>2
  <2>5. PayoutIsReal'
    BY <2>1, <1>6, SettledStays DEF IInv, FateInv, PayoutIsReal, SomeLegSettled, Trades
  <2> QED BY <2>1, <2>4, <2>5 DEF FateInv
<1> QED BY <1>4, <1>7, <1>11, <1>12 DEF IInv

LEMMA VenueStepStep ==
  ASSUME IInv, NEW t \in Trades, VenueStep(t) PROVE IInv'
<1> PICK s \in Follows[venue[t].status], n \in Sizes :
      /\ venue' = [venue EXCEPT ![t] =
           [status |-> s, filled |-> IF s = "matched" THEN n ELSE @.filled]]
      /\ channel' = [channel EXCEPT ![t] = Append(@, s)]
  BY DEF VenueStep
<1>1. UNCHANGED <<pm, orders, saved, fate>> /\ venue[t] # NoOrder
  BY DEF VenueStep
<1>2. venue[t] \in [status : OrderStatus, filled : Nat]
      /\ venue[t].status # "confirmed" /\ s \in OrderStatus
  BY <1>1, FollowsShape DEF IInv, OrdersInv, OrderRecord
<1> DEFINE new == [status |-> s, filled |-> IF s = "matched" THEN n ELSE venue[t].filled]
<1>3. new \in OrderRecord /\ new.status = s
  BY <1>2, LiveAssumption DEF OrderRecord
<1>4. venue' = [venue EXCEPT ![t] = new]
  OBVIOUS
<1> HIDE DEF new
<1>5. OrdersInv'
  BY <1>1, <1>2, <1>3, <1>4 DEF IInv, OrdersInv
<1>6. Final(venue, venue')
  BY <1>2, <1>4 DEF IInv, OrdersInv, Final
<1>7. HeardInv'
  <2>1. \A u \in Trades : Settled(u) => Settled(u)'
    BY <1>6, SettledStays
  <2>2. s = "confirmed" => Settled(t)'
    BY <1>3, <1>4 DEF IInv, OrdersInv, Settled
  <2>3. ASSUME NEW u \in Trades, NEW i \in DOMAIN channel'[u], channel'[u][i] = "confirmed"
        PROVE  Settled(u)'
    <3>1. CASE u = t
      <4>1. channel[t] \in Seq(OrderStatus) /\ channel'[t] = Append(channel[t], s)
        BY DEF IInv, OrdersInv
      <4>2. (i \in DOMAIN channel[t] /\ channel'[t][i] = channel[t][i]) \/ channel'[t][i] = s
        BY <4>1, <3>1, <1>2
      <4> QED BY <4>2, <3>1, <2>1, <2>2, <2>3 DEF IInv, HeardInv
    <3>2. CASE u # t
      BY <3>2, <2>1, <2>3 DEF IInv, OrdersInv, HeardInv
    <3> QED BY <3>1, <3>2
  <2>4. \A u \in Trades : orders'[u].status = "confirmed" => Settled(u)'
    BY <2>1, <1>1 DEF IInv, HeardInv
  <2> QED BY <2>3, <2>4 DEF HeardInv
<1>8. BooksInv'
  BY <1>1, <1>6, FinalBacked DEF IInv, BooksInv
<1>9. FateInv'
  <2>1. \A p \in Pids, m \in Markets : fate[p] = "unused" => <<p, m>> # t
    BY <1>2, StatusNames DEF IInv, FateInv
  <2>2. \A p \in Pids, m \in Markets : <<p, m>> # t => venue'[<<p, m>>] = venue[<<p, m>>]
    BY <1>4 DEF IInv, OrdersInv, Trades
  <2>3. PayoutIsReal'
    BY <1>1, <1>6, SettledStays DEF IInv, FateInv, PayoutIsReal, SomeLegSettled, Trades
  <2> QED BY <1>1, <2>1, <2>2, <2>3 DEF IInv, FateInv
<1> QED BY <1>5, <1>7, <1>8, <1>9 DEF IInv

LEMMA DispatchStep ==
  ASSUME IInv, NEW t \in Trades, Dispatch(t) PROVE IInv'
<1> DEFINE s == Head(channel[t])
           shares == IF s = "cancelled" THEN orders[t].filled ELSE venue[t].filled
<1>1. /\ UNCHANGED <<venue, saved, fate>> /\ channel[t] # <<>>
      /\ channel' = [channel EXCEPT ![t] = Tail(@)]
  BY DEF Dispatch
<1>2. /\ channel[t] \in Seq(OrderStatus) /\ Len(channel[t]) > 0
      /\ s \in OrderStatus /\ s = channel[t][1] /\ 1 \in DOMAIN channel[t]
      /\ channel'[t] = Tail(channel[t]) /\ channel'[t] \in Seq(OrderStatus)
      /\ \A i \in DOMAIN channel'[t] : i + 1 \in DOMAIN channel[t]
                                      /\ channel'[t][i] = channel[t][i + 1]
  BY <1>1 DEF IInv, OrdersInv
<1>3. s = "confirmed" => Settled(t)
  BY <1>2 DEF IInv, HeardInv
<1>4. shares \in Nat /\ (s = "confirmed" => shares = venue[t].filled)
  <2>1. orders[t].filled \in Nat /\ venue[t].filled \in Nat
    BY DEF IInv, OrdersInv, OrderRecord, NoOrder
  <2> QED BY <2>1
<1>5. \A u \in Trades : \A i \in DOMAIN channel'[u] : channel'[u][i] = "confirmed" => Settled(u)
  <2>1. \A u \in Trades : \A i \in DOMAIN channel[u] : channel[u][i] = "confirmed" => Settled(u)
    BY DEF IInv, HeardInv
  <2>2. \A u \in Trades : u # t => channel'[u] = channel[u]
    BY <1>1 DEF IInv, OrdersInv
  <2>3. \A i \in DOMAIN channel'[t] : channel'[t][i] = "confirmed" => Settled(t)
    <3>1. \A i \in DOMAIN channel'[t] : i + 1 \in DOMAIN channel[t]
                                      /\ channel'[t][i] = channel[t][i + 1]
      BY <1>2
    <3> QED BY <2>1, <3>1
  <2> QED BY <2>1, <2>2, <2>3
<1>6. channel' \in [Trades -> Seq(OrderStatus)]
  BY <1>1, <1>2 DEF IInv, OrdersInv
<1>7. \/ UNCHANGED orders
      \/ orders' = [orders EXCEPT ![t] = [status |-> s, filled |-> shares]]
  BY DEF Dispatch
<1>8. pm' = pm \/ pm' = MarkFill(pm, t, s, shares)
  BY DEF Dispatch
<1> HIDE DEF s, shares
<1>9. orders' \in [Trades -> OrderRecord]
  <2> DEFINE new == [status |-> s, filled |-> shares]
  <2>1. new \in OrderRecord
    BY <1>2, <1>4 DEF OrderRecord
  <2>2. orders' = orders \/ orders' = [orders EXCEPT ![t] = new]
    BY <1>7
  <2> HIDE DEF new
  <2> QED BY <2>1, <2>2 DEF IInv, OrdersInv
<1>10. \A u \in Trades : orders'[u].status = "confirmed" => Settled(u)
  <2>1. \A u \in Trades : orders'[u] = orders[u]
                        \/ (u = t /\ orders'[u].status = s)
    BY <1>7 DEF IInv, OrdersInv
  <2> QED BY <2>1, <1>3 DEF IInv, HeardInv
<1>11. /\ Shape(pm') /\ Backed(pm', venue)
       /\ \A q \in Pids : IsOpen(pm', q) => IsOpen(pm, q)
  <2>1. CASE pm' = pm
    BY <2>1 DEF IInv, BooksInv
  <2>2. CASE pm' = MarkFill(pm, t, s, shares)
    <3>1. t[1] \in Pids /\ t[2] \in Markets /\ t = <<t[1], t[2]>>
      BY DEF Trades
    <3>2. \/ pm' = pm
          \/ s = "confirmed" /\ pm' = UpdateLegFillStatus(pm, t[1], t[2], shares, "accepted")
          \/ pm' = UpdateLegFillStatus(pm, t[1], t[2], 0, "rejected")
      BY <2>2, <1>2, StatusNames DEF MarkFill
    <3>3. CASE s = "confirmed" /\ pm' = UpdateLegFillStatus(pm, t[1], t[2], shares, "accepted")
      <4>1. /\ Shape(pm')
            /\ \A q \in Pids : IsOpen(pm', q) =>
                 /\ IsOpen(pm, q)
                 /\ \A k \in Markets : Actual(pm', q, k) =
                      IF q = t[1] /\ k = t[2] THEN shares ELSE Actual(pm, q, k)
        BY <3>1, <3>3, <1>4, FillStatusShape DEF IInv, BooksInv
      <4>2. Backed(pm', venue)
        BY <3>1, <3>3, <4>1, <1>3, <1>4 DEF IInv, BooksInv, Backed, Settled
      <4> QED BY <4>1, <4>2
    <3>4. CASE pm' = UpdateLegFillStatus(pm, t[1], t[2], 0, "rejected")
      <4>1. /\ Shape(pm')
            /\ \A q \in Pids : IsOpen(pm', q) =>
                 /\ IsOpen(pm, q)
                 /\ \A k \in Markets : Actual(pm', q, k) =
                      IF q = t[1] /\ k = t[2] THEN 0 ELSE Actual(pm, q, k)
        BY <3>1, <3>4, FillStatusShape DEF IInv, BooksInv
      <4>2. Backed(pm', venue)
        BY <4>1 DEF IInv, BooksInv, Backed
      <4> QED BY <4>1, <4>2
    <3> QED BY <2>1, <3>2, <3>3, <3>4
  <2> QED BY <1>8, <2>1, <2>2
<1>12. OrdersInv' /\ HeardInv'
  BY <1>1, <1>5, <1>6, <1>9, <1>10 DEF IInv, OrdersInv, HeardInv, Settled
<1>13. BooksInv'
  BY <1>1, <1>11 DEF IInv, BooksInv
<1>14. FateInv'
  BY <1>1, <1>11 DEF IInv, FateInv, PayoutIsReal, SomeLegSettled, Settled
<1> QED BY <1>12, <1>13, <1>14 DEF IInv

LEMMA LoseStep ==
  ASSUME IInv, NEW t \in Trades, Lose(t) PROVE IInv'
<1>1. /\ UNCHANGED <<pm, orders, venue, saved, fate>> /\ channel[t] # <<>>
      /\ channel' = [channel EXCEPT ![t] = Tail(@)]
  BY DEF Lose
<1>2. /\ channel[t] \in Seq(OrderStatus)
      /\ channel'[t] = Tail(channel[t]) /\ channel'[t] \in Seq(OrderStatus)
      /\ \A i \in DOMAIN channel'[t] : i + 1 \in DOMAIN channel[t]
                                      /\ channel'[t][i] = channel[t][i + 1]
  BY <1>1 DEF IInv, OrdersInv
<1>3. OrdersInv'
  BY <1>1, <1>2 DEF IInv, OrdersInv
<1>4. HeardInv'
  <2>1. \A u \in Trades : u # t => channel'[u] = channel[u]
    BY <1>1 DEF IInv, OrdersInv
  <2>2. \A u \in Trades : \A i \in DOMAIN channel'[u] : channel'[u][i] = "confirmed" => Settled(u)
    BY <1>2, <2>1 DEF IInv, HeardInv
  <2> QED BY <1>1, <2>2 DEF IInv, HeardInv, Settled
<1>5. BooksInv' /\ FateInv'
  BY <1>1 DEF IInv, BooksInv, FateInv, PayoutIsReal, SomeLegSettled, Settled
<1> QED BY <1>3, <1>4, <1>5 DEF IInv

\* A step of the books alone that opens nothing and confirms nothing.
LEMMA BooksStep ==
  ASSUME IInv, UNCHANGED <<orders, venue, channel, saved>>, Keeps(pm, pm'),
         DOMAIN fate' = Pids,
         \A p \in Pids : fate'[p] \in {fate[p], "rolledback", "fed", "reversed"}
                        \/ (fate'[p] = "paid" /\ (SomeLegSettled(p) \/ p \in Exempt))
  PROVE  IInv'
<1>1. OrdersInv' /\ HeardInv'
  BY DEF IInv, OrdersInv, HeardInv, Settled
<1>2. BooksInv'
  BY KeepsBacked DEF IInv, BooksInv, Keeps
<1>3. PayoutIsReal'
  BY DEF IInv, FateInv, PayoutIsReal, SomeLegSettled, Settled
<1>4. FateInv'
  BY <1>3 DEF IInv, FateInv, Keeps
<1> QED BY <1>1, <1>2, <1>4 DEF IInv

LEMMA ReconcileStep ==
  ASSUME IInv, Reconcile PROVE IInv'
<1> PICK others \in BOOLEAN :
      /\ pm' = Reconciled(pm, ledger, fate, others).pm
      /\ fate' = Reconciled(pm, ledger, fate, others).fate
  BY DEF Reconcile
<1>1. UNCHANGED <<orders, venue, channel, saved>>
  BY DEF Reconcile
<1> QED BY <1>1, ReconciledKeeps, BooksStep DEF IInv, BooksInv, FateInv

LEMMA PollStep ==
  ASSUME IInv, NEW p \in Pids, PollResolution(p) PROVE IInv'
<1> DEFINE closed == CloseOnResolution(pm, p, winner)
           last == closed.closed[Len(closed.closed)].pos
<1>1. Shape(pm) /\ Keeps(pm, closed) /\ Shape(closed)
  BY ResolutionKeeps DEF IInv, BooksInv, Keeps
<1>2. Keeps(pm, ReversePhantomPayout(closed, last.payout, last.profit))
  BY <1>1, CorrectionKeeps, KeepsTwice
<1>3. HasConfirmedFills(p) => SomeLegSettled(p)
  BY DEF IInv, HeardInv, HasConfirmedFills, SomeLegSettled, Trades
<1>4. \/ pm' = closed /\ fate' = [fate EXCEPT ![p] = "paid"]
         /\ (HasConfirmedFills(p) \/ p \in Exempt)
      \/ /\ pm' = ReversePhantomPayout(closed, last.payout, last.profit)
         /\ fate' = [fate EXCEPT ![p] = "reversed"]
  BY DEF PollResolution
<1>5. UNCHANGED <<orders, venue, channel, saved>>
  BY DEF PollResolution
<1>6. DOMAIN fate = Pids
  BY DEF IInv, FateInv
<1> HIDE DEF closed, last
<1>7. Keeps(pm, pm')
  BY <1>1, <1>2, <1>4
<1>8. DOMAIN fate' = Pids /\ \A q \in Pids :
        fate'[q] \in {fate[q], "rolledback", "fed", "reversed"}
        \/ (fate'[q] = "paid" /\ (SomeLegSettled(q) \/ q \in Exempt))
  BY <1>3, <1>4, <1>6
<1> QED BY <1>5, <1>7, <1>8, BooksStep

LEMMA FeedStep ==
  ASSUME IInv, NEW p \in Pids, FeedResolves(p) PROVE IInv'
<1>1. Keeps(pm, pm')
  BY ResolutionKeeps DEF IInv, BooksInv, FeedResolves
<1>2. DOMAIN fate' = Pids /\ \A q \in Pids : fate'[q] \in {fate[q], "fed"}
  BY DEF IInv, FateInv, FeedResolves
<1> QED BY <1>1, <1>2, BooksStep DEF FeedResolves

LEMMA ResolveStep ==
  ASSUME IInv, NEW m \in Markets, Resolve(m) PROVE IInv'
<1>1. Keeps(pm, pm')
  BY SameKeeps DEF IInv, BooksInv, Resolve
<1> QED BY <1>1, BooksStep DEF IInv, FateInv, Resolve

LEMMA SaveStep ==
  ASSUME IInv, Save PROVE IInv'
<1>1. UNCHANGED <<pm, orders, venue, channel, fate>> /\ saved' = [pm |-> pm, ledger |-> ledger]
  BY DEF Save
<1>2. saved'.pm = pm /\ DOMAIN saved' = {"pm", "ledger"}
  BY <1>1
<1>3. OrdersInv' /\ HeardInv'
  BY <1>1 DEF IInv, OrdersInv, HeardInv, Settled
<1>4. BooksInv'
  BY <1>1, <1>2 DEF IInv, BooksInv
<1>5. FateInv'
  BY <1>1, <1>2 DEF IInv, FateInv, PayoutIsReal, SomeLegSettled, Settled
<1> QED BY <1>3, <1>4, <1>5 DEF IInv

\* What a restart makes of the books, whatever else the wallet holds.
LEMMA Restarted ==
  ASSUME Restart
  PROVE  LET P == ImportPositions(saved.pm)
         IN \E others \in BOOLEAN :
              \/ /\ pm' = Reconciled(P, saved.ledger, fate, others).pm
                 /\ ledger' = Reconciled(P, saved.ledger, fate, others).ledger
                 /\ fate' = Reconciled(P, saved.ledger, fate, others).fate
              \/ pm' = P /\ ledger' = saved.ledger /\ fate' = fate
<1> DEFINE P == ImportPositions(saved.pm)
           R(others) == Reconciled(P, saved.ledger, fate, others)
           loaded == [pm |-> P, ledger |-> saved.ledger, fate |-> fate]
<1>1. \E r \in {R(others) : others \in BOOLEAN} \cup {loaded} :
        pm' = r.pm /\ ledger' = r.ledger /\ fate' = r.fate
  BY DEF Restart
<1>2. loaded.pm = P /\ loaded.ledger = saved.ledger /\ loaded.fate = fate
  OBVIOUS
<1> HIDE DEF P, R, loaded
<1>3. \E others \in BOOLEAN :
        \/ pm' = R(others).pm /\ ledger' = R(others).ledger /\ fate' = R(others).fate
        \/ pm' = P /\ ledger' = saved.ledger /\ fate' = fate
  BY <1>1, <1>2
<1> QED BY <1>3 DEF P, R

\* What a restart loads was confirmed before, and the sweep takes back only
\* what was not matched.
LEMMA RestartStep ==
  ASSUME IInv, Restart PROVE IInv'
<1> DEFINE P == ImportPositions(saved.pm)
<1> PICK others \in BOOLEAN :
      \/ /\ pm' = Reconciled(P, saved.ledger, fate, others).pm
         /\ ledger' = Reconciled(P, saved.ledger, fate, others).ledger
         /\ fate' = Reconciled(P, saved.ledger, fate, others).fate
      \/ pm' = P /\ ledger' = saved.ledger /\ fate' = fate
  BY Restarted
<1> DEFINE R == Reconciled(P, saved.ledger, fate, others)
<1>1. \/ pm' = R.pm /\ fate' = R.fate
      \/ pm' = P /\ fate' = fate
  OBVIOUS
<1>2. /\ venue' \in {venue, Swept(venue)} /\ UNCHANGED saved
      /\ orders' = [t \in Trades |-> NoOrder] /\ channel' = [t \in Trades |-> <<>>]
  BY DEF Restart
<1>3. Keeps(saved.pm, P) /\ Shape(P)
  BY ImportKeeps DEF IInv, BooksInv, Keeps
<1>4. Keeps(P, R.pm) /\ DOMAIN R.fate = Pids
      /\ \A q \in Pids : R.fate[q] \in {fate[q], "rolledback"}
  BY <1>3, ReconciledKeeps DEF IInv, FateInv
<1>5. Keeps(saved.pm, R.pm)
  BY <1>3, <1>4, KeepsTwice
<1> HIDE DEF P, R
<1>6. Keeps(saved.pm, pm') /\ DOMAIN fate' = Pids
      /\ \A q \in Pids : fate'[q] \in {fate[q], "rolledback"}
  BY <1>1, <1>3, <1>4, <1>5 DEF IInv, FateInv
<1>7. /\ venue' \in [Trades -> OrderRecord] /\ Final(venue, venue')
      /\ \A t \in Trades : venue[t].status = "none" => venue'[t] = venue[t]
  <2>1. CASE venue' = venue
    BY <2>1 DEF IInv, OrdersInv, Final
  <2>2. CASE venue' = Swept(venue)
    <3>1. \A t \in Trades : venue[t] \in OrderRecord
      BY DEF IInv, OrdersInv
    <3>2. \A t \in Trades : venue[t].status = "submitted" =>
            [venue[t] EXCEPT !.status = "cancelled"] \in OrderRecord
      BY <3>1, StatusNames DEF OrderRecord, NoOrder
    <3> QED BY <2>2, <3>1, <3>2 DEF Swept, Final
  <2> QED BY <1>2, <2>1, <2>2
<1>8. OrdersInv'
  BY <1>2, <1>7, NoOrderShape DEF OrdersInv
<1>9. HeardInv'
  BY <1>2, NoOrderShape DEF HeardInv
<1>10. BooksInv'
  <2>1. Backed(pm', venue) /\ Shape(pm')
    BY <1>6, KeepsBacked DEF IInv, BooksInv, Keeps
  <2> QED BY <2>1, <1>2, <1>7, FinalBacked DEF IInv, BooksInv
<1>11. FateInv'
  <2>1. PayoutIsReal'
    BY <1>6, <1>7, SettledStays DEF IInv, FateInv, PayoutIsReal, SomeLegSettled, Trades
  <2> QED BY <2>1, <1>2, <1>6, <1>7 DEF IInv, FateInv, Keeps, Trades
<1> QED BY <1>8, <1>9, <1>10, <1>11 DEF IInv

LEMMA StutterStep ==
  ASSUME IInv, UNCHANGED vars PROVE IInv'
<1>1. Keeps(pm, pm')
  BY SameKeeps DEF IInv, BooksInv, vars
<1> QED BY <1>1, BooksStep DEF IInv, FateInv, vars

LEMMA NextStep == ASSUME IInv, [Next]_vars PROVE IInv'
BY EnterStep, VenueStepStep, DispatchStep, LoseStep, ReconcileStep, ResolveStep,
   PollStep, FeedStep, SaveStep, RestartStep, StutterStep DEF Next

-----------------------------------------------------------------------------
(* The types.  The ledger is the one of Ledger, and its lemmas are cited   *)
(* through Acc, where the prices of adjustments are 0 and the constants of *)
(* its own actions play no part.                                           *)

EntryKeys == {"entry"} \X Pids \X Markets

Acc == INSTANCE Accounts_proofs WITH
         Positions <- Pids, Assets <- Assets, Trades <- Trades, Keys <- EntryKeys,
         Openings <- {StartCapital}, RestoredCash <- {}, Capitals <- Nat,
         Proceeds <- Nat, Fees <- Nat, Shares <- Nat, Prices <- {0},
         MaxAdjustments <- 0, reversed <- {}, adjustments <- 0,
         FeeNum <- 0, FeeDen <- 1, Modes <- {}, Orders <- {}, Bids <- {},
         PaperBids <- {}, Replacements <- {}, MaxShares <- 0,
         live <- TRUE, wallet <- 0, held <- <<>>

LEMMA AccAssumptions ==
  /\ Acc!AmountsAssumption /\ Acc!FeeAssumption
  /\ Acc!ManagerAssumption /\ Acc!OrdersAssumption
<1>1. Acc!IsFiniteSet(Markets)
  BY LiveAssumption DEF IsFiniteSet, Acc!IsFiniteSet
<1>2. Acc!ManagerAssumption
  BY <1>1, LiveAssumption DEF Acc!ManagerAssumption
<1>3. Acc!AmountsAssumption
  BY LiveAssumption DEF Acc!AmountsAssumption
<1> QED
  BY <1>2, <1>3, FeeAssumption DEF Acc!FeeAssumption, Acc!OrdersAssumption

\* The books balance, cover the journal, hold the pending trades' money in
\* suspense, and the running cash is the journal's.
Kept(L) == Acc!Sound(L) /\ Acc!Backed(L) /\ L.cash = L.journal.Cash

\* What an operation that preserves the books keeps.
LEMMA PreservedKept ==
  ASSUME NEW L, NEW M, Kept(L), Acc!Preserves(L, M), Acc!Backed(M)
  PROVE  Kept(M)
<1>1. Acc!Sound(M) /\ M.cash - L.cash = M.journal.Cash - L.journal.Cash
  BY DEF Kept, Acc!Preserves, Acc!CashInStep
<1>2. L.cash \in Int /\ L.journal.Cash \in Int /\ M.cash \in Int /\ M.journal.Cash \in Int
  BY <1>1 DEF Kept, Acc!Sound, Acc!LedgerType, Acc!Journal
<1> QED BY <1>1, <1>2 DEF Kept

LEMMA KeptType ==
  ASSUME NEW L, Kept(L)
  PROVE  L \in Books!LedgerType /\ L \in Acc!LedgerType
BY DEF Kept, Acc!Sound, Acc!LedgerType, Books!LedgerType, Acc!Journal, Books!Journal,
       Acc!SuspenseEntry, Books!SuspenseEntry, Acc!Status, Books!Status,
       Acc!NoEntry, Books!NoEntry, EntryKeys

LEMMA NewLedgerKept == Kept(Books!NewLedger(StartCapital))
<1> DEFINE L == Books!NewLedger(StartCapital)
<1>1. L = Acc!NewLedger(StartCapital)
  BY DEF Books!NewLedger, Acc!NewLedger, Books!NoHolding, Acc!NoHolding,
         Books!NoEntry, Acc!NoEntry
<1>2. Acc!Sound(L)
  BY <1>1, AccAssumptions, LiveAssumption, Acc!NewLedgerSound
<1>3. /\ L.suspense = [t \in Trades |-> Acc!NoEntry]
      /\ L.journal.Suspense = 0 /\ L.cash = L.journal.Cash
  BY DEF Books!NewLedger, Books!NoEntry, Acc!NoEntry
<1>4. Acc!PendingTrades(L) = {}
  BY <1>3 DEF Acc!PendingTrades, Acc!NoEntry, Acc!Pending
<1>5. Acc!SuspenseTotal(L) = 0
  BY <1>4, AccAssumptions, Acc!SuspenseSum, Acc!SumEmpty
<1>6. Acc!IsFiniteSet(Acc!PendingTrades(L))
  BY <1>4, AccAssumptions, Acc!FS_EmptySet
<1> QED BY <1>2, <1>3, <1>5, <1>6 DEF Kept, Acc!Backed

LEMMA BuyKept ==
  ASSUME NEW L, Kept(L), NEW k \in EntryKeys, NEW p \in Pids, NEW a \in Assets,
         NEW capital \in Nat, NEW fees \in Nat, NEW shares \in Nat
  PROVE  Kept(Books!RecordBuyDedup(L, k, p, a, capital, fees, shares))
<1> DEFINE M == Acc!RecordBuyDedup(L, k, p, a, capital, fees, shares)
<1>1. Books!RecordBuyDedup(L, k, p, a, capital, fees, shares) = M
  BY DEF Books!RecordBuyDedup, Acc!RecordBuyDedup, Books!RecordBuy, Acc!RecordBuy,
         Books!Post, Acc!Post
<1>2. Acc!Preserves(L, M)
  BY AccAssumptions, Acc!BuyDedupPreserves
<1>3. Acc!Backed(M)
  BY KeptType, AccAssumptions, Acc!BuyLeavesSuspense DEF Kept
<1> QED BY <1>1, <1>2, <1>3, PreservedKept

LEMMA ReverseKept ==
  ASSUME NEW L, Kept(L), NEW p \in Pids
  PROVE  Kept(Books!ReverseBuyByPosition(L, p))
<1> DEFINE M == Acc!ReverseBuyByPosition(L, p)
<1>1. Books!ReverseBuyByPosition(L, p) = M
  BY DEF Books!ReverseBuyByPosition, Acc!ReverseBuyByPosition, Books!Post, Acc!Post,
         Books!AtLeast0, Acc!AtLeast0
<1>2. Acc!Preserves(L, M)
  BY AccAssumptions, Acc!ReversePreserves
<1>3. Acc!Backed(M)
  BY KeptType, AccAssumptions, Acc!RollbackLeavesSuspense DEF Kept
<1> QED BY <1>1, <1>2, <1>3, PreservedKept

LEMMA AdjustmentKept ==
  ASSUME NEW L, Kept(L), NEW p \in Pids, NEW a \in Assets, NEW delta \in Int
  PROVE  Kept(Books!RecordReconciliationAdjustment(L, p, a, delta, 0))
<1> DEFINE M == Acc!RecordReconciliationAdjustment(L, p, a, delta, 0)
<1>1. Books!RecordReconciliationAdjustment(L, p, a, delta, 0) = M
  BY DEF Books!RecordReconciliationAdjustment, Acc!RecordReconciliationAdjustment,
         Books!ReconcileUp, Acc!ReconcileUp, Books!ReconcileDown, Acc!ReconcileDown,
         Books!Post, Acc!Post, Books!AtLeast0, Acc!AtLeast0
<1>2. Acc!Preserves(L, M)
  BY AccAssumptions, Acc!ReconcilePreserves
<1>3. Acc!Backed(M)
  BY KeptType, AccAssumptions, Acc!ReconcileLeavesSuspense DEF Kept
<1> QED BY <1>1, <1>2, <1>3, PreservedKept

LEMMA MatchKept ==
  ASSUME NEW L, Kept(L), NEW t \in Trades, NEW p \in Pids, NEW a \in Assets,
         NEW shares \in Nat, NEW capital \in Nat, NEW fees \in Nat
  PROVE  Kept(Books!EnterSuspense(L, t, p, a, shares, capital, fees))
<1> DEFINE M == Acc!EnterSuspense(L, t, p, a, shares, capital, fees)
<1>1. Books!EnterSuspense(L, t, p, a, shares, capital, fees) = M
  BY DEF Books!EnterSuspense, Acc!EnterSuspense, Books!Post, Acc!Post,
         Books!NoEntry, Acc!NoEntry
<1>2. Acc!Preserves(L, M)
  BY AccAssumptions, Acc!EnterSuspensePreserves
<1>3. Acc!Backed(M)
  BY AccAssumptions, Acc!EnterKeepsBacked DEF Kept
<1> QED BY <1>1, <1>2, <1>3, PreservedKept

LEMMA FinalityKept ==
  ASSUME NEW L, Kept(L), NEW t \in Trades
  PROVE  /\ Kept(Books!ConfirmFromSuspense(L, t))
         /\ Kept(Books!MarkSuspenseRetrying(L, t))
         /\ Kept(Books!ReverseSuspense(L, t))
<1>1. /\ Books!ConfirmFromSuspense(L, t) = Acc!ConfirmFromSuspense(L, t)
      /\ Books!MarkSuspenseRetrying(L, t) = Acc!MarkSuspenseRetrying(L, t)
      /\ Books!ReverseSuspense(L, t) = Acc!ReverseSuspense(L, t)
  BY DEF Books!ConfirmFromSuspense, Acc!ConfirmFromSuspense,
         Books!MarkSuspenseRetrying, Acc!MarkSuspenseRetrying,
         Books!ReverseSuspense, Acc!ReverseSuspense, Books!Post, Acc!Post,
         Books!Pending, Acc!Pending
<1>2. /\ Acc!Preserves(L, Acc!ConfirmFromSuspense(L, t))
      /\ Acc!Preserves(L, Acc!MarkSuspenseRetrying(L, t))
      /\ Acc!Preserves(L, Acc!ReverseSuspense(L, t))
  BY AccAssumptions, Acc!ConfirmPreserves, Acc!RetryPreserves, Acc!ReverseSuspensePreserves
<1>3. /\ Acc!Backed(Acc!ConfirmFromSuspense(L, t))
      /\ Acc!Backed(Acc!MarkSuspenseRetrying(L, t))
      /\ Acc!Backed(Acc!ReverseSuspense(L, t))
  BY AccAssumptions, Acc!ConfirmKeepsBacked, Acc!RetryKeepsBacked, Acc!FailKeepsBacked DEF Kept
<1> QED BY <1>1, <1>2, <1>3, PreservedKept

-----------------------------------------------------------------------------
(* What a fold over legs makes of the books.                               *)

Kepts == {L \in Books!LedgerType : Kept(L)}

\* The member that FoldSet takes next.
AnyOf(S) == [s \in SUBSET S |-> CHOOSE m \in s : TRUE]

LEMMA AnyPicks == ASSUME NEW S PROVE Picks(AnyOf(S), S)
BY DEF Picks, AnyOf

LEMMA BookEntryKept ==
  ASSUME NEW L, Kept(L), NEW p \in Pids, NEW pos \in Position
  PROVE  Kept(BookEntry(L, pos, p))
<1> DEFINE S == Markets
           c == AnyOf(S)
           Buy(l, m) == Books!RecordBuyDedup(l, <<"entry", p, m>>, p, <<"market", m>>,
                                             pos.legs[m].bet,
                                             pos.fees \div Cardinality(Markets),
                                             pos.legs[m].shares)
           step == [x \in Kepts \X S |-> Buy(x[1], x[2])]
           E(K) == [s \in SUBSET S |-> IF s = {} THEN L
                      ELSE Buy(K[s \ {CHOOSE m \in s : TRUE}], CHOOSE m \in s : TRUE)]
           C == CHOOSE K : K = E(K)
<1>1. IsFiniteSet(S) /\ L \in Kepts /\ Picks(c, S)
  BY LiveAssumption, AnyPicks, KeptType DEF Kepts
<1>2. ASSUME NEW l \in Kepts, NEW m \in S PROVE Buy(l, m) \in Kepts
  <2>1. pos.legs[m].bet \in Nat /\ pos.legs[m].shares \in Nat /\ pos.fees \in Nat
    BY DEF Position, Leg
  <2>2. Cardinality(Markets) \in Nat /\ Cardinality(Markets) > 0
    BY <1>1, FS_CardinalityType, FS_EmptySet
  <2>3. pos.fees \div Cardinality(Markets) \in Nat
    BY <2>1, <2>2, AccAssumptions, Acc!Quotient
  <2>4. <<"entry", p, m>> \in EntryKeys /\ <<"market", m>> \in Assets
    BY DEF EntryKeys, Assets
  <2>5. Kept(Buy(l, m))
    BY <2>1, <2>3, <2>4, BuyKept DEF Kepts
  <2> HIDE DEF Buy
  <2> QED BY <2>5, KeptType DEF Kepts
<1>3. BookEntry(L, pos, p) = C[S]
  BY Zenon DEF BookEntry, FoldSet, MapThenFoldSet
<1> HIDE DEF Buy
<1>4. step \in [Kepts \X S -> Kepts]
  BY <1>2
<1>5. \A l \in Kepts, m \in S : step[<<l, m>>] = Buy(l, m)
  OBVIOUS
<1> HIDE DEF step
<1>6. PICK G \in [SUBSET S -> Kepts] : Folding(G, S, c, L, step)
  <2> HIDE DEF c, S
  <2> QED BY <1>1, <1>4, FoldExists
<1>7. ASSUME NEW s \in SUBSET S
      PROVE  G[s] = IF s = {} THEN L
                    ELSE Buy(G[s \ {CHOOSE m \in s : TRUE}], CHOOSE m \in s : TRUE)
  <2>1. CASE s = {}
    BY <1>6, <2>1 DEF Folding
  <2>2. CASE s # {}
    <3>1. c[s] = (CHOOSE m \in s : TRUE) /\ c[s] \in S /\ s \ {c[s]} \in SUBSET S
      BY <2>2 DEF AnyOf
    <3>2. G[s \ {c[s]}] \in Kepts
      BY <3>1
    <3> HIDE DEF c, S
    <3> QED BY <2>2, <1>6, <3>1, <3>2, <1>5 DEF Folding
  <2> QED BY <2>1, <2>2
<1>8. G = E(G)
  <2> HIDE DEF S, c
  <2> QED BY <1>7
<1>9. C = E(C)
  BY <1>8
<1> HIDE DEF C
<1>10. ASSUME NEW s \in SUBSET S, s = {} \/ C[s \ {c[s]}] = G[s \ {c[s]}]
       PROVE  C[s] = G[s]
  <2>1. c[s] = (CHOOSE m \in s : TRUE)
    BY DEF AnyOf
  <2>2. C[s] = IF s = {} THEN L
               ELSE Buy(C[s \ {CHOOSE m \in s : TRUE}], CHOOSE m \in s : TRUE)
    <3> HIDE DEF c, S
    <3> QED BY <1>9
  <2> HIDE DEF c, S
  <2> QED BY <1>7, <1>10, <2>1, <2>2
<1>11. C[S] = G[S]
  <2> HIDE DEF c, S
  <2>1. Alike(C, G, S, c)
    BY <1>10 DEF Alike
  <2> QED BY <1>1, <2>1, FoldAgree
<1>12. G[S] \in Kepts
  OBVIOUS
<1> QED BY <1>3, <1>11, <1>12 DEF Kepts

LEMMA BookAdjustmentsKept ==
  ASSUME NEW L, Kept(L), NEW P, NEW p \in Pids,
         \A m \in Markets : Delta(P, p, m) \in Int
  PROVE  Kept(BookAdjustments(L, P, p))
<1> DEFINE S == Differing(P, p)
           c == AnyOf(S)
           Adjust(l, m) ==
             Books!RecordReconciliationAdjustment(l, p, NoAsset, Delta(P, p, m), 0)
           step == [x \in Kepts \X S |-> Adjust(x[1], x[2])]
           E(K) == [s \in SUBSET S |-> IF s = {} THEN L
                      ELSE Adjust(K[s \ {CHOOSE m \in s : TRUE}], CHOOSE m \in s : TRUE)]
           C == CHOOSE K : K = E(K)
<1>1. IsFiniteSet(S) /\ L \in Kepts /\ Picks(c, S) /\ S \subseteq Markets
  <2>1. S \subseteq Markets
    BY DEF Differing
  <2> HIDE DEF S
  <2> QED BY <2>1, LiveAssumption, FS_Subset, AnyPicks, KeptType DEF Kepts
<1>2. ASSUME NEW l \in Kepts, NEW m \in S PROVE Adjust(l, m) \in Kepts
  <2>1. NoAsset \in Assets /\ Delta(P, p, m) \in Int
    BY <1>1 DEF Assets
  <2>2. Kept(Adjust(l, m))
    BY <2>1, AdjustmentKept DEF Kepts
  <2> HIDE DEF Adjust
  <2> QED BY <2>2, KeptType DEF Kepts
<1>3. BookAdjustments(L, P, p) = C[S]
  BY Zenon DEF BookAdjustments, FoldSet, MapThenFoldSet
<1> HIDE DEF Adjust
<1>4. step \in [Kepts \X S -> Kepts]
  BY <1>2
<1>5. \A l \in Kepts, m \in S : step[<<l, m>>] = Adjust(l, m)
  OBVIOUS
<1> HIDE DEF step
<1>6. PICK G \in [SUBSET S -> Kepts] : Folding(G, S, c, L, step)
  <2> HIDE DEF c, S
  <2> QED BY <1>1, <1>4, FoldExists
<1>7. ASSUME NEW s \in SUBSET S
      PROVE  G[s] = IF s = {} THEN L
                    ELSE Adjust(G[s \ {CHOOSE m \in s : TRUE}], CHOOSE m \in s : TRUE)
  <2>1. CASE s = {}
    BY <1>6, <2>1 DEF Folding
  <2>2. CASE s # {}
    <3>1. c[s] = (CHOOSE m \in s : TRUE) /\ c[s] \in S /\ s \ {c[s]} \in SUBSET S
      BY <2>2 DEF AnyOf
    <3>2. G[s \ {c[s]}] \in Kepts
      BY <3>1
    <3> HIDE DEF c, S
    <3> QED BY <2>2, <1>6, <3>1, <3>2, <1>5 DEF Folding
  <2> QED BY <2>1, <2>2
<1>8. G = E(G)
  <2> HIDE DEF S, c
  <2> QED BY <1>7
<1>9. C = E(C)
  BY <1>8
<1> HIDE DEF C
<1>10. ASSUME NEW s \in SUBSET S, s = {} \/ C[s \ {c[s]}] = G[s \ {c[s]}]
       PROVE  C[s] = G[s]
  <2>1. c[s] = (CHOOSE m \in s : TRUE)
    BY DEF AnyOf
  <2>2. C[s] = IF s = {} THEN L
               ELSE Adjust(C[s \ {CHOOSE m \in s : TRUE}], CHOOSE m \in s : TRUE)
    <3> HIDE DEF c, S
    <3> QED BY <1>9
  <2> HIDE DEF c, S
  <2> QED BY <1>7, <1>10, <2>1, <2>2
<1>11. C[S] = G[S]
  <2> HIDE DEF c, S
  <2>1. Alike(C, G, S, c)
    BY <1>10 DEF Alike
  <2> QED BY <1>1, <2>1, FoldAgree
<1>12. G[S] \in Kepts
  OBVIOUS
<1> QED BY <1>3, <1>11, <1>12 DEF Kepts

-----------------------------------------------------------------------------
(* The types of what the manager's operations return.                      *)

LEMMA ManagerType ==
  ASSUME NEW P \in Manager
  PROVE  /\ P.capital \in Nat /\ P.initial \in Nat /\ P.profit \in Int
         /\ P.expected \in Int /\ P.trades \in Nat /\ P.wins \in Nat
         /\ P.losses \in Nat /\ P.open \in [Pids -> Position \cup {NoPosition}]
         /\ P.closed \in Seq([pid: Pids, pos: Position])
BY DEF Manager

LEMMA OpenType ==
  ASSUME NEW P \in Manager, NEW p \in Pids, IsOpen(P, p)
  PROVE  P.open[p] \in Position
BY ManagerType DEF IsOpen

LEMMA PositionType ==
  ASSUME NEW pos \in Position
  PROVE  /\ pos.sell \in BOOLEAN /\ pos.legs \in [Markets -> Leg]
         /\ pos.capital \in Nat /\ pos.fees \in Nat /\ pos.expected \in Int
         /\ pos.payout \in Int /\ pos.profit \in Int
BY DEF Position

LEMMA LegType ==
  ASSUME NEW leg \in Leg
  PROVE  /\ leg.price \in Nat /\ leg.bet \in Nat /\ leg.shares \in Nat
         /\ leg.actual \in Nat /\ leg.fill \in FillStatus
BY DEF Leg

LEMMA FeeNat == ASSUME NEW x \in Nat PROVE Fee(x) \in Nat
<1>1. x * FeeNum \in Nat /\ FeeDen \in Nat /\ FeeDen > 0
  BY FeeAssumption
<1> QED BY <1>1, AccAssumptions, Acc!Quotient DEF Fee

LEMMA DivisionNat == ASSUME NEW x \in Nat, NEW y \in Nat, y > 0 PROVE x \div y \in Nat
BY AccAssumptions, Acc!Quotient

\* Putting a position, or none, in the place of p.
LEMMA PlacedType ==
  ASSUME NEW P \in Manager, NEW p \in Pids, NEW pos \in Position \cup {NoPosition}
  PROVE  [P EXCEPT !.open = [P.open EXCEPT ![p] = pos]] \in Manager
<1>1. [P.open EXCEPT ![p] = pos] \in [Pids -> Position \cup {NoPosition}]
  BY ManagerType
<1> QED BY <1>1 DEF Manager

LEMMA NewManagerType == NewManager(StartCapital) \in Manager
BY LiveAssumption DEF NewManager, Manager

LEMMA OrderCost == Cost(Order) \in Nat /\ Fee(Cost(Order)) \in Nat
<1>1. \A m \in Markets : Order.bet[m] \in Nat
  BY LiveAssumption
<1>2. Cost(Order) \in Nat
  BY <1>1, LiveAssumption, SumNat DEF Cost, Total
<1> QED BY <1>2, FeeNat

LEMMA OrderShares == ASSUME NEW m \in Markets PROVE BoughtShares(Order, m) \in Nat
<1>1. SidePrice(Order, m) \in Nat /\ Order.bet[m] \in Nat
  BY LiveAssumption DEF SidePrice
<1> QED BY <1>1, DivisionNat DEF BoughtShares

LEMMA EnteredType ==
  ASSUME NEW P \in Manager, NEW p \in Pids, CanEnter(P, Order), NEW accepted
  PROVE  LET Q == MarkLegs(EnterPosition(P, p, Order), p, accepted)
         IN Q \in Manager /\ Q.open[p] \in Position
<1> DEFINE bought == [m \in Markets |->
                        [price |-> Order.price[m], bet |-> Order.bet[m],
                         shares |-> BoughtShares(Order, m),
                         actual |-> 0, fill |-> "pending"]]
           pos == [sell |-> Order.sell, legs |-> bought, capital |-> Cost(Order),
                   fees |-> Fee(Cost(Order)), expected |-> Order.expected,
                   payout |-> 0, profit |-> 0]
           legs == [m \in Markets |->
                      [bought[m] EXCEPT !.actual = 0,
                         !.fill = IF m \in accepted THEN "pending" ELSE "rejected"]]
           marked == [pos EXCEPT !.legs = legs]
           left == P.capital - Required(Order)
           E == EnterPosition(P, p, Order)
           Q == MarkLegs(E, p, accepted)
<1>1. left \in Nat /\ P.expected + Order.expected \in Int /\ P.trades + 1 \in Nat
  BY OrderCost, ManagerType, LiveAssumption DEF CanEnter, Required
<1>2. bought \in [Markets -> Leg]
  BY OrderShares, LiveAssumption DEF Leg, FillStatus
<1>3. legs \in [Markets -> Leg]
  <2> HIDE DEF bought
  <2> QED BY <1>2 DEF Leg, FillStatus
<1>4. pos \in Position /\ pos.legs = bought
  <2>1. Order.sell \in BOOLEAN /\ Order.expected \in Int /\ 0 \in Int
    BY LiveAssumption
  <2> HIDE DEF bought
  <2> QED BY <1>2, <2>1, OrderCost DEF Position
<1>5. E = [P EXCEPT !.capital = left, !.trades = P.trades + 1,
                    !.expected = P.expected + Order.expected,
                    !.open = [P.open EXCEPT ![p] = pos]]
  BY DEF EnterPosition, Manager
<1> HIDE DEF bought, legs, left, E
<1>6. marked \in Position
  <2> HIDE DEF pos
  <2> QED BY <1>3, <1>4 DEF Position
<1> HIDE DEF pos
<1>7. E \in Manager /\ E.open[p] = pos
  <2>1. [P.open EXCEPT ![p] = pos] \in [Pids -> Position \cup {NoPosition}]
    BY <1>4, ManagerType
  <2>2. E.open = [P.open EXCEPT ![p] = pos]
    BY <1>5 DEF Manager
  <2> QED BY <1>1, <1>5, <2>1, <2>2, ManagerType DEF Manager
<1>8. Q = [E EXCEPT !.open = [E.open EXCEPT ![p] = marked]]
  BY <1>4, <1>7 DEF MarkLegs, legs, Manager
<1> HIDE DEF marked, Q
<1>9. Q \in Manager
  BY <1>6, <1>7, <1>8, PlacedType
<1>10. Q.open[p] = marked
  BY <1>7, <1>8, ManagerType DEF Manager
<1> QED BY <1>6, <1>9, <1>10 DEF Q, E

LEMMA RollbackType ==
  ASSUME NEW P \in Manager, NEW p \in Pids, P.open[p] \in Position
  PROVE  RolledBack(P, p) \in Manager
<1> DEFINE c == P.capital + Positive(P.open[p].capital)
           R == [P EXCEPT !.capital = c]
<1>1. c \in Nat
  BY ManagerType, PositionType DEF Positive
<1> HIDE DEF c
<1>2. R \in Manager /\ R.open = P.open
  BY <1>1 DEF Manager
<1>3. RolledBack(P, p) = [R EXCEPT !.open = [R.open EXCEPT ![p] = NoPosition]]
  BY <1>2 DEF RolledBack, RefundCapital, RemovePosition, Manager, c
<1> HIDE DEF R
<1> QED BY <1>2, <1>3, PlacedType

LEMMA AdjustType ==
  ASSUME NEW P \in Manager, NEW p \in Pids, IsOpen(P, p),
         \A m \in Markets : Wallet(m) \in Nat
  PROVE  AdjustShares(P, p) \in Manager /\ AdjustShares(P, p).open[p] \in Position
<1> DEFINE d == Differing(P, p)
           legs == [m \in Markets |->
                      IF m \in d THEN [P.open[p].legs[m] EXCEPT !.shares = Wallet(m)]
                      ELSE P.open[p].legs[m]]
           pos == [P.open[p] EXCEPT !.legs = legs]
           Q == AdjustShares(P, p)
<1>1. P.open[p] \in Position
  BY OpenType
<1>2. legs \in [Markets -> Leg]
  <2>1. ASSUME NEW m \in Markets
        PROVE  legs[m] \in Leg
    <3>1. P.open[p].legs[m] \in Leg /\ Wallet(m) \in Nat
      BY <1>1, PositionType
    <3>2. [P.open[p].legs[m] EXCEPT !.shares = Wallet(m)] \in Leg
      BY <3>1 DEF Leg
    <3> QED BY <3>1, <3>2
  <2> QED BY <2>1
<1>3. Q = [P EXCEPT !.open = [P.open EXCEPT ![p] = pos]]
  BY DEF AdjustShares, Manager
<1> HIDE DEF legs, Q
<1>4. pos \in Position
  BY <1>1, <1>2 DEF Position
<1> HIDE DEF pos
<1>5. Q \in Manager /\ Q.open[p] = pos
  BY <1>3, <1>4, PlacedType, ManagerType DEF Manager
<1> QED BY <1>4, <1>5 DEF Q

LEMMA PayoutType ==
  ASSUME NEW pos \in Position, NEW w \in Markets
  PROVE  ResolutionPayout(pos, w) \in Nat
<1>1. \A m \in Markets :
        /\ pos.legs[m].price \in Nat /\ pos.legs[m].bet \in Nat
        /\ pos.legs[m].shares \in Nat
  BY PositionType, LegType
<1>2. Unit \in Nat
  BY FeeAssumption
<1>3. CASE pos.sell
  <2> DEFINE g == [m \in Markets \ {w} |->
                     IF pos.legs[m].shares > 0 THEN pos.legs[m].shares * Unit
                     ELSE ComplementShares(pos.legs[m]) * Unit]
  <2>1. \A m \in Markets : ComplementShares(pos.legs[m]) \in Nat
    <3> TAKE m \in Markets
    <3>1. pos.legs[m].price < Unit => Unit - pos.legs[m].price \in Nat /\ Unit - pos.legs[m].price > 0
      BY <1>1, <1>2
    <3> QED BY <1>1, <3>1, DivisionNat DEF ComplementShares
  <2>2. \A m \in Markets \ {w} : g[m] \in Nat
    BY <1>1, <1>2, <2>1
  <2>3. IsFiniteSet(Markets \ {w})
    BY LiveAssumption, FS_Subset
  <2>4. ResolutionPayout(pos, w) = SumFunctionOnSet(g, Markets \ {w})
    BY <1>3 DEF ResolutionPayout, SumFunction
  <2> HIDE DEF g
  <2> QED BY <2>2, <2>3, <2>4, SumNat
<1>4. CASE ~pos.sell
  <2>1. YesShares(pos.legs[w]) \in Nat
    BY <1>1, DivisionNat DEF YesShares
  <2> QED BY <1>2, <1>4, <2>1 DEF ResolutionPayout
<1>5. pos.sell \in BOOLEAN
  BY PositionType
<1> QED BY <1>3, <1>4, <1>5

LEMMA PositionChanged ==
  ASSUME NEW pos \in Position, NEW x \in Int, NEW y \in Int
  PROVE  [pos EXCEPT !.payout = x, !.profit = y] \in Position
BY DEF Position

\* The position closed last is the one of the resolution.
LEMMA ResolutionType ==
  ASSUME NEW P \in Manager, NEW p \in Pids, IsOpen(P, p), NEW w \in Markets
  PROVE  LET Q == CloseOnResolution(P, p, w)
             last == Q.closed[Len(Q.closed)].pos
         IN Q \in Manager /\ last.payout \in Int /\ last.profit \in Int
<1> DEFINE pos == P.open[p]
           payout == ResolutionPayout(pos, w)
           profit == payout - (pos.capital + pos.fees)
           after == [pos EXCEPT !.payout = payout, !.profit = profit]
           Q == Close(P, p, after, payout, profit)
           c == [pid |-> p, pos |-> after]
           last == Q.closed[Len(Q.closed)].pos
<1>1. pos \in Position
  BY OpenType
<1>2. payout \in Nat /\ profit \in Int
  BY <1>1, PayoutType, PositionType
<1> HIDE DEF pos, payout, profit
<1>3. after \in Position /\ after.payout = payout /\ after.profit = profit
  <2>1. payout \in Int
    BY <1>2
  <2>2. after \in Position
    BY <1>1, <1>2, <2>1, PositionChanged
  <2>3. after.payout = payout /\ after.profit = profit
    BY <1>1 DEF Position
  <2> QED BY <2>2, <2>3
<1> HIDE DEF after
<1>4. Q = Acc!Close(P, p, after, payout, profit)
  BY DEF Close, Acc!Close, NoPosition, Acc!NoPosition
<1>5. Manager = Acc!Manager /\ Position = Acc!Position
  BY DEF Manager, Acc!Manager, Position, Acc!Position, Leg, Acc!Leg,
         FillStatus, Acc!FillStatus, NoPosition, Acc!NoPosition
<1> HIDE DEF Q
<1>6. Acc!ClosesTo(P, Q, p, after, payout, profit)
  BY <1>2, <1>3, <1>4, <1>5, AccAssumptions, Acc!ClosedManager
<1>7. Q \in Manager /\ Q.closed = Append(P.closed, c)
  BY <1>5, <1>6 DEF Acc!ClosesTo
<1>8. Q.closed[Len(Q.closed)] = c
  <2> DEFINE T == [pid: Pids, pos: Position]
  <2>1. P.closed \in Seq(T)
    BY ManagerType
  <2> HIDE DEF T, c
  <2> QED BY <1>7, <2>1
<1>9. last.payout \in Int /\ last.profit \in Int
  BY <1>2, <1>3, <1>8
<1> QED BY <1>7, <1>9 DEF Q, after, profit, payout, pos, CloseOnResolution

LEMMA CorrectionType ==
  ASSUME NEW P \in Manager, NEW x \in Int, NEW y \in Int
  PROVE  ReversePhantomPayout(P, x, y) \in Manager
<1> DEFINE c == Positive(P.capital + (-x))
           g == P.profit + (-y)
<1>1. c \in Nat /\ g \in Int
  BY ManagerType DEF Positive
<1>2. ReversePhantomPayout(P, x, y) = [P EXCEPT !.capital = c, !.profit = g]
  BY DEF ReversePhantomPayout, AdjustCapital, AdjustTotalProfit, Manager
<1> HIDE DEF c, g
<1> QED BY <1>1, <1>2 DEF Manager

LEMMA LegPlaced ==
  ASSUME NEW P \in Manager, NEW p \in Pids, IsOpen(P, p), NEW m \in Markets,
         NEW leg \in Leg
  PROVE  LET Q == [P EXCEPT !.open[p].legs[m] = leg]
         IN Q \in Manager /\ Q.open[p] \in Position /\ Q.open[p].legs[m] = leg
<1> DEFINE pos == P.open[p]
           legs == [pos.legs EXCEPT ![m] = leg]
           after == [pos EXCEPT !.legs = legs]
           Q == [P EXCEPT !.open[p].legs[m] = leg]
<1>1. pos \in Position /\ pos.legs \in [Markets -> Leg]
  BY OpenType, PositionType
<1>2. Q = [P EXCEPT !.open = [P.open EXCEPT ![p] = after]]
  OBVIOUS
<1> HIDE DEF pos, Q
<1>3. legs \in [Markets -> Leg] /\ legs[m] = leg
  BY <1>1
<1> HIDE DEF legs
<1>4. after \in Position /\ after.legs = legs
  BY <1>1, <1>3 DEF Position
<1> HIDE DEF after
<1>5. Q \in Manager
  BY <1>2, <1>4, PlacedType
<1>6. Q.open[p] = after
  BY <1>2, ManagerType DEF Manager
<1> QED BY <1>3, <1>4, <1>5, <1>6 DEF Q

LEMMA FillStatusType ==
  ASSUME NEW P \in Manager, NEW p \in Pids, NEW m \in Markets, NEW n \in Nat,
         NEW s \in FillStatus
  PROVE  UpdateLegFillStatus(P, p, m, n, s) \in Manager
<1>1. CASE ~IsOpen(P, p)
  BY <1>1 DEF UpdateLegFillStatus
<1>2. CASE IsOpen(P, p)
  <2> DEFINE leg == [P.open[p].legs[m] EXCEPT !.actual = n]
             Q == [P EXCEPT !.open[p].legs[m] = leg]
             told == [Q.open[p].legs[m] EXCEPT !.fill = s]
  <2>1. P.open[p].legs[m] \in Leg
    BY <1>2, OpenType, PositionType
  <2>2. UpdateLegFillStatus(P, p, m, n, s) = [Q EXCEPT !.open[p].legs[m] = told]
    BY <1>2 DEF UpdateLegFillStatus
  <2>3. leg \in Leg
    BY <2>1 DEF Leg
  <2> HIDE DEF leg
  <2>4. Q \in Manager /\ Q.open[p] \in Position /\ Q.open[p].legs[m] = leg
    BY <1>2, <2>3, LegPlaced
  <2> HIDE DEF Q
  <2>5. told \in Leg /\ IsOpen(Q, p)
    <3>1. told \in Leg
      BY <2>3, <2>4 DEF Leg
    <3>2. NoPosition \notin Position
      BY DEF NoPosition, Position
    <3> QED BY <2>4, <3>1, <3>2 DEF IsOpen
  <2> HIDE DEF told
  <2>6. [Q EXCEPT !.open[p].legs[m] = told] \in Manager
    BY <2>4, <2>5, LegPlaced
  <2> QED BY <2>2, <2>6
<1> QED BY <1>1, <1>2

LEMMA ImportType ==
  ASSUME NEW P \in Manager, IsFiniteSet(OpenPids(P))
  PROVE  ImportPositions(P) \in Manager /\ ImportPositions(P).open = P.open
<1>1. Manager = Acc!Manager
  BY DEF Manager, Acc!Manager, Position, Acc!Position, Leg, Acc!Leg,
         FillStatus, Acc!FillStatus, NoPosition, Acc!NoPosition
<1>2. OpenPids(P) = Acc!OpenPids(P)
  BY DEF OpenPids, Acc!OpenPids, IsOpen, Acc!IsOpen, NoPosition, Acc!NoPosition
<1>3. Acc!IsFiniteSet(OpenPids(P))
  BY DEF IsFiniteSet, Acc!IsFiniteSet
<1>4. ImportPositions(P) = Acc!ImportPositions(P)
  <2>1. \A S : Cardinality(S) = Acc!Cardinality(S)
    BY Zenon DEF Cardinality, Acc!Cardinality
  <2>2. \A f : SumFunction(f) = Acc!SumFunction(f)
    BY Zenon DEF SumFunction, Acc!SumFunction, SumFunctionOnSet, Acc!SumFunctionOnSet,
             FoldFunctionOnSet, Acc!FoldFunctionOnSet, MapThenFoldSet, Acc!MapThenFoldSet
  <2> QED BY <1>2, <2>1, <2>2, Zenon DEF ImportPositions, Acc!ImportPositions
<1> QED BY <1>1, <1>2, <1>3, <1>4, AccAssumptions, Acc!ImportedManager

-----------------------------------------------------------------------------
(* The books through every step.                                           *)

\* The positions that were entered, of which there are finitely many.
Entered(f) == {p \in Pids : f[p] # "unused"}

TypedInv ==
  /\ pm \in Manager /\ Kept(ledger)
  /\ saved \in [pm: Manager, ledger: Kepts]
  /\ winner \in Markets \cup {Nobody} /\ halted \in BOOLEAN
  /\ fate \in [Pids -> Fates] /\ IsFiniteSet(Entered(fate))
  /\ boots \in 1..MaxBoots

\* g is f but for one position.
LEMMA EnteredFinite ==
  ASSUME NEW f, NEW g, IsFiniteSet(Entered(f)), NEW p,
         \A q \in Pids : q # p => g[q] = f[q]
  PROVE  IsFiniteSet(Entered(g))
<1>1. Entered(g) \subseteq Entered(f) \cup {p}
  BY DEF Entered
<1> QED BY <1>1, FS_AddElement, FS_Subset

\* Finitely many trades have settled, of those orders that were sent.
LEMMA WalletNat ==
  ASSUME IInv, TypedInv, NEW m \in Markets
  PROVE  Wallet(m) \in Nat
<1> DEFINE S == {u \in Pids \X {m} : Settled(u)}
           f == [t \in S |-> venue[t].filled]
<1>1. S \subseteq Entered(fate) \X {m}
  BY DEF IInv, FateInv, Entered, Settled
<1>2. IsFiniteSet(S)
  <2>1. IsFiniteSet(Entered(fate)) /\ IsFiniteSet({m})
    BY FS_Singleton DEF TypedInv
  <2>2. IsFiniteSet(Entered(fate) \X {m})
    BY <2>1, FS_Product
  <2> HIDE DEF S
  <2> QED BY <1>1, <2>2, FS_Subset
<1>3. \A t \in S : f[t] \in Nat
  <2>1. \A t \in Trades : venue[t].filled \in Nat
    BY DEF IInv, OrdersInv, OrderRecord, NoOrder
  <2> QED BY <2>1 DEF Trades
<1>4. Wallet(m) = SumFunctionOnSet(f, S)
  BY DEF Wallet, SumFunction
<1> HIDE DEF f, S
<1> QED BY <1>2, <1>3, <1>4, SumNat

LEMMA ReconciledType ==
  ASSUME NEW P \in Manager, NEW L, Kept(L), NEW f \in [Pids -> Fates], NEW others,
         \A m \in Markets : Wallet(m) \in Nat, IsFiniteSet(Entered(f))
  PROVE  LET R == Reconciled(P, L, f, others)
         IN R.pm \in Manager /\ Kept(R.ledger) /\ R.fate \in [Pids -> Fates]
            /\ IsFiniteSet(Entered(R.fate))
<1> DEFINE ps == {p \in OpenPids(P) : Acted(P, p, others)}
           p == CHOOSE q \in ps : TRUE
           A == AdjustShares(P, p)
           B == BookAdjustments(L, P, p)
           R == Reconciled(P, L, f, others)
<1>1. CASE ps = {}
  <2>1. R.pm = P /\ R.ledger = L /\ R.fate = f
    BY <1>1 DEF Reconciled
  <2> QED BY <2>1
<1>2. CASE ps # {}
  <2>1. p \in Pids /\ IsOpen(P, p)
    BY <1>2 DEF OpenPids
  <2>2. \/ R.pm = A /\ R.ledger = B /\ R.fate = f
        \/ /\ R.pm = RolledBack(A, p) /\ R.ledger = Books!ReverseBuyByPosition(B, p)
           /\ R.fate = [f EXCEPT ![p] = "rolledback"]
    BY <1>2 DEF Reconciled
  <2> HIDE DEF ps, p
  <2>3. \A m \in Markets : Delta(P, p, m) \in Int
    BY <2>1, OpenType, PositionType, LegType DEF Delta
  <2>4. Kept(B) /\ Kept(Books!ReverseBuyByPosition(B, p))
    BY <2>1, <2>3, BookAdjustmentsKept, ReverseKept
  <2>5. A \in Manager /\ A.open[p] \in Position
    BY <2>1, AdjustType
  <2> HIDE DEF A, B, R
  <2>6. RolledBack(A, p) \in Manager
    BY <2>1, <2>5, RollbackType
  <2>7. [f EXCEPT ![p] = "rolledback"] \in [Pids -> Fates]
    BY DEF Fates
  <2>8. IsFiniteSet(Entered([f EXCEPT ![p] = "rolledback"]))
    BY EnteredFinite
  <2> QED BY <2>2, <2>4, <2>5, <2>6, <2>7, <2>8 DEF R
<1> QED BY <1>1, <1>2

LEMMA BookFillKept ==
  ASSUME NEW L, Kept(L), NEW t \in Trades, NEW s, NEW shares \in Nat
  PROVE  Kept(BookFill(L, t, s, shares))
<1> DEFINE capital == Order.price[t[2]] * shares
<1>1. t[1] \in Pids /\ t[2] \in Markets /\ <<"token", t[2]>> \in Assets
  BY DEF Trades, Assets
<1>2. Order.price[t[2]] \in Nat
  BY <1>1, LiveAssumption
<1>3. capital \in Nat
  BY <1>2
<1> HIDE DEF capital
<1>4. Fee(capital) \in Nat
  BY <1>3, FeeNat
<1>5. Kept(Books!EnterSuspense(L, t, t[1], <<"token", t[2]>>, shares, capital, Fee(capital)))
  BY <1>1, <1>3, <1>4, MatchKept
<1> QED BY <1>5, FinalityKept DEF BookFill, capital

LEMMA InitTyped == Init => TypedInv
<1> SUFFICES ASSUME Init PROVE TypedInv
  OBVIOUS
<1>1. pm \in Manager /\ Kept(ledger) /\ ledger \in Kepts
  BY NewManagerType, NewLedgerKept, KeptType DEF Init, Kepts
<1>2. saved \in [pm: Manager, ledger: Kepts]
  BY <1>1 DEF Init
<1>3. Entered(fate) = {}
  BY DEF Init, Entered
<1>4. fate \in [Pids -> Fates] /\ boots \in 1..MaxBoots
  BY LiveAssumption DEF Init, Fates
<1> QED BY <1>1, <1>2, <1>3, <1>4, FS_EmptySet DEF Init, TypedInv

LEMMA EnterTyped ==
  ASSUME TypedInv, NEW p \in Pids, Enter(p) PROVE TypedInv'
<1> PICK accepted \in SUBSET Markets :
      LET entered == MarkLegs(EnterPosition(pm, p, Order), p, accepted)
          booked  == BookEntry(ledger, entered.open[p], p)
      IN /\ pm' = IF accepted = {} THEN RolledBack(entered, p) ELSE entered
         /\ ledger' = IF accepted = {} THEN Books!ReverseBuyByPosition(booked, p)
                      ELSE booked
         /\ fate' = [fate EXCEPT ![p] = IF accepted = {} THEN "refused" ELSE "entered"]
         /\ halted' = (accepted \notin {{}, Markets})
  BY DEF Enter
<1> DEFINE entered == MarkLegs(EnterPosition(pm, p, Order), p, accepted)
           booked == BookEntry(ledger, entered.open[p], p)
<1>1. CanEnter(pm, Order) /\ UNCHANGED <<winner, saved, boots>>
  BY DEF Enter
<1>2. entered \in Manager /\ entered.open[p] \in Position
  BY <1>1, EnteredType DEF TypedInv
<1> HIDE DEF entered
<1>3. Kept(booked) /\ Kept(Books!ReverseBuyByPosition(booked, p))
  BY <1>2, BookEntryKept, ReverseKept DEF TypedInv
<1>4. RolledBack(entered, p) \in Manager
  BY <1>2, RollbackType
<1>5. pm' \in Manager /\ Kept(ledger')
  BY <1>2, <1>3, <1>4 DEF entered
<1>6. fate' \in [Pids -> Fates] /\ IsFiniteSet(Entered(fate'))
  BY EnteredFinite DEF TypedInv, Fates
<1>7. halted' \in BOOLEAN
  OBVIOUS
<1> QED BY <1>1, <1>5, <1>6, <1>7 DEF TypedInv

LEMMA DispatchTyped ==
  ASSUME IInv, TypedInv, NEW t \in Trades, Dispatch(t) PROVE TypedInv'
<1> DEFINE s == Head(channel[t])
           shares == IF s = "cancelled" THEN orders[t].filled ELSE venue[t].filled
<1>1. UNCHANGED <<winner, halted, saved, fate, boots>>
  BY DEF Dispatch
<1>2. \/ /\ ledger' = BookFill(ledger, t, s, shares)
         /\ pm' \in {pm, MarkFill(pm, t, s, shares)}
      \/ UNCHANGED <<ledger, pm>>
  BY DEF Dispatch
<1>3. shares \in Nat
  <2>1. orders[t] \in OrderRecord /\ venue[t] \in OrderRecord
    BY DEF IInv, OrdersInv
  <2>2. orders[t].filled \in Nat /\ venue[t].filled \in Nat
    BY <2>1 DEF OrderRecord, NoOrder
  <2> QED BY <2>2
<1>4. Kept(ledger) /\ pm \in Manager
  BY DEF TypedInv
<1> HIDE DEF s, shares
<1>5. Kept(BookFill(ledger, t, s, shares))
  BY <1>3, <1>4, BookFillKept
<1>6. MarkFill(pm, t, s, shares) \in Manager
  <2>1. t[1] \in Pids /\ t[2] \in Markets
    BY DEF Trades
  <2>2. 0 \in Nat /\ "accepted" \in FillStatus /\ "rejected" \in FillStatus
    BY DEF FillStatus
  <2>3. /\ UpdateLegFillStatus(pm, t[1], t[2], shares, "accepted") \in Manager
        /\ UpdateLegFillStatus(pm, t[1], t[2], 0, "rejected") \in Manager
    BY <1>3, <1>4, <2>1, <2>2, FillStatusType
  <2> QED BY <1>4, <2>3 DEF MarkFill
<1>7. Kept(ledger') /\ pm' \in Manager
  BY <1>2, <1>4, <1>5, <1>6
<1> QED BY <1>1, <1>7 DEF TypedInv

LEMMA ReconcileTyped ==
  ASSUME IInv, TypedInv, Reconcile PROVE TypedInv'
<1> PICK others \in BOOLEAN :
      /\ pm' = Reconciled(pm, ledger, fate, others).pm
      /\ ledger' = Reconciled(pm, ledger, fate, others).ledger
      /\ fate' = Reconciled(pm, ledger, fate, others).fate
  BY DEF Reconcile
<1>1. UNCHANGED <<winner, halted, saved, boots>>
  BY DEF Reconcile
<1>2. /\ pm' \in Manager /\ Kept(ledger') /\ fate' \in [Pids -> Fates]
      /\ IsFiniteSet(Entered(fate'))
  BY <1>1, WalletNat, ReconciledType DEF TypedInv
<1> QED BY <1>1, <1>2 DEF TypedInv

LEMMA ResolvedTyped ==
  ASSUME TypedInv, NEW p \in Pids, PollResolution(p) \/ FeedResolves(p)
  PROVE  TypedInv'
<1> DEFINE closed == CloseOnResolution(pm, p, winner)
           last == closed.closed[Len(closed.closed)].pos
<1>1. /\ winner # Nobody /\ IsOpen(pm, p)
      /\ UNCHANGED <<ledger, winner, halted, saved, boots>>
      /\ pm' \in {closed, ReversePhantomPayout(closed, last.payout, last.profit)}
      /\ \E s \in {"paid", "reversed", "fed"} : fate' = [fate EXCEPT ![p] = s]
  BY DEF PollResolution, FeedResolves
<1>2. closed \in Manager /\ last.payout \in Int /\ last.profit \in Int
  BY <1>1, ResolutionType DEF TypedInv
<1> HIDE DEF closed, last
<1>3. pm' \in Manager
  BY <1>1, <1>2, CorrectionType
<1>4. fate' \in [Pids -> Fates] /\ IsFiniteSet(Entered(fate'))
  BY <1>1, EnteredFinite DEF TypedInv, Fates
<1> QED BY <1>1, <1>3, <1>4 DEF TypedInv

LEMMA RestartTyped ==
  ASSUME IInv, TypedInv, Restart PROVE TypedInv'
<1> DEFINE P == ImportPositions(saved.pm)
<1> PICK others \in BOOLEAN :
      \/ /\ pm' = Reconciled(P, saved.ledger, fate, others).pm
         /\ ledger' = Reconciled(P, saved.ledger, fate, others).ledger
         /\ fate' = Reconciled(P, saved.ledger, fate, others).fate
      \/ pm' = P /\ ledger' = saved.ledger /\ fate' = fate
  BY Restarted
<1> DEFINE R == Reconciled(P, saved.ledger, fate, others)
<1>1. \/ pm' = R.pm /\ ledger' = R.ledger /\ fate' = R.fate
      \/ pm' = P /\ ledger' = saved.ledger /\ fate' = fate
  OBVIOUS
<1>2. /\ halted' = FALSE /\ UNCHANGED <<winner, saved>>
      /\ boots < MaxBoots /\ boots' = boots + 1
  BY DEF Restart
<1>3. saved.pm \in Manager /\ Kept(saved.ledger)
  BY DEF TypedInv, Kepts
<1>4. IsFiniteSet(OpenPids(saved.pm))
  <2>1. OpenPids(saved.pm) \subseteq Entered(fate)
    BY DEF IInv, FateInv, OpenPids, Entered
  <2> QED BY <2>1, FS_Subset DEF TypedInv
<1>5. P \in Manager
  BY <1>3, <1>4, ImportType
<1> HIDE DEF P
<1>6. /\ R.pm \in Manager /\ Kept(R.ledger) /\ R.fate \in [Pids -> Fates]
      /\ IsFiniteSet(Entered(R.fate))
  BY <1>3, <1>5, WalletNat, ReconciledType DEF TypedInv
<1> HIDE DEF R
<1>7. /\ pm' \in Manager /\ Kept(ledger') /\ fate' \in [Pids -> Fates]
      /\ IsFiniteSet(Entered(fate'))
  BY <1>1, <1>3, <1>5, <1>6 DEF TypedInv
<1>8. boots' \in 1..MaxBoots
  BY <1>2, LiveAssumption DEF TypedInv
<1> QED BY <1>2, <1>7, <1>8 DEF TypedInv

LEMMA NextTyped == ASSUME IInv, TypedInv, [Next]_vars PROVE TypedInv'
<1>1. ASSUME NEW t \in Trades, VenueStep(t) \/ Lose(t) PROVE TypedInv'
  BY <1>1 DEF VenueStep, Lose, TypedInv
<1>2. ASSUME NEW m \in Markets, Resolve(m) PROVE TypedInv'
  BY <1>2 DEF Resolve, TypedInv
<1>3. CASE Save
  <2>1. UNCHANGED <<pm, ledger, winner, halted, fate, boots>>
        /\ saved' = [pm |-> pm, ledger |-> ledger]
    BY <1>3 DEF Save
  <2>2. pm \in Manager /\ ledger \in Kepts
    BY KeptType DEF TypedInv, Kepts
  <2> QED BY <2>1, <2>2 DEF TypedInv
<1>4. CASE UNCHANGED vars
  BY <1>4 DEF vars, TypedInv
<1> QED
  BY <1>1, <1>2, <1>3, <1>4, EnterTyped, DispatchTyped, ReconcileTyped, ResolvedTyped,
     RestartTyped DEF Next

-----------------------------------------------------------------------------
\* The invariant of orders, their events, the books in memory and on disk,
\* and the fates of positions.
THEOREM LiveInvariant == Spec => []IInv
BY InitInv, NextStep, PTL DEF Spec

\* The shares a leg is said to have really got have settled in the wallet,
\* through lost events, reconciliations and restarts.
THEOREM ActualHolds == Spec => []ActualIsSettled
<1>1. IInv => ActualIsSettled
  BY DEF IInv, BooksInv, Shape, LegsShape, Backed, Actual, ActualIsSettled, OpenPids, Settled
<1> QED BY <1>1, LiveInvariant, PTL

\* A payout that the resolution poll lets stand was for a position of which
\* some leg has settled, unless it is marked exempt.
THEOREM PayoutHolds == Spec => []PayoutIsReal
<1>1. IInv => PayoutIsReal
  BY DEF IInv, FateInv
<1> QED BY <1>1, LiveInvariant, PTL

\* Manager and ledger, in memory and as saved, orders, events and fates keep
\* their types: capital, shares and what is booked of a position never fall
\* below zero, whatever is rolled back, reconciled or restored.
THEOREM LiveTyped == Spec => []TypeOK
<1>1. IInv /\ TypedInv => TypeOK
  <2> SUFFICES ASSUME IInv, TypedInv PROVE TypeOK
    OBVIOUS
  <2>1. ledger \in Books!LedgerType
    BY KeptType DEF TypedInv
  <2>2. saved \in [pm: Manager, ledger: Books!LedgerType]
    BY DEF TypedInv, Kepts
  <2> QED BY <2>1, <2>2 DEF IInv, OrdersInv, TypedInv, TypeOK
<1> QED BY <1>1, InitInv, NextStep, InitTyped, NextTyped, PTL DEF Spec

BooksKept == Kept(ledger) /\ Kept(saved.ledger)

\* What the ledger of accounting.rs promises alone it keeps here, where entries
\* are refused, fills lost, shares corrected and positions rolled back, and
\* what a restart loads keeps it too: debits equal credits, the running
\* balances cover the journal and the cash is the journal's, and the Suspense
\* account holds the money of the trades that are matched or retrying.
THEOREM LiveBooksKept == Spec => []BooksKept
<1>1. TypedInv => BooksKept
  BY DEF TypedInv, Kepts, BooksKept
<1> QED BY <1>1, InitInv, NextStep, InitTyped, NextTyped, PTL DEF Spec
=============================================================================
