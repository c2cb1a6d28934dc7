---------------------------- MODULE PositionOps ----------------------------
(***************************************************************************)
(* The operations of PositionManager (rust_engine/src/position.rs) as      *)
(* functions from one manager record to the next.  Every operation is      *)
(* called with the manager's mutex held, so a call is one atomic change.   *)
(*                                                                         *)
(* Money and prices are integer ticks; a share of a winning token pays     *)
(* Unit.  Divisions truncate; instances use amounts that divide, except    *)
(* where a comment says otherwise.  The taker fee is FeeNum/FeeDen of an   *)
(* amount.  A leg of an arbitrage is a market; a position buys YES on each *)
(* of its markets, or NO on each (a "sell" arbitrage).                     *)
(***************************************************************************)
EXTENDS Integers, Sequences, FiniteSetsExt, Functions

CONSTANTS
  Pids,      \* position ids
  Markets,   \* the markets of one constraint
  Unit,      \* what one winning share pays
  FeeNum, FeeDen

ASSUME FeeAssumption == Unit \in Nat /\ FeeNum \in Nat /\ FeeDen \in Nat \ {0}

\* The fee on a non-negative amount.
Fee(x) == (x * FeeNum) \div FeeDen

FillStatus == {"pending", "accepted", "rejected"}

Leg == [price: Nat, bet: Nat, shares: Nat, actual: Nat, fill: FillStatus]

Position ==
  [sell: BOOLEAN, legs: [Markets -> Leg],
   capital: Nat,     \* total_capital: the cost still in the position
   fees: Nat,        \* fees_paid
   expected: Int,    \* expected_profit
   payout: Int,      \* actual_payout
   profit: Int]      \* actual_profit

NoPosition == [sell |-> FALSE]

Manager ==
  [capital: Nat, initial: Nat, profit: Int, expected: Int, trades: Nat,
   wins: Nat, losses: Nat,
   open: [Pids -> Position \cup {NoPosition}],
   closed: Seq([pid: Pids, pos: Position])]

NewManager(capital) ==
  [capital |-> capital, initial |-> capital, profit |-> 0, expected |-> 0,
   trades |-> 0, wins |-> 0, losses |-> 0,
   open |-> [p \in Pids |-> NoPosition], closed |-> <<>>]

IsOpen(pm, pid) == pm.open[pid] # NoPosition
OpenPids(pm) == {pid \in Pids : IsOpen(pm, pid)}

Total(f) == SumFunctionOnSet(f, Markets)
Positive(x) == IF x > 0 THEN x ELSE 0

-----------------------------------------------------------------------------
\* An order to enter: o.price and o.noPrice are the prices of YES and NO per
\* market, o.bet the money for each leg.

Cost(o) == Total(o.bet)
Required(o) == Cost(o) + Fee(Cost(o))

\* Shares are bought at the price of the side taken.
SidePrice(o, m) == IF o.sell THEN o.noPrice[m] ELSE o.price[m]
BoughtShares(o, m) ==
  IF SidePrice(o, m) > 0 THEN o.bet[m] \div SidePrice(o, m) ELSE 0

CanEnter(pm, o) == pm.capital >= Required(o)

EnterPosition(pm, pid, o) ==
  [pm EXCEPT
     !.capital  = @ - Required(o),
     !.trades   = @ + 1,
     !.expected = @ + o.expected,
     !.open[pid] =
        [sell |-> o.sell,
         legs |-> [m \in Markets |->
                     [price |-> o.price[m], bet |-> o.bet[m],
                      shares |-> BoughtShares(o, m),
                      actual |-> 0, fill |-> "pending"]],
         capital |-> Cost(o), fees |-> Fee(Cost(o)),
         expected |-> o.expected, payout |-> 0, profit |-> 0]]

\* Moves pid to closed_positions with its final payout and profit; credit and
\* gain are what capital and total_actual_profit get.
Close(pm, pid, pos, credit, gain) ==
  [pm EXCEPT
     !.capital   = @ + credit,
     !.profit    = @ + gain,
     !.wins      = @ + (IF gain > 0 THEN 1 ELSE 0),
     !.losses    = @ + (IF gain < 0 THEN 1 ELSE 0),
     !.open[pid] = NoPosition,
     !.closed    = Append(@, [pid |-> pid, pos |-> pos])]

\* A NO leg without shares falls back to the complement of the YES price.
ComplementShares(leg) ==
  IF leg.price < Unit THEN leg.bet \div (Unit - leg.price) ELSE 0
YesShares(leg) == IF leg.price > 0 THEN leg.bet \div leg.price ELSE 0

\* Mutant: the NO of the winner pays too.
MutResolutionPayout(pos, winner) ==
  IF pos.sell
  THEN Total([m \in Markets |-> pos.legs[m].shares * Unit])
  ELSE YesShares(pos.legs[winner]) * Unit

\* What a resolution pays: every NO but the winner's, or the winner's YES.
ResolutionPayout(pos, winner) ==
  IF pos.sell
  THEN SumFunction([m \in Markets \ {winner} |->
                      IF pos.legs[m].shares > 0
                      THEN pos.legs[m].shares * Unit
                      ELSE ComplementShares(pos.legs[m]) * Unit])
  ELSE YesShares(pos.legs[winner]) * Unit

CloseOnResolution(pm, pid, winner) ==
  LET pos    == pm.open[pid]
      payout == ResolutionPayout(pos, winner)
      profit == payout - (pos.capital + pos.fees)
  IN Close(pm, pid, [pos EXCEPT !.payout = payout, !.profit = profit],
           payout, profit)

-----------------------------------------------------------------------------
\* Liquidation: the value is computed from the bets, not from leg.shares.

EstimatedShares(pos, m) ==
  IF pos.sell THEN ComplementShares(pos.legs[m]) ELSE YesShares(pos.legs[m])

SaleProceeds(pos, bids) == Total([m \in Markets |-> EstimatedShares(pos, m) * bids[m]])
NetProceeds(pos, bids) == SaleProceeds(pos, bids) - Fee(SaleProceeds(pos, bids))
\* Mutant: the fees paid so far are left out.
MutLiquidationProfit(pos, bids) == NetProceeds(pos, bids) - pos.capital
LiquidationProfit(pos, bids) == NetProceeds(pos, bids) - (pos.capital + pos.fees)

\* evaluate_replacement: giving up pos for an opportunity of that profit pays.
WorthReplacing(pos, bids, profit) == profit + LiquidationProfit(pos, bids) > 0

\* check_proactive_exits: the sale pays at least num/den of the payout that is
\* expected at resolution.
ProactiveExit(pos, bids, num, den) ==
  LET resolution == pos.capital + pos.expected
  IN resolution > 0 /\ NetProceeds(pos, bids) * den >= num * resolution

LiquidatePosition(pm, pid, bids) ==
  LET pos == pm.open[pid]
      net == NetProceeds(pos, bids)
      profit == LiquidationProfit(pos, bids)
  IN Close(pm, pid, [pos EXCEPT !.payout = net, !.profit = profit], net, profit)

-----------------------------------------------------------------------------
\* Exit fills: fills[m] = [shares, price] is what was sold of leg m.

Cleared(leg, fill) == IF fill.shares < leg.shares THEN fill.shares ELSE leg.shares
CostCleared(leg, fill) ==
  IF leg.shares > 0 THEN (leg.bet * Cleared(leg, fill)) \div leg.shares ELSE 0
Gross(leg, fill) == Cleared(leg, fill) * fill.price

LegAfterExit(leg, fill) ==
  [leg EXCEPT !.shares = @ - Cleared(leg, fill),
              !.bet    = Positive(@ - CostCleared(leg, fill))]

ExitFees(pos, fills) ==
  Total([m \in Markets |-> Fee(Gross(pos.legs[m], fills[m]))])
ExitProceeds(pos, fills) ==
  Total([m \in Markets |-> Gross(pos.legs[m], fills[m])]) - ExitFees(pos, fills)
ExitCost(pos, fills) ==
  Total([m \in Markets |-> CostCleared(pos.legs[m], fills[m])])

PositionAfterExit(pos, fills) ==
  LET gain == ExitProceeds(pos, fills) - ExitCost(pos, fills)
  IN [pos EXCEPT
        !.legs    = [m \in Markets |-> LegAfterExit(@[m], fills[m])],
        !.payout  = @ + ExitProceeds(pos, fills),
        !.profit  = @ + gain,
        !.fees    = @ + ExitFees(pos, fills),
        !.capital = Positive(@ - ExitCost(pos, fills))]

SoldOut(pos) == \A m \in Markets : pos.legs[m].shares = 0

\* Mutant: the proceeds of a partial exit are not credited.
MutApplyExitFills(pm, pid, fills) ==
  LET before == pm.open[pid]
      after  == PositionAfterExit(before, fills)
  IN IF SoldOut(after)
     THEN Close(pm, pid, after, after.payout, after.profit)
     ELSE [pm EXCEPT !.open[pid] = after]

\* The fill that closes the position credits the position's whole payout, what
\* earlier partial fills already credited included.
ApplyExitFills(pm, pid, fills) ==
  LET before == pm.open[pid]
      after  == PositionAfterExit(before, fills)
  IN IF SoldOut(after)
     THEN Close(pm, pid, after, after.payout, after.profit)
     ELSE [pm EXCEPT
             !.capital   = @ + ExitProceeds(before, fills),
             !.profit    = @ + ExitProceeds(before, fills) - ExitCost(before, fills),
             !.open[pid] = after]

-----------------------------------------------------------------------------
\* Corrections from outside.

RefundCapital(pm, amount) ==
  [pm EXCEPT !.capital = @ + Positive(amount)]

AdjustCapital(pm, delta) ==
  [pm EXCEPT !.capital = Positive(@ + delta)]

AdjustTotalProfit(pm, delta) == [pm EXCEPT !.profit = @ + delta]

RemovePosition(pm, pid) == [pm EXCEPT !.open[pid] = NoPosition]

UpdateLegFillStatus(pm, pid, m, shares, fill) ==
  IF ~IsOpen(pm, pid) THEN pm
  ELSE [pm EXCEPT !.open[pid].legs[m].actual = shares,
                  !.open[pid].legs[m].fill   = fill]

\* import_positions_json: what a restart restores, statistics recomputed from
\* the stored positions.
ImportPositions(pm) ==
  LET profits == [i \in DOMAIN pm.closed |-> pm.closed[i].pos.profit]
  IN [pm EXCEPT
        !.trades   = Cardinality(OpenPids(pm)) + Len(pm.closed),
        !.profit   = SumFunction(profits),
        !.wins     = Cardinality({i \in DOMAIN profits : profits[i] > 0}),
        !.losses   = Cardinality({i \in DOMAIN profits : profits[i] < 0}),
        !.expected =
           SumFunction([i \in DOMAIN pm.closed |-> pm.closed[i].pos.expected])
             + SumFunction([pid \in OpenPids(pm) |-> pm.open[pid].expected])]
=============================================================================
