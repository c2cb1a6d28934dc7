-------------------------- MODULE PositionManager --------------------------
(***************************************************************************)
(* The position manager against the account it trades for.  wallet and     *)
(* held are that account: the cash and the shares that orders really moved.*)
(* The code has no such variables; the manager's current_capital and       *)
(* leg.shares are its estimate of them.                                    *)
(*                                                                         *)
(* live: positions are left by FAK sells whose fills come in parts         *)
(* (apply_exit_fills).  Otherwise the bot runs in the shadow mode, where   *)
(* the whole position is sold at the bid (liquidate_position).  Every      *)
(* entry is filled; entries that are not are the subject of LiveTrading.   *)
(***************************************************************************)
EXTENDS PositionOps

CONSTANTS
  Modes,         \* the values live may have
  StartCapital,
  Orders,        \* the entries an opportunity may ask for
  Bids,          \* prices at which exits fill, per market
  PaperBids,     \* bids at which the shadow mode sells, per market
  Replacements,  \* profits of opportunities that may replace a position
  MaxShares,     \* bound: shares of one leg
  Nobody         \* the market has not resolved

ASSUME ManagerAssumption ==
  /\ IsFiniteSet(Markets)
  /\ FeeNum <= FeeDen                 \* the fee is a part of the amount
  /\ Modes \subseteq BOOLEAN
  /\ StartCapital \in Nat
  /\ Bids \cup PaperBids \subseteq [Markets -> Nat]
  /\ Replacements \subseteq Int

\* Every leg has a price, and the money for it buys whole shares: the code
\* divides in f64, so what a truncated division loses is not the code's.
BuysWhole(o) ==
  /\ o.sell \in BOOLEAN /\ o.expected \in Int
  /\ o.price \in [Markets -> Nat] /\ o.noPrice \in [Markets -> Nat]
  /\ o.bet \in [Markets -> Nat]
  /\ \A m \in Markets :
       SidePrice(o, m) > 0 /\ \E n \in 0..o.bet[m] : o.bet[m] = n * SidePrice(o, m)

ASSUME OrdersAssumption == \A o \in Orders : BuysWhole(o)

VARIABLES
  live,     \* exits are real fills, or on paper (shadow_only)
  pm,       \* the PositionManager
  wallet,   \* cash of the account
  held,     \* shares in the account, per position and market
  winner    \* the market that won, once the constraint resolved

managerVars == <<live, pm, wallet, held, winner>>

Nothing == [m \in Markets |-> 0]

ManagerInit ==
  /\ live \in Modes
  /\ pm = NewManager(StartCapital)
  /\ wallet = StartCapital
  /\ held = [pid \in Pids |-> Nothing]
  /\ winner = Nobody

Fresh(pid) == /\ ~IsOpen(pm, pid)
              /\ \A i \in DOMAIN pm.closed : pm.closed[i].pid # pid

Enter(pid) ==
  /\ Fresh(pid) /\ winner = Nobody
  /\ \E o \in Orders :
       /\ CanEnter(pm, o)
       /\ pm' = EnterPosition(pm, pid, o)
       /\ wallet' = wallet - Required(o)
       /\ held' = [held EXCEPT ![pid] = [m \in Markets |-> BoughtShares(o, m)]]
  /\ UNCHANGED <<live, winner>>

\* The venue settles the constraint.
Settle ==
  /\ winner = Nobody
  /\ winner' \in Markets
  /\ UNCHANGED <<live, pm, wallet, held>>

\* What the account gets for the shares of pid when w wins.
Redeemed(pid, w) ==
  IF pm.open[pid].sell
  THEN SumFunction([m \in Markets \ {w} |-> held[pid][m] * Unit])
  ELSE held[pid][w] * Unit

CloseResolved(pid) ==
  /\ IsOpen(pm, pid) /\ winner # Nobody
  /\ pm' = CloseOnResolution(pm, pid, winner)
  /\ wallet' = wallet + Redeemed(pid, winner)
  /\ held' = [held EXCEPT ![pid] = Nothing]
  /\ UNCHANGED <<live, winner>>

\* The FAK sells of an exit fill any part of each leg at the bid.
ExitFills(pid) ==
  /\ live /\ IsOpen(pm, pid) /\ winner = Nobody
  /\ \E sold \in [Markets -> 0..MaxShares], bid \in Bids :
       LET fills == [m \in Markets |-> [shares |-> sold[m], price |-> bid[m]]]
       IN /\ \A m \in Markets : sold[m] <= held[pid][m]
          /\ sold # Nothing
          /\ pm' = ApplyExitFills(pm, pid, fills)
          /\ wallet' = wallet + ExitProceeds(pm.open[pid], fills)
          /\ held' = [held EXCEPT ![pid] = [m \in Markets |-> @[m] - sold[m]]]
  /\ UNCHANGED <<live, winner>>

\* On paper the shares held are sold at the bid, for a better opportunity or
\* because the sale pays 6/5 of the payout expected at resolution.
Liquidate(pid) ==
  /\ ~live /\ IsOpen(pm, pid) /\ winner = Nobody
  /\ \E bid \in PaperBids :
       LET gross == Total([m \in Markets |-> held[pid][m] * bid[m]])
       IN /\ \/ ProactiveExit(pm.open[pid], bid, 6, 5)
             \/ \E profit \in Replacements : WorthReplacing(pm.open[pid], bid, profit)
          /\ pm' = LiquidatePosition(pm, pid, bid)
          /\ wallet' = wallet + gross - Fee(gross)
  /\ held' = [held EXCEPT ![pid] = Nothing]
  /\ UNCHANGED <<live, winner>>

\* A restart imports the positions and the capital that were saved.
Restart ==
  /\ pm' = ImportPositions(pm)
  /\ UNCHANGED <<live, wallet, held, winner>>

ManagerNext ==
  \/ \E pid \in Pids : Enter(pid)
  \/ \E pid \in Pids : CloseResolved(pid)
  \/ \E pid \in Pids : ExitFills(pid)
  \/ \E pid \in Pids : Liquidate(pid)
  \/ Settle
  \/ Restart

ManagerSpec == ManagerInit /\ [][ManagerNext]_managerVars

-----------------------------------------------------------------------------
\* Whichever market wins, close_on_resolution credits what the shares in the
\* account redeem for, also after legs were sold in part and unevenly: the
\* payout is computed from bets and entry prices, not from what is held.
PayoutIsRedeemable ==
  \A pid \in OpenPids(pm), w \in Markets :
    ResolutionPayout(pm.open[pid], w) = Redeemed(pid, w)

\* In the shadow mode, where no position is left by exit fills, capital and
\* the money tied up in open positions, fees included, are the initial capital
\* and the profit booked so far: no entry, resolution, liquidation or restart
\* loses a tick.
Stake(pid) == pm.open[pid].capital + pm.open[pid].fees
BooksClose ==
  ~live =>
    pm.capital + SumFunction([pid \in OpenPids(pm) |-> Stake(pid)])
      = pm.initial + pm.profit

\* The exit that closes a position already sold in part.
SoldInPart(pid) == IsOpen(pm, pid) /\ pm.open[pid].payout > 0
ClosesPartlySold ==
  \E pid \in Pids : SoldInPart(pid) /\ ~IsOpen(pm, pid)' /\ winner = Nobody

\* A sale on paper of NO shares that did not cost what YES leaves of Unit: they
\* are counted as if they had.
PaidSpread(pos) ==
  /\ pos.sell
  /\ \E m \in Markets : pos.legs[m].bet # pos.legs[m].shares * (Unit - pos.legs[m].price)
SellsSpread ==
  /\ ~live /\ winner = Nobody
  /\ \E pid \in Pids : IsOpen(pm, pid) /\ ~IsOpen(pm, pid)' /\ PaidSpread(pm.open[pid])

\* Every other step moves the manager's capital as it moves the cash of the
\* account, so but for those two the capital is the cash.
CashMovesTogether ==
  [][~ClosesPartlySold /\ ~SellsSpread
       => pm'.capital - pm.capital = wallet' - wallet]_managerVars
=============================================================================
