------------------------------- MODULE Ledger -------------------------------
(***************************************************************************)
(* The accounting ledger as a component: the engine books entries, exits,  *)
(* rollbacks and reconciliation adjustments, and the user channel moves    *)
(* trades through suspense, in any order.  The callers are                 *)
(*   Engine::enter_position / apply_exit_fills / rollback_paper_entry /    *)
(*   apply_reconciliation_inner    (rust_engine/src/lib.rs)                *)
(*   process_fill_event            (rust_engine/src/executor.rs)           *)
(* A rollback removes its position before it reverses the buys, so each    *)
(* position is reversed at most once (variable reversed).                  *)
(***************************************************************************)
EXTENDS LedgerOps, Functions

CONSTANTS
  Openings,        \* opening cash a run may start with
  RestoredCash,    \* cash values reset_cash_to may be given at start-up
  Capitals,        \* capital, or cost basis, of one call
  Proceeds,        \* proceeds of one sell
  Fees,            \* fees of one call
  Shares,          \* shares of one call
  Prices,          \* venue prices of a reconciliation adjustment
  MaxAdjustments   \* bound: reconciliation adjustments in a run

ASSUME AmountsAssumption ==
  /\ Openings \subseteq Nat /\ RestoredCash \subseteq Int
  /\ Capitals \subseteq Nat /\ Proceeds \subseteq Nat /\ Fees \subseteq Nat
  /\ Shares \subseteq Nat   /\ Prices \subseteq Nat
  /\ MaxAdjustments \in Nat

VARIABLES
  ledger,       \* the AccountingLedger
  reversed,     \* positions whose buys were reversed
  adjustments   \* number of reconciliation adjustments so far

vars == <<ledger, reversed, adjustments>>

\* A fresh ledger, or a fresh one whose cash was reset from the position
\* manager because the checkpoint could not be read (load_state).
Init ==
  /\ ledger \in {NewLedger(o) : o \in Openings}
       \cup {ResetCashTo(NewLedger(o), c) : o \in Openings, c \in RestoredCash}
  /\ reversed = {}
  /\ adjustments = 0

\* The positions the engine still holds or sends orders for: the ones the
\* ledger booked, and any position when the ledger was reset at start-up and
\* knows nothing of the restored ones.
Known(p) == ledger.booked[p] > 0 \/ ledger.cash # ledger.journal.Cash

Buy(k, p, a) ==
  /\ p \notin reversed
  /\ \E capital \in Capitals, fees \in Fees, shares \in Shares :
       ledger' = RecordBuyDedup(ledger, k, p, a, capital, fees, shares)
  /\ UNCHANGED <<reversed, adjustments>>

Sell(k, p, a) ==
  /\ Known(p) /\ p \notin reversed
  /\ \E proceeds \in Proceeds, cost \in Capitals, fees \in Fees, shares \in Shares :
       ledger' = RecordSellDedup(ledger, k, p, a, proceeds, cost, fees, shares)
  /\ UNCHANGED <<reversed, adjustments>>

Rollback(p) ==
  /\ Known(p) /\ p \notin reversed
  /\ ledger' = ReverseBuyByPosition(ledger, p)
  /\ reversed' = reversed \cup {p}
  /\ UNCHANGED adjustments

Reconcile(p, a) ==
  /\ Known(p) /\ p \notin reversed
  /\ adjustments < MaxAdjustments
  /\ \E shares \in Shares, price \in Prices, sign \in {1, -1} :
       ledger' = RecordReconciliationAdjustment(ledger, p, a, sign * shares, price)
  /\ adjustments' = adjustments + 1
  /\ UNCHANGED reversed

\* A fill may be reported after its position was rolled back.
Match(t, p, a) ==
  /\ Known(p)
  /\ \E capital \in Capitals, fees \in Fees, shares \in Shares :
       ledger' = EnterSuspense(ledger, t, p, a, shares, capital, fees)
  /\ UNCHANGED <<reversed, adjustments>>

Confirm(t) ==
  /\ ledger' = ConfirmFromSuspense(ledger, t)
  /\ UNCHANGED <<reversed, adjustments>>

Retry(t) ==
  /\ ledger' = MarkSuspenseRetrying(ledger, t)
  /\ UNCHANGED <<reversed, adjustments>>

Fail(t) ==
  /\ ledger' = ReverseSuspense(ledger, t)
  /\ UNCHANGED <<reversed, adjustments>>

Next ==
  \/ \E k \in Keys, p \in Positions, a \in Assets : Buy(k, p, a)
  \/ \E k \in Keys, p \in Positions, a \in Assets : Sell(k, p, a)
  \/ \E p \in Positions : Rollback(p)
  \/ \E p \in Positions, a \in Assets : Reconcile(p, a)
  \/ \E t \in Trades, p \in Positions, a \in Assets : Match(t, p, a)
  \/ \E t \in Trades : Confirm(t)
  \/ \E t \in Trades : Retry(t)
  \/ \E t \in Trades : Fail(t)

Spec == Init /\ [][Next]_vars

-----------------------------------------------------------------------------
TypeOK ==
  /\ ledger \in LedgerType
  /\ reversed \subseteq Positions
  /\ adjustments \in 0..MaxAdjustments

\* Whatever the order of buys, sells, rollbacks, adjustments and suspense
\* moves, the journal's debits equal its credits (verify_balance,
\* accounting.rs), and realized_pnl is what the
\* RealizedPnL account holds.
Balanced(L) == VerifyBalance(L) /\ L.pnl + L.journal.RealizedPnL = 0
BooksBalance == Balanced(ledger)

\* No operation moves the running cash balance by anything else than what it
\* posts to the Cash account ("running balances (derived from journal
\* entries, kept in sync)", accounting.rs), also when cash was reset.
CashInStep(L, M) == M.cash - L.cash = M.journal.Cash - L.journal.Cash
CashFollowsJournal == [][CashInStep(ledger, ledger')]_vars

\* The clamps of reverse_buy_by_position and of the synthetic sell may leave
\* the running deployed capital and fees above the journal's, never below:
\* the book value (total_value) is not understated by them.
Covers(L) == /\ L.deployed >= L.journal.Position
             /\ L.fees >= L.journal.Fees
RunningCoversJournal == Covers(ledger)

\* The Suspense account holds exactly the capital and fees of the trades that
\* are matched or retrying: no trade is released twice, none is forgotten
\* (suspense_total, accounting.rs).
PendingTrades(L) == {t \in Trades : L.suspense[t].status \in Pending}
SuspenseTotal(L) ==
  SumFunction([t \in PendingTrades(L) |-> L.suspense[t].capital + L.suspense[t].fees])
SuspenseBacked == ledger.journal.Suspense = SuspenseTotal(ledger)
=============================================================================
