------------------------------ MODULE LedgerOps ------------------------------
(***************************************************************************)
(* The operations of AccountingLedger (rust_engine/src/accounting.rs) as   *)
(* functions from a ledger to a ledger.  Every operation is called with    *)
(* the ledger's mutex held, so a call is one atomic change of the record.  *)
(*                                                                         *)
(* The journal is kept as the net debit balance of each account class      *)
(* (debits minus credits of the entries posted to it); what the code scans *)
(* the entries for, the Position and Fees debits of one position, is kept  *)
(* beside it.  Money is an integer number of ticks: the rounding of f64 is *)
(* not modelled.                                                           *)
(***************************************************************************)
EXTENDS Integers

CONSTANTS
  Positions,  \* position ids
  Assets,     \* asset (token) ids
  Trades,     \* trade ids of orders sent to the venue
  Keys        \* dedup keys of the buys and sells booked by the engine

\* The journal, as the balance of each account class (AccountType).
Journal ==
  [Cash: Int, Equity: Int, Position: Int, Suspense: Int, Fees: Int,
   RealizedPnL: Int]

Status == {"matched", "retrying", "confirmed", "failed"}
Pending == {"matched", "retrying"}

SuspenseEntry ==
  [status: Status, pid: Positions, asset: Assets,
   shares: Nat, capital: Nat, fees: Nat]

NoEntry == [status |-> "none"]

NoHolding == [shares |-> 0, cost |-> 0]

\* The entries one call posts: debits are positive, credits negative.
Post(j, cash, position, suspense, fees, pnl) ==
  [Cash        |-> j.Cash + cash,
   Equity      |-> j.Equity,
   Position    |-> j.Position + position,
   Suspense    |-> j.Suspense + suspense,
   Fees        |-> j.Fees + fees,
   RealizedPnL |-> j.RealizedPnL + pnl]

LedgerType ==
  [cash: Int, deployed: Int, fees: Int, pnl: Int,     \* running balances
   journal: Journal,
   booked: [Positions -> Nat],        \* debits posted to Position:pid
   feeBooked: [Positions -> Nat],     \* debits posted to Fees for pid
   holdings: [Assets -> [shares: Nat, cost: Int]],
   recorded: SUBSET (Keys \cup Trades),
   suspense: [Trades -> SuspenseEntry \cup {NoEntry}]]

NewLedger(opening) ==
  [cash |-> opening, deployed |-> 0, fees |-> 0, pnl |-> 0,
   journal |-> [Cash |-> opening, Equity |-> -opening, Position |-> 0,
                Suspense |-> 0, Fees |-> 0, RealizedPnL |-> 0],
   booked |-> [p \in Positions |-> 0],
   feeBooked |-> [p \in Positions |-> 0],
   holdings |-> [a \in Assets |-> NoHolding],
   recorded |-> {},
   suspense |-> [t \in Trades |-> NoEntry]]

ResetCashTo(L, cash) == [L EXCEPT !.cash = cash]

AtLeast0(x) == IF x < 0 THEN 0 ELSE x

RecordBuy(L, p, a, capital, fees, shares) ==
  [L EXCEPT
     !.journal = Post(@, -(capital + fees), capital, 0, fees, 0),
     !.booked[p]    = @ + capital,
     !.feeBooked[p] = @ + fees,
     !.cash     = @ - (capital + fees),
     !.deployed = @ + capital,
     !.fees     = @ + fees,
     !.holdings[a] = [shares |-> @.shares + shares, cost |-> @.cost + capital]]

\* A holding that is sold out is removed, whatever cost basis it still has.
HoldingAfterSale(h, cost, shares) ==
  IF h.shares <= shares THEN NoHolding
  ELSE [shares |-> h.shares - shares, cost |-> h.cost - cost]

RecordSell(L, p, a, proceeds, cost, fees, shares) ==
  [L EXCEPT
     !.journal = Post(@, proceeds - fees, -cost, 0, fees, -(proceeds - cost)),
     !.feeBooked[p] = @ + fees,
     !.cash     = @ + proceeds - fees,
     !.deployed = @ - cost,
     !.fees     = @ + fees,
     !.pnl      = @ + proceeds - cost,
     !.holdings[a] = HoldingAfterSale(@, cost, shares)]

\* The dedup guard of record_buy_dedup / record_sell_dedup: a recorded key
\* leaves the ledger as it is.
RecordBuyDedup(L, k, p, a, capital, fees, shares) ==
  IF k \in L.recorded THEN L
  ELSE RecordBuy([L EXCEPT !.recorded = @ \cup {k}], p, a, capital, fees, shares)

RecordSellDedup(L, k, p, a, proceeds, cost, fees, shares) ==
  IF k \in L.recorded THEN L
  ELSE RecordSell([L EXCEPT !.recorded = @ \cup {k}],
                  p, a, proceeds, cost, fees, shares)

\* Every Position and Fees debit ever posted for p is mirrored, the ones that
\* an earlier call already mirrored included; holdings are left alone.
ReverseBuyByPosition(L, p) ==
  LET capital == L.booked[p]
      fees    == L.feeBooked[p]
  IN [L EXCEPT
        !.journal = Post(@, capital + fees, -capital, 0, -fees, 0),
        !.cash     = @ + (capital + fees),
        !.deployed = AtLeast0(@ - capital),
        !.fees     = AtLeast0(@ - fees)]

\* Mutant: the debit without its credit.
MutReconcileUp(L, p, a, delta, price) ==
  [L EXCEPT !.journal = Post(@, 0, delta * price, 0, 0, 0),
            !.booked[p] = @ + delta * price,
            !.deployed  = @ + delta * price]

ReconcileUp(L, p, a, delta, price) ==
  [L EXCEPT
     !.journal = Post(@, -(delta * price), delta * price, 0, 0, 0),
     !.booked[p] = @ + delta * price,
     !.cash     = @ - delta * price,
     !.deployed = @ + delta * price,
     !.holdings[a] = [shares |-> @.shares + delta,
                      cost   |-> @.cost + delta * price]]

\* Mutant: the holding is not clamped.
MutReconcileDown(L, p, a, missing, price) ==
  LET value == missing * price
  IN [L EXCEPT
        !.journal = Post(@, value, -value, 0, 0, 0),
        !.cash     = @ + value,
        !.deployed = @ - (IF value < @ THEN value ELSE @),
        !.holdings[a].shares = @ - missing]

\* The synthetic sell: the journal gives up the whole value, the running
\* balance at most what it holds; the holding keeps its cost basis.
ReconcileDown(L, p, a, missing, price) ==
  LET value == missing * price
  IN [L EXCEPT
        !.journal = Post(@, value, -value, 0, 0, 0),
        !.cash     = @ + value,
        !.deployed = @ - (IF value < @ THEN value ELSE @),
        !.holdings[a].shares = AtLeast0(@ - missing)]

RecordReconciliationAdjustment(L, p, a, delta, price) ==
  CASE delta > 0 -> ReconcileUp(L, p, a, delta, price)
    [] delta < 0 -> ReconcileDown(L, p, a, -delta, price)
    [] OTHER     -> L

-----------------------------------------------------------------------------
\* Suspense: trades matched by the venue and not yet final on chain.

EnterSuspense(L, t, p, a, shares, capital, fees) ==
  IF L.suspense[t] # NoEntry THEN L
  ELSE [L EXCEPT
          !.journal = Post(@, -(capital + fees), 0, capital + fees, 0, 0),
          !.cash     = @ - (capital + fees),
          !.suspense[t] = [status |-> "matched", pid |-> p, asset |-> a,
                           shares |-> shares, capital |-> capital,
                           fees |-> fees],
          !.recorded = @ \cup {t}]

\* Mutant: the released capital never becomes deployed capital.
MutConfirmFromSuspense(L, t) ==
  LET e == L.suspense[t]
  IN IF e.status \notin Pending THEN L
     ELSE [L EXCEPT
             !.journal = Post(@, 0, e.capital, -(e.capital + e.fees), e.fees, 0),
             !.fees     = @ + e.fees,
             !.suspense[t].status = "confirmed"]

ConfirmFromSuspense(L, t) ==
  LET e == L.suspense[t]
  IN IF e.status \notin Pending THEN L
     ELSE [L EXCEPT
             !.journal = Post(@, 0, e.capital, -(e.capital + e.fees), e.fees, 0),
             !.booked[e.pid]    = @ + e.capital,
             !.feeBooked[e.pid] = @ + e.fees,
             !.deployed = @ + e.capital,
             !.fees     = @ + e.fees,
             !.holdings[e.asset] = [shares |-> @.shares + e.shares,
                                    cost   |-> @.cost + e.capital],
             !.suspense[t].status = "confirmed"]

MarkSuspenseRetrying(L, t) ==
  IF L.suspense[t].status # "matched" THEN L
  ELSE [L EXCEPT !.suspense[t].status = "retrying"]

\* Mutant: a trade already confirmed or reversed is reversed again.
MutReverseTwice(L, t) ==
  LET e == L.suspense[t]
  IN IF e = NoEntry THEN L
     ELSE [L EXCEPT
             !.journal = Post(@, e.capital + e.fees, 0, -(e.capital + e.fees), 0, 0),
             !.cash     = @ + (e.capital + e.fees),
             !.suspense[t].status = "failed"]

ReverseSuspense(L, t) ==
  LET e == L.suspense[t]
  IN IF e.status \notin Pending THEN L
     ELSE [L EXCEPT
             !.journal = Post(@, e.capital + e.fees, 0, -(e.capital + e.fees), 0, 0),
             !.cash     = @ + (e.capital + e.fees),
             !.suspense[t].status = "failed"]

-----------------------------------------------------------------------------
\* verify_balance: the debits of the journal equal its credits.
VerifyBalance(L) ==
  L.journal.Cash + L.journal.Equity + L.journal.Position
    + L.journal.Suspense + L.journal.Fees + L.journal.RealizedPnL = 0
=============================================================================
