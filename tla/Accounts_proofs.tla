--------------------------- MODULE Accounts_proofs ---------------------------
(***************************************************************************)
(* Proofs about the two keepers of money, Ledger and PositionManager.      *)
(*                                                                         *)
(* Ledger, for any sets of positions, assets, trades, keys and amounts:    *)
(* TypeOK, BooksBalance and RunningCoversJournal are inductive together;   *)
(* each operation of LedgerOps has two lemmas: it returns a well-typed     *)
(* ledger, and it keeps a balanced, covered ledger so while it moves the   *)
(* running cash with the journal's.  Suspense is a sum over the pending    *)
(* trades, of which each operation adds, drops or keeps one.               *)
(*                                                                         *)
(* PositionManager, for any positions, markets, orders, bids and fee: the  *)
(* bet of each leg stays its shares at one price (Whole), the shares are   *)
(* those of the account (Follows), and on paper capital, open stakes and   *)
(* booked profit balance (Paper).                                          *)
(***************************************************************************)
EXTENDS Ledger, PositionManager, FoldTheorems

\* What every operation preserves.
Sound(L) == L \in LedgerType /\ Balanced(L) /\ Covers(L)

\* What an operation that turns a sound ledger L into M keeps.
Keeps(L, M) == Balanced(M) /\ Covers(M) /\ CashInStep(L, M)

\* What is to be shown of an operation.
Preserves(L, M) == Sound(L) => Sound(M) /\ CashInStep(L, M)

LEMMA ProductOfNats == ASSUME NEW m \in Nat, NEW n \in Nat
                       PROVE  m * n \in Nat
  OBVIOUS

LEMMA AtLeast0Bounds == ASSUME NEW x \in Int
                        PROVE  AtLeast0(x) \in Nat /\ AtLeast0(x) >= x
  BY DEF AtLeast0

LEMMA PostType ==
  ASSUME NEW j \in Journal, NEW cash \in Int, NEW position \in Int,
         NEW suspense \in Int, NEW fees \in Int, NEW pnl \in Int
  PROVE  Post(j, cash, position, suspense, fees, pnl) \in Journal
  BY DEF Post, Journal

\* M comes from L by entries that sum to zero; the running cash and pnl move
\* as they do, and the running deployed capital and fees fall by no more.
Posts(L, M, cash, position, suspense, fees, pnl) ==
  /\ {cash, position, suspense, fees, pnl} \subseteq Int
  /\ cash + position + suspense + fees + pnl = 0
  /\ M.journal = Post(L.journal, cash, position, suspense, fees, pnl)
  /\ M.cash = L.cash + cash
  /\ M.pnl = L.pnl - pnl
  /\ M.deployed \in Int /\ M.deployed >= L.deployed + position
  /\ M.fees \in Int     /\ M.fees >= L.fees + fees

LEMMA PostingKeeps ==
  ASSUME NEW L, Sound(L), NEW M, NEW cash, NEW position, NEW suspense,
         NEW fees, NEW pnl, Posts(L, M, cash, position, suspense, fees, pnl)
  PROVE  Keeps(L, M)
<1> USE DEF Posts
<1>1. /\ L.journal \in Journal
      /\ L.cash \in Int /\ L.deployed \in Int
      /\ L.fees \in Int /\ L.pnl \in Int
  BY DEF Sound, LedgerType
<1>2. /\ L.journal.Cash \in Int     /\ L.journal.Equity \in Int
      /\ L.journal.Position \in Int /\ L.journal.Suspense \in Int
      /\ L.journal.Fees \in Int     /\ L.journal.RealizedPnL \in Int
  BY <1>1 DEF Journal
<1>3. /\ M.journal.Cash = L.journal.Cash + cash
      /\ M.journal.Equity = L.journal.Equity
      /\ M.journal.Position = L.journal.Position + position
      /\ M.journal.Suspense = L.journal.Suspense + suspense
      /\ M.journal.Fees = L.journal.Fees + fees
      /\ M.journal.RealizedPnL = L.journal.RealizedPnL + pnl
  BY DEF Post
<1>4. Balanced(M)
  <2>1. VerifyBalance(L) /\ L.pnl + L.journal.RealizedPnL = 0
    BY DEF Sound, Balanced
  <2>2. VerifyBalance(M)
    BY <1>2, <1>3, <2>1 DEF VerifyBalance
  <2>3. M.pnl + M.journal.RealizedPnL = 0
    BY <1>1, <1>2, <1>3, <2>1
  <2> QED
    BY <2>2, <2>3 DEF Balanced
<1>5. Covers(M)
  BY <1>1, <1>2, <1>3 DEF Sound, Covers
<1>6. CashInStep(L, M)
  BY <1>1, <1>2, <1>3 DEF CashInStep
<1> QED
  BY <1>4, <1>5, <1>6 DEF Keeps

LEMMA StutterPreserves == ASSUME NEW L PROVE Preserves(L, L)
  BY DEF Preserves, Sound, LedgerType, Journal, CashInStep

-----------------------------------------------------------------------------
\* The initial ledger.

LEMMA NewLedgerSound ==
  ASSUME NEW o \in Nat
  PROVE  Sound(NewLedger(o))
<1> DEFINE L == NewLedger(o)
<1>1. L.journal = [Cash |-> o, Equity |-> -o, Position |-> 0,
                   Suspense |-> 0, Fees |-> 0, RealizedPnL |-> 0]
  BY DEF NewLedger
<1>2. L.journal \in Journal
  BY <1>1 DEF Journal
<1>3. L \in LedgerType
  BY <1>2 DEF LedgerType, NewLedger, NoHolding
<1>4. L.pnl = 0 /\ L.deployed = 0 /\ L.fees = 0
  BY DEF NewLedger
<1>5. VerifyBalance(L)
  BY <1>1 DEF VerifyBalance
<1>6. /\ L.journal.RealizedPnL = 0
      /\ L.journal.Position = 0 /\ L.journal.Fees = 0
  BY <1>1
<1>7. L.pnl + L.journal.RealizedPnL = 0
  BY <1>4, <1>6
<1>8. Covers(L)
  BY <1>4, <1>6 DEF Covers
<1> QED
  BY <1>3, <1>5, <1>7, <1>8 DEF Sound, Balanced

LEMMA ResetCashSound ==
  ASSUME NEW L, Sound(L), NEW c \in Int
  PROVE  Sound(ResetCashTo(L, c))
  BY DEF Sound, LedgerType, ResetCashTo, Balanced, VerifyBalance, Covers

-----------------------------------------------------------------------------
\* Buys and sells.

LEMMA RecordBuyType ==
  ASSUME NEW L \in LedgerType, NEW p \in Positions, NEW a \in Assets,
         NEW capital \in Nat, NEW fees \in Nat, NEW shares \in Nat
  PROVE  RecordBuy(L, p, a, capital, fees, shares) \in LedgerType
<1> DEFINE M == RecordBuy(L, p, a, capital, fees, shares)
<1>1. M.journal \in Journal
  <2>1. L.journal \in Journal
    BY DEF LedgerType
  <2>2. M.journal = Post(L.journal, -(capital + fees), capital, 0, fees, 0)
    BY DEF LedgerType, RecordBuy
  <2> DEFINE cash == -(capital + fees)
  <2>3. cash \in Int /\ capital \in Int /\ fees \in Int /\ 0 \in Int
    OBVIOUS
  <2> HIDE DEF M, cash
  <2>4. Post(L.journal, cash, capital, 0, fees, 0) \in Journal
    BY <2>1, <2>3, PostType, Zenon
  <2> QED
    BY <2>2, <2>4 DEF cash
<1>2. M.booked \in [Positions -> Nat]
  BY DEF LedgerType, RecordBuy
<1>3. M.feeBooked \in [Positions -> Nat]
  BY DEF LedgerType, RecordBuy
<1>4. M.holdings \in [Assets -> [shares: Nat, cost: Int]]
  BY DEF LedgerType, RecordBuy
<1>5. M.cash \in Int /\ M.deployed \in Int /\ M.fees \in Int
  BY DEF LedgerType, RecordBuy
<1> QED
  BY <1>1, <1>2, <1>3, <1>4, <1>5 DEF LedgerType, RecordBuy

LEMMA RecordBuyPreserves ==
  ASSUME NEW L, NEW p \in Positions, NEW a \in Assets,
         NEW capital \in Nat, NEW fees \in Nat, NEW shares \in Nat
  PROVE  Preserves(L, RecordBuy(L, p, a, capital, fees, shares))
<1> SUFFICES ASSUME Sound(L)
             PROVE  Keeps(L, RecordBuy(L, p, a, capital, fees, shares))
  BY RecordBuyType DEF Preserves, Keeps, Sound
<1> QED
  BY DEF Sound, Keeps, LedgerType, RecordBuy, Post, Journal, Balanced,
         VerifyBalance, Covers, CashInStep

LEMMA RecordSellType ==
  ASSUME NEW L \in LedgerType, NEW p \in Positions, NEW a \in Assets,
         NEW proceeds \in Nat, NEW cost \in Nat, NEW fees \in Nat,
         NEW shares \in Nat
  PROVE  RecordSell(L, p, a, proceeds, cost, fees, shares) \in LedgerType
<1> DEFINE M == RecordSell(L, p, a, proceeds, cost, fees, shares)
<1>1. M.journal \in Journal
  <2>1. L.journal \in Journal
    BY DEF LedgerType
  <2>2. M.journal = Post(L.journal, proceeds - fees, -cost, 0, fees,
                         -(proceeds - cost))
    BY DEF LedgerType, RecordSell
  <2> DEFINE cash == proceeds - fees
             position == -cost
             pnl == -(proceeds - cost)
  <2>3. /\ cash \in Int /\ position \in Int /\ pnl \in Int
        /\ 0 \in Int /\ fees \in Int
    OBVIOUS
  <2> HIDE DEF M, cash, position, pnl
  <2>4. Post(L.journal, cash, position, 0, fees, pnl) \in Journal
    BY <2>1, <2>3, PostType, Zenon
  <2> QED
    BY <2>2, <2>4 DEF cash, position, pnl
<1>2. M.feeBooked \in [Positions -> Nat]
  BY DEF LedgerType, RecordSell
<1>3. M.holdings \in [Assets -> [shares: Nat, cost: Int]]
  <2>1. HoldingAfterSale(L.holdings[a], cost, shares)
          \in [shares: Nat, cost: Int]
    BY DEF LedgerType, HoldingAfterSale, NoHolding
  <2> QED
    BY <2>1 DEF LedgerType, RecordSell
<1>4. M.cash \in Int /\ M.deployed \in Int /\ M.fees \in Int /\ M.pnl \in Int
  BY DEF LedgerType, RecordSell
<1> QED
  BY <1>1, <1>2, <1>3, <1>4 DEF LedgerType, RecordSell

LEMMA RecordSellPreserves ==
  ASSUME NEW L, NEW p \in Positions, NEW a \in Assets, NEW proceeds \in Nat,
         NEW cost \in Nat, NEW fees \in Nat, NEW shares \in Nat
  PROVE  Preserves(L, RecordSell(L, p, a, proceeds, cost, fees, shares))
<1> SUFFICES ASSUME Sound(L)
             PROVE  Keeps(L, RecordSell(L, p, a, proceeds, cost, fees, shares))
  BY RecordSellType DEF Preserves, Keeps, Sound
<1> QED
  BY DEF Sound, Keeps, LedgerType, RecordSell, Post, Journal, Balanced,
         VerifyBalance, Covers, CashInStep

\* The set of recorded keys plays no part in what is preserved.
LEMMA RecordedKeySound ==
  ASSUME NEW L, Sound(L), NEW k \in Keys
  PROVE  /\ Sound([L EXCEPT !.recorded = @ \cup {k}])
         /\ CashInStep(L, [L EXCEPT !.recorded = @ \cup {k}])
         /\ [L EXCEPT !.recorded = @ \cup {k}].cash = L.cash
         /\ [L EXCEPT !.recorded = @ \cup {k}].journal = L.journal
  BY DEF Sound, LedgerType, Journal, Balanced, VerifyBalance, Covers, CashInStep

LEMMA BuyDedupPreserves ==
  ASSUME NEW L, NEW k \in Keys, NEW p \in Positions, NEW a \in Assets,
         NEW capital \in Nat, NEW fees \in Nat, NEW shares \in Nat
  PROVE  Preserves(L, RecordBuyDedup(L, k, p, a, capital, fees, shares))
<1> DEFINE K == [L EXCEPT !.recorded = @ \cup {k}]
<1>1. Preserves(K, RecordBuy(K, p, a, capital, fees, shares))
  BY RecordBuyPreserves
<1>2. Sound(L) => Sound(K) /\ K.cash = L.cash /\ K.journal = L.journal
  BY RecordedKeySound
<1>3. Preserves(L, RecordBuy(K, p, a, capital, fees, shares))
  BY <1>1, <1>2 DEF Preserves, CashInStep
<1> QED
  BY <1>3, StutterPreserves DEF RecordBuyDedup

LEMMA SellDedupPreserves ==
  ASSUME NEW L, NEW k \in Keys, NEW p \in Positions, NEW a \in Assets,
         NEW proceeds \in Nat, NEW cost \in Nat, NEW fees \in Nat,
         NEW shares \in Nat
  PROVE  Preserves(L, RecordSellDedup(L, k, p, a, proceeds, cost, fees, shares))
<1> DEFINE K == [L EXCEPT !.recorded = @ \cup {k}]
<1>1. Preserves(K, RecordSell(K, p, a, proceeds, cost, fees, shares))
  BY RecordSellPreserves
<1>2. Sound(L) => Sound(K) /\ K.cash = L.cash /\ K.journal = L.journal
  BY RecordedKeySound
<1>3. Preserves(L, RecordSell(K, p, a, proceeds, cost, fees, shares))
  BY <1>1, <1>2 DEF Preserves, CashInStep
<1> QED
  BY <1>3, StutterPreserves DEF RecordSellDedup

-----------------------------------------------------------------------------
\* Rollbacks and reconciliation adjustments.

LEMMA ReverseType ==
  ASSUME NEW L \in LedgerType, NEW p \in Positions
  PROVE  ReverseBuyByPosition(L, p) \in LedgerType
<1> DEFINE M == ReverseBuyByPosition(L, p)
           capital == L.booked[p]
           fees == L.feeBooked[p]
<1>1. L.journal \in Journal /\ capital \in Nat /\ fees \in Nat
  BY DEF LedgerType
<1>2. M.journal \in Journal
  <2>1. M.journal = Post(L.journal, capital + fees, -capital, 0, -fees, 0)
    BY DEF LedgerType, ReverseBuyByPosition
  <2> DEFINE cash == capital + fees
             position == -capital
             back == -fees
  <2>2. cash \in Int /\ position \in Int /\ back \in Int /\ 0 \in Int
    BY <1>1
  <2> HIDE DEF M, capital, fees, cash, position, back
  <2>3. Post(L.journal, cash, position, 0, back, 0) \in Journal
    BY <1>1, <2>2, PostType, Zenon
  <2> QED
    BY <2>1, <2>3 DEF cash, position, back
<1>3. M.cash \in Int /\ M.deployed \in Int /\ M.fees \in Int
  BY <1>1, AtLeast0Bounds DEF LedgerType, ReverseBuyByPosition
<1> QED
  BY <1>2, <1>3 DEF LedgerType, ReverseBuyByPosition

LEMMA ReversePreserves ==
  ASSUME NEW L, NEW p \in Positions
  PROVE  Preserves(L, ReverseBuyByPosition(L, p))
<1> DEFINE M == ReverseBuyByPosition(L, p)
           capital == L.booked[p]
           fees == L.feeBooked[p]
<1> SUFFICES ASSUME Sound(L)
             PROVE  Keeps(L, M)
  BY ReverseType DEF Preserves, Keeps, Sound
<1>1. /\ capital \in Nat /\ fees \in Nat /\ M \in LedgerType
      /\ L.deployed \in Int /\ L.fees \in Int /\ L.cash \in Int /\ L.pnl \in Int
  BY ReverseType DEF Sound, LedgerType
<1>2. M.journal = Post(L.journal, capital + fees, -capital, 0, -fees, 0)
  BY DEF Sound, LedgerType, ReverseBuyByPosition
<1>3. M.cash = L.cash + (capital + fees) /\ M.pnl = L.pnl - 0
  BY <1>1 DEF Sound, LedgerType, ReverseBuyByPosition
<1>4. /\ M.deployed = AtLeast0(L.deployed - capital)
      /\ M.fees = AtLeast0(L.fees - fees)
  BY DEF Sound, LedgerType, ReverseBuyByPosition
<1>5. /\ M.deployed \in Int /\ M.deployed >= L.deployed + (-capital)
      /\ M.fees \in Int /\ M.fees >= L.fees + (-fees)
  BY <1>1, <1>4, AtLeast0Bounds
<1> HIDE DEF M, capital, fees
<1>6. Posts(L, M, capital + fees, -capital, 0, -fees, 0)
  BY <1>1, <1>2, <1>3, <1>5 DEF Posts
<1> QED
  BY <1>6, PostingKeeps

LEMMA ReconcileUpPreserves ==
  ASSUME NEW L, NEW p \in Positions, NEW a \in Assets,
         NEW delta \in Nat, NEW price \in Nat
  PROVE  Preserves(L, ReconcileUp(L, p, a, delta, price))
<1> DEFINE M == ReconcileUp(L, p, a, delta, price)
<1> SUFFICES ASSUME Sound(L)
             PROVE  M \in LedgerType /\ Keeps(L, M)
  BY DEF Preserves, Keeps, Sound
<1>1. delta * price \in Nat
  BY ProductOfNats
<1>2. M.journal = Post(L.journal, -(delta * price), delta * price, 0, 0, 0)
  BY DEF Sound, LedgerType, ReconcileUp
<1>3. M.journal \in Journal
  BY <1>1, <1>2, PostType DEF Sound, LedgerType
<1>4. M.booked \in [Positions -> Nat]
  BY <1>1 DEF Sound, LedgerType, ReconcileUp
<1>5. M.holdings \in [Assets -> [shares: Nat, cost: Int]]
  BY <1>1 DEF Sound, LedgerType, ReconcileUp
<1>6. M.cash \in Int /\ M.deployed \in Int
  BY <1>1 DEF Sound, LedgerType, ReconcileUp
<1>7. M \in LedgerType
  BY <1>3, <1>4, <1>5, <1>6 DEF Sound, LedgerType, ReconcileUp
<1>8. Keeps(L, M)
  <2> DEFINE v == delta * price
  <2>1. /\ v \in Nat /\ M.journal = Post(L.journal, -v, v, 0, 0, 0)
        /\ L.deployed \in Int /\ L.fees \in Int /\ L.cash \in Int
        /\ L.pnl \in Int
    BY <1>1, <1>2 DEF Sound, LedgerType
  <2>2. /\ M.cash = L.cash - v  /\ M.deployed = L.deployed + v
        /\ M.fees = L.fees      /\ M.pnl = L.pnl
    BY DEF Sound, LedgerType, ReconcileUp
  <2> HIDE DEF v, M
  <2>3. Posts(L, M, -v, v, 0, 0, 0)
    BY <2>1, <2>2 DEF Posts
  <2> QED
    BY <2>3, PostingKeeps
<1> QED
  BY <1>7, <1>8

LEMMA ReconcileDownPreserves ==
  ASSUME NEW L, NEW p \in Positions, NEW a \in Assets,
         NEW missing \in Nat, NEW price \in Nat
  PROVE  Preserves(L, ReconcileDown(L, p, a, missing, price))
<1> DEFINE M == ReconcileDown(L, p, a, missing, price)
<1> SUFFICES ASSUME Sound(L)
             PROVE  M \in LedgerType /\ Keeps(L, M)
  BY DEF Preserves, Keeps, Sound
<1>1. missing * price \in Nat
  BY ProductOfNats
<1>2. M.journal = Post(L.journal, missing * price, -(missing * price), 0, 0, 0)
  BY DEF Sound, LedgerType, ReconcileDown
<1>3. M.journal \in Journal
  BY <1>1, <1>2, PostType DEF Sound, LedgerType
<1>4. M.holdings \in [Assets -> [shares: Nat, cost: Int]]
  BY AtLeast0Bounds DEF Sound, LedgerType, ReconcileDown
<1>5. M.cash \in Int /\ M.deployed \in Int
  BY <1>1 DEF Sound, LedgerType, ReconcileDown
<1>6. M \in LedgerType
  BY <1>3, <1>4, <1>5 DEF Sound, LedgerType, ReconcileDown
<1>7. Keeps(L, M)
  <2> DEFINE v == missing * price
  <2>1. /\ v \in Nat /\ M.journal = Post(L.journal, v, -v, 0, 0, 0)
        /\ L.deployed \in Int /\ L.fees \in Int /\ L.cash \in Int
        /\ L.pnl \in Int
    BY <1>1, <1>2 DEF Sound, LedgerType
  <2>2. /\ M.cash = L.cash + v
        /\ M.deployed = L.deployed - (IF v < L.deployed THEN v ELSE L.deployed)
        /\ M.fees = L.fees      /\ M.pnl = L.pnl
    BY DEF Sound, LedgerType, ReconcileDown
  <2> HIDE DEF v, M
  <2>3. M.deployed \in Int /\ M.deployed >= L.deployed + (-v)
    BY <2>1, <2>2
  <2>4. Posts(L, M, v, -v, 0, 0, 0)
    BY <2>1, <2>2, <2>3 DEF Posts
  <2> QED
    BY <2>4, PostingKeeps
<1> QED
  BY <1>6, <1>7

LEMMA ReconcilePreserves ==
  ASSUME NEW L, NEW p \in Positions, NEW a \in Assets,
         NEW delta \in Int, NEW price \in Nat
  PROVE  Preserves(L, RecordReconciliationAdjustment(L, p, a, delta, price))
  BY ReconcileUpPreserves, ReconcileDownPreserves, StutterPreserves
     DEF RecordReconciliationAdjustment

-----------------------------------------------------------------------------
\* Suspense.

LEMMA EnterSuspensePreserves ==
  ASSUME NEW L, NEW t \in Trades, NEW p \in Positions, NEW a \in Assets,
         NEW shares \in Nat, NEW capital \in Nat, NEW fees \in Nat
  PROVE  Preserves(L, EnterSuspense(L, t, p, a, shares, capital, fees))
<1> DEFINE M == EnterSuspense(L, t, p, a, shares, capital, fees)
<1> SUFFICES ASSUME Sound(L), L.suspense[t] = NoEntry
             PROVE  M \in LedgerType /\ Keeps(L, M)
  BY StutterPreserves DEF Preserves, Keeps, Sound, EnterSuspense
<1>1. M.journal = Post(L.journal, -(capital + fees), 0, capital + fees, 0, 0)
  BY DEF Sound, LedgerType, EnterSuspense
<1>2. M.journal \in Journal
  BY <1>1, PostType DEF Sound, LedgerType
<1>3. M.suspense \in [Trades -> SuspenseEntry \cup {NoEntry}]
  BY DEF Sound, LedgerType, EnterSuspense, SuspenseEntry, Status
<1>4. M.cash \in Int /\ M.recorded \subseteq Keys \cup Trades
  BY DEF Sound, LedgerType, EnterSuspense
<1>5. M \in LedgerType
  BY <1>2, <1>3, <1>4 DEF Sound, LedgerType, EnterSuspense
<1>6. Keeps(L, M)
  <2>1. /\ M.cash = L.cash - (capital + fees) /\ M.pnl = L.pnl
        /\ M.deployed = L.deployed            /\ M.fees = L.fees
    BY DEF Sound, LedgerType, EnterSuspense
  <2>2. /\ L.deployed \in Int /\ L.fees \in Int
        /\ L.cash \in Int     /\ L.pnl \in Int
    BY DEF Sound, LedgerType
  <2> HIDE DEF M
  <2>3. Posts(L, M, -(capital + fees), 0, capital + fees, 0, 0)
    BY <1>1, <2>1, <2>2 DEF Posts
  <2> QED
    BY <2>3, PostingKeeps
<1> QED
  BY <1>5, <1>6

\* A pending trade has a full suspense entry, and keeps one with any status.
LEMMA PendingIsEntry ==
  ASSUME NEW L \in LedgerType, NEW t \in Trades,
         L.suspense[t].status \in Pending, NEW s \in Status
  PROVE  /\ L.suspense[t] \in SuspenseEntry
         /\ [L.suspense EXCEPT ![t].status = s]
              \in [Trades -> SuspenseEntry \cup {NoEntry}]
<1>1. L.suspense[t] \in SuspenseEntry
  BY DEF LedgerType, NoEntry, Pending
<1>2. [L.suspense[t] EXCEPT !.status = s] \in SuspenseEntry
  BY <1>1 DEF SuspenseEntry
<1> QED
  BY <1>1, <1>2 DEF LedgerType

LEMMA ConfirmPreserves ==
  ASSUME NEW L, NEW t \in Trades
  PROVE  Preserves(L, ConfirmFromSuspense(L, t))
<1> DEFINE M == ConfirmFromSuspense(L, t)
           e == L.suspense[t]
<1> SUFFICES ASSUME Sound(L), e.status \in Pending
             PROVE  M \in LedgerType /\ Keeps(L, M)
  BY StutterPreserves DEF Preserves, Keeps, Sound, ConfirmFromSuspense
<1>1. e \in SuspenseEntry
  BY PendingIsEntry DEF Sound, Status
<1>2. /\ e.pid \in Positions /\ e.asset \in Assets
      /\ e.capital \in Nat /\ e.fees \in Nat /\ e.shares \in Nat
  BY <1>1 DEF SuspenseEntry
<1>3. M.journal = Post(L.journal, 0, e.capital, -(e.capital + e.fees), e.fees, 0)
  BY DEF Sound, LedgerType, ConfirmFromSuspense
<1>4. M.journal \in Journal
  BY <1>2, <1>3, PostType DEF Sound, LedgerType
<1>5. M.suspense \in [Trades -> SuspenseEntry \cup {NoEntry}]
  BY PendingIsEntry DEF Sound, LedgerType, ConfirmFromSuspense, Status
<1>6. M.booked \in [Positions -> Nat] /\ M.feeBooked \in [Positions -> Nat]
  <2>1. /\ L.booked \in [Positions -> Nat] /\ L.feeBooked \in [Positions -> Nat]
        /\ M.booked = [L.booked EXCEPT ![e.pid] = @ + e.capital]
        /\ M.feeBooked = [L.feeBooked EXCEPT ![e.pid] = @ + e.fees]
    BY DEF Sound, LedgerType, ConfirmFromSuspense
  <2> HIDE DEF M, e
  <2> QED
    BY <1>2, <2>1
<1>7. M.holdings \in [Assets -> [shares: Nat, cost: Int]]
  <2> DEFINE had == L.holdings[e.asset]
             has == [shares |-> had.shares + e.shares, cost |-> had.cost + e.capital]
  <2>1. /\ L.holdings \in [Assets -> [shares: Nat, cost: Int]]
        /\ M.holdings = [L.holdings EXCEPT ![e.asset] = has]
    BY DEF Sound, LedgerType, ConfirmFromSuspense
  <2> HIDE DEF M, e
  <2>2. has \in [shares: Nat, cost: Int]
    BY <1>2, <2>1
  <2> HIDE DEF has
  <2> QED
    BY <1>2, <2>1, <2>2
<1>8. M.deployed \in Int /\ M.fees \in Int
  BY <1>2 DEF Sound, LedgerType, ConfirmFromSuspense
<1>9. M \in LedgerType
  BY <1>4, <1>5, <1>6, <1>7, <1>8 DEF Sound, LedgerType, ConfirmFromSuspense
<1>10. Keeps(L, M)
  <2> DEFINE released == -(e.capital + e.fees)
  <2>1. /\ M.cash = L.cash          /\ M.deployed = L.deployed + e.capital
        /\ M.fees = L.fees + e.fees /\ M.pnl = L.pnl
        /\ {L.cash, L.deployed, L.fees, L.pnl} \subseteq Int
    BY DEF Sound, LedgerType, ConfirmFromSuspense
  <2>2. PICK capital, fees : capital = e.capital /\ fees = e.fees
    OBVIOUS
  <2> HIDE DEF M, e
  <2>3. released \in Int /\ 0 + capital + released + fees + 0 = 0
    BY <1>2, <2>2
  <2>4. M.journal = Post(L.journal, 0, capital, released, fees, 0)
    BY <1>3, <2>2
  <2> HIDE DEF released
  <2>5. Posts(L, M, 0, capital, released, fees, 0)
    BY <1>2, <2>1, <2>2, <2>3, <2>4 DEF Posts
  <2> QED
    BY <2>5, PostingKeeps
<1> QED
  BY <1>9, <1>10

LEMMA RetryPreserves ==
  ASSUME NEW L, NEW t \in Trades
  PROVE  Preserves(L, MarkSuspenseRetrying(L, t))
<1> DEFINE M == MarkSuspenseRetrying(L, t)
<1> SUFFICES ASSUME Sound(L), L.suspense[t].status = "matched"
             PROVE  M \in LedgerType /\ Keeps(L, M)
  BY StutterPreserves DEF Preserves, Keeps, Sound, MarkSuspenseRetrying
<1>1. M.suspense \in [Trades -> SuspenseEntry \cup {NoEntry}]
  BY PendingIsEntry
     DEF Sound, LedgerType, MarkSuspenseRetrying, Status, Pending
<1>2. M \in LedgerType
  BY <1>1 DEF Sound, LedgerType, MarkSuspenseRetrying
<1>3. Keeps(L, M)
  BY DEF Sound, Keeps, LedgerType, MarkSuspenseRetrying, Journal, Balanced,
         VerifyBalance, Covers, CashInStep
<1> QED
  BY <1>2, <1>3

LEMMA ReverseSuspensePreserves ==
  ASSUME NEW L, NEW t \in Trades
  PROVE  Preserves(L, ReverseSuspense(L, t))
<1> DEFINE M == ReverseSuspense(L, t)
           e == L.suspense[t]
<1> SUFFICES ASSUME Sound(L), e.status \in Pending
             PROVE  M \in LedgerType /\ Keeps(L, M)
  BY StutterPreserves DEF Preserves, Keeps, Sound, ReverseSuspense
<1>1. e \in SuspenseEntry
  BY PendingIsEntry DEF Sound, Status
<1>2. e.capital \in Nat /\ e.fees \in Nat
  BY <1>1 DEF SuspenseEntry
<1>3. M.journal = Post(L.journal, e.capital + e.fees, 0,
                       -(e.capital + e.fees), 0, 0)
  BY DEF Sound, LedgerType, ReverseSuspense
<1>4. M.journal \in Journal
  BY <1>2, <1>3, PostType DEF Sound, LedgerType
<1>5. M.suspense \in [Trades -> SuspenseEntry \cup {NoEntry}]
  BY PendingIsEntry DEF Sound, LedgerType, ReverseSuspense, Status
<1>6. M.cash \in Int
  BY <1>2 DEF Sound, LedgerType, ReverseSuspense
<1>7. M \in LedgerType
  BY <1>4, <1>5, <1>6 DEF Sound, LedgerType, ReverseSuspense
<1>8. Keeps(L, M)
  BY <1>2 DEF Sound, Keeps, LedgerType, ReverseSuspense, Post, Journal,
              Balanced, VerifyBalance, Covers, CashInStep
<1> QED
  BY <1>7, <1>8

-----------------------------------------------------------------------------
\* The component.

\* The inductive invariant.
IInv == TypeOK /\ BooksBalance /\ RunningCoversJournal

LEMMA InitSound == Init => IInv
  BY NewLedgerSound, ResetCashSound, AmountsAssumption
     DEF Init, IInv, TypeOK, BooksBalance, RunningCoversJournal, Sound

\* Every step keeps the ledger sound and the cash in step with the journal.
LEMMA StepPreserves == IInv /\ [Next]_vars => IInv' /\ CashInStep(ledger, ledger')
<1> SUFFICES ASSUME IInv, [Next]_vars
             PROVE  IInv' /\ CashInStep(ledger, ledger')
  OBVIOUS
<1> USE AmountsAssumption
<1>1. Sound(ledger)
  BY DEF IInv, TypeOK, BooksBalance, RunningCoversJournal, Sound
<1> DEFINE Done == /\ Preserves(ledger, ledger')
                   /\ reversed' \subseteq Positions
                   /\ adjustments' \in 0..MaxAdjustments
<1>2. ASSUME NEW k \in Keys, NEW p \in Positions, NEW a \in Assets,
             Buy(k, p, a)
      PROVE  Done
  BY <1>2, BuyDedupPreserves DEF Buy, IInv, TypeOK
<1>3. ASSUME NEW k \in Keys, NEW p \in Positions, NEW a \in Assets,
             Sell(k, p, a)
      PROVE  Done
  BY <1>3, SellDedupPreserves DEF Sell, IInv, TypeOK
<1>4. ASSUME NEW p \in Positions, Rollback(p)
      PROVE  Done
  BY <1>4, ReversePreserves DEF Rollback, IInv, TypeOK
<1>5. ASSUME NEW p \in Positions, NEW a \in Assets, Reconcile(p, a)
      PROVE  Done
  <2>1. PICK shares \in Shares, price \in Prices, sign \in {1, -1} :
          ledger' = RecordReconciliationAdjustment(ledger, p, a,
                                                   sign * shares, price)
    BY <1>5 DEF Reconcile
  <2>2. sign * shares \in Int /\ price \in Nat
    OBVIOUS
  <2>3. Preserves(ledger, ledger')
    BY <2>1, <2>2, ReconcilePreserves
  <2> QED
    BY <1>5, <2>3 DEF Reconcile, IInv, TypeOK
<1>6. ASSUME NEW t \in Trades, NEW p \in Positions, NEW a \in Assets,
             Match(t, p, a)
      PROVE  Done
  BY <1>6, EnterSuspensePreserves DEF Match, IInv, TypeOK
<1>7. ASSUME NEW t \in Trades, Confirm(t)
      PROVE  Done
  BY <1>7, ConfirmPreserves DEF Confirm, IInv, TypeOK
<1>8. ASSUME NEW t \in Trades, Retry(t)
      PROVE  Done
  BY <1>8, RetryPreserves DEF Retry, IInv, TypeOK
<1>9. ASSUME NEW t \in Trades, Fail(t)
      PROVE  Done
  BY <1>9, ReverseSuspensePreserves DEF Fail, IInv, TypeOK
<1>10. ASSUME UNCHANGED vars PROVE Done
  <2>1. ledger' = ledger /\ reversed' = reversed /\ adjustments' = adjustments
    BY <1>10 DEF vars
  <2>2. Preserves(ledger, ledger)
    BY StutterPreserves
  <2> QED
    BY <2>1, <2>2 DEF IInv, TypeOK
<1> HIDE DEF Done
<1>11. Done
  BY <1>2, <1>3, <1>4, <1>5, <1>6, <1>7, <1>8, <1>9, <1>10 DEF Next
<1> QED
  BY <1>1, <1>11
     DEF Done, Preserves, Sound, IInv, TypeOK, BooksBalance, RunningCoversJournal

\* The ledger stays well-typed: its shares, its journal of debits and its
\* suspense entries are what every operation of accounting.rs expects.
THEOREM LedgerTypeOK == Spec => []TypeOK
<1>1. IInv => TypeOK
  BY DEF IInv
<1> QED
  BY InitSound, StepPreserves, <1>1, PTL DEF Spec

\* Debits equal credits after any sequence of operations, for any amounts.
THEOREM LedgerBalances == Spec => []BooksBalance
<1>1. IInv => BooksBalance
  BY DEF IInv
<1> QED
  BY InitSound, StepPreserves, <1>1, PTL DEF Spec

\* The running deployed capital and fees never fall below the journal's.
THEOREM LedgerCovers == Spec => []RunningCoversJournal
<1>1. IInv => RunningCoversJournal
  BY DEF IInv
<1> QED
  BY InitSound, StepPreserves, <1>1, PTL DEF Spec

\* Every step moves the running cash by what it posts to the Cash account.
THEOREM LedgerCashFollows == Spec => CashFollowsJournal
<1>1. IInv /\ [Next]_vars => [CashInStep(ledger, ledger')]_vars
  BY StepPreserves
<1> QED
  BY InitSound, StepPreserves, <1>1, PTL DEF Spec, CashFollowsJournal
-----------------------------------------------------------------------------
\* Suspense against the journal.

\* The Suspense account holds the pending trades' money, of which there is a
\* finite number whatever the set of trade ids.
Backed(L) == /\ IsFiniteSet(PendingTrades(L))
             /\ L.journal.Suspense = SuspenseTotal(L)

\* What a trade's entry holds.
Amount(L, t) == L.suspense[t].capital + L.suspense[t].fees

LEMMA PendingAmount ==
  ASSUME NEW L \in LedgerType, NEW t \in PendingTrades(L)
  PROVE  Amount(L, t) \in Nat
<1>1. L.suspense[t] \in SuspenseEntry
  BY DEF LedgerType, PendingTrades, NoEntry, Pending
<1> QED
  BY <1>1 DEF SuspenseEntry, Amount

LEMMA SuspenseSum ==
  ASSUME NEW L
  PROVE  SuspenseTotal(L)
           = SumFunctionOnSet([t \in PendingTrades(L) |-> Amount(L, t)],
                              PendingTrades(L))
  BY DEF SuspenseTotal, SumFunction, Amount

\* An operation that leaves the pending trades and the account alone.
LEMMA SamePending ==
  ASSUME NEW L \in LedgerType, NEW M, Backed(L),
         PendingTrades(M) = PendingTrades(L),
         \A t \in PendingTrades(L) : Amount(M, t) = Amount(L, t),
         M.journal.Suspense = L.journal.Suspense
  PROVE  Backed(M)
<1> DEFINE f == [t \in PendingTrades(L) |-> Amount(L, t)]
           g == [t \in PendingTrades(M) |-> Amount(M, t)]
<1>1. \A t \in PendingTrades(L) : f[t] \in Int /\ g[t] = f[t]
  BY PendingAmount
<1>2. SuspenseTotal(L) = SumFunctionOnSet(f, PendingTrades(L))
  BY SuspenseSum
<1>3. SuspenseTotal(M) = SumFunctionOnSet(g, PendingTrades(L))
  BY SuspenseSum
<1>4. IsFiniteSet(PendingTrades(L))
  BY DEF Backed
<1> HIDE DEF f, g
<1>5. SumFunctionOnSet(g, PendingTrades(L)) = SumFunctionOnSet(f, PendingTrades(L))
  BY <1>1, <1>4, SumSame
<1> QED
  BY <1>2, <1>3, <1>4, <1>5 DEF Backed

\* M has one pending trade more than L.
LEMMA OneMorePending ==
  ASSUME NEW L \in LedgerType, NEW M \in LedgerType, NEW t \in Trades,
         t \notin PendingTrades(L), PendingTrades(M) = PendingTrades(L) \cup {t},
         \A u \in PendingTrades(L) : Amount(M, u) = Amount(L, u)
  PROVE  /\ IsFiniteSet(PendingTrades(L)) <=> IsFiniteSet(PendingTrades(M))
         /\ IsFiniteSet(PendingTrades(L)) =>
              SuspenseTotal(M) = SuspenseTotal(L) + Amount(M, t)
<1>1. IsFiniteSet(PendingTrades(L)) => IsFiniteSet(PendingTrades(M))
  BY FS_AddElement
<1>2. IsFiniteSet(PendingTrades(M)) => IsFiniteSet(PendingTrades(L))
  BY FS_Subset
<1> SUFFICES ASSUME IsFiniteSet(PendingTrades(L)), IsFiniteSet(PendingTrades(M))
             PROVE  SuspenseTotal(M) = SuspenseTotal(L) + Amount(M, t)
  BY <1>1, <1>2
<1> DEFINE f == [u \in PendingTrades(L) |-> Amount(L, u)]
           g == [u \in PendingTrades(M) |-> Amount(M, u)]
           rest == PendingTrades(M) \ {t}
<1>3. /\ \A u \in PendingTrades(L) : f[u] \in Int /\ g[u] = f[u]
      /\ \A u \in PendingTrades(M) : g[u] \in Int
      /\ t \in PendingTrades(M) /\ g[t] = Amount(M, t)
      /\ rest = PendingTrades(L)
  BY PendingAmount
<1>4. /\ SuspenseTotal(L) = SumFunctionOnSet(f, PendingTrades(L))
      /\ SuspenseTotal(M) = SumFunctionOnSet(g, PendingTrades(M))
  BY SuspenseSum
<1> HIDE DEF f, g, rest
<1>5. SumFunctionOnSet(g, PendingTrades(M))
        = g[t] + SumFunctionOnSet(g, PendingTrades(M) \ {t})
  BY <1>3, SumRemove
<1>6. SumFunctionOnSet(g, PendingTrades(L)) = SumFunctionOnSet(f, PendingTrades(L))
  BY <1>3, SumSame
<1>7. SumFunctionOnSet(f, PendingTrades(L)) \in Int
  BY <1>3, SumType
<1>8. PendingTrades(M) \ {t} = PendingTrades(L)
  BY <1>3 DEF rest
<1>9. g[t] \in Int /\ g[t] = Amount(M, t)
  BY <1>3
<1>10. SumFunctionOnSet(g, PendingTrades(M) \ {t})
         = SumFunctionOnSet(f, PendingTrades(L))
  BY <1>6, <1>8
<1> QED
  BY <1>4, <1>5, <1>7, <1>9, <1>10

\* Posting nothing to Suspense.
LEMMA NoSuspensePosted ==
  ASSUME NEW j \in Journal, NEW cash, NEW position, NEW fees, NEW pnl
  PROVE  Post(j, cash, position, 0, fees, pnl).Suspense = j.Suspense
<1>1. j.Suspense \in Int
  BY DEF Journal
<1>2. Post(j, cash, position, 0, fees, pnl).Suspense = j.Suspense + 0
  BY DEF Post
<1> QED
  BY <1>1, <1>2

\* Buys, sells, rollbacks and adjustments do not touch suspense.
LEMMA BooksLeaveSuspense ==
  ASSUME NEW L \in LedgerType, NEW M, M.suspense = L.suspense,
         M.journal.Suspense = L.journal.Suspense, Backed(L)
  PROVE  Backed(M)
  BY SamePending DEF PendingTrades, Amount
LEMMA BuyLeavesSuspense ==
  ASSUME NEW L \in LedgerType, NEW k, NEW p \in Positions, NEW a \in Assets,
         NEW capital \in Nat, NEW fees \in Nat, NEW shares \in Nat, Backed(L)
  PROVE  Backed(RecordBuyDedup(L, k, p, a, capital, fees, shares))
<1> DEFINE M == RecordBuyDedup(L, k, p, a, capital, fees, shares)
<1>1. CASE k \in L.recorded
  BY <1>1 DEF RecordBuyDedup
<1>2. CASE k \notin L.recorded
  <2>1. /\ M.suspense = L.suspense
        /\ M.journal = Post(L.journal, -(capital + fees), capital, 0, fees, 0)
    BY <1>2 DEF LedgerType, RecordBuyDedup, RecordBuy
  <2>2. M.journal.Suspense = L.journal.Suspense
    BY <2>1, NoSuspensePosted DEF LedgerType
  <2> QED
    BY <2>1, <2>2, BooksLeaveSuspense
<1> QED
  BY <1>1, <1>2

LEMMA SellLeavesSuspense ==
  ASSUME NEW L \in LedgerType, NEW k, NEW p \in Positions, NEW a \in Assets,
         NEW proceeds \in Nat, NEW cost \in Nat, NEW fees \in Nat,
         NEW shares \in Nat, Backed(L)
  PROVE  Backed(RecordSellDedup(L, k, p, a, proceeds, cost, fees, shares))
<1> DEFINE M == RecordSellDedup(L, k, p, a, proceeds, cost, fees, shares)
<1>1. CASE k \in L.recorded
  BY <1>1 DEF RecordSellDedup
<1>2. CASE k \notin L.recorded
  <2>1. /\ M.suspense = L.suspense
        /\ M.journal = Post(L.journal, proceeds - fees, -cost, 0, fees,
                            -(proceeds - cost))
    BY <1>2 DEF LedgerType, RecordSellDedup, RecordSell
  <2>2. M.journal.Suspense = L.journal.Suspense
    BY <2>1, NoSuspensePosted DEF LedgerType
  <2> QED
    BY <2>1, <2>2, BooksLeaveSuspense
<1> QED
  BY <1>1, <1>2

LEMMA RollbackLeavesSuspense ==
  ASSUME NEW L \in LedgerType, NEW p \in Positions, Backed(L)
  PROVE  Backed(ReverseBuyByPosition(L, p))
<1> DEFINE M == ReverseBuyByPosition(L, p)
<1>1. /\ M.suspense = L.suspense
      /\ M.journal = Post(L.journal, L.booked[p] + L.feeBooked[p], -L.booked[p],
                          0, -L.feeBooked[p], 0)
  BY DEF LedgerType, ReverseBuyByPosition
<1>2. M.journal.Suspense = L.journal.Suspense
  BY <1>1, NoSuspensePosted DEF LedgerType
<1> QED
  BY <1>1, <1>2, BooksLeaveSuspense

LEMMA ReconcileLeavesSuspense ==
  ASSUME NEW L \in LedgerType, NEW p \in Positions, NEW a \in Assets,
         NEW delta \in Int, NEW price \in Nat, Backed(L)
  PROVE  Backed(RecordReconciliationAdjustment(L, p, a, delta, price))
<1>1. ASSUME NEW n \in Nat
      PROVE  Backed(ReconcileUp(L, p, a, n, price))
  <2> DEFINE M == ReconcileUp(L, p, a, n, price)
  <2>1. /\ M.suspense = L.suspense
        /\ M.journal = Post(L.journal, -(n * price), n * price, 0, 0, 0)
    BY DEF LedgerType, ReconcileUp
  <2>2. M.journal.Suspense = L.journal.Suspense
    BY <2>1, NoSuspensePosted DEF LedgerType
  <2> QED
    BY <2>1, <2>2, BooksLeaveSuspense
<1>2. ASSUME NEW n \in Nat
      PROVE  Backed(ReconcileDown(L, p, a, n, price))
  <2> DEFINE M == ReconcileDown(L, p, a, n, price)
  <2>1. /\ M.suspense = L.suspense
        /\ M.journal = Post(L.journal, n * price, -(n * price), 0, 0, 0)
    BY DEF LedgerType, ReconcileDown
  <2>2. M.journal.Suspense = L.journal.Suspense
    BY <2>1, NoSuspensePosted DEF LedgerType
  <2> QED
    BY <2>1, <2>2, BooksLeaveSuspense
<1> QED
  BY <1>1, <1>2 DEF RecordReconciliationAdjustment

LEMMA EnterKeepsBacked ==
  ASSUME NEW L, Sound(L), NEW t \in Trades, NEW p \in Positions, NEW a \in Assets,
         NEW shares \in Nat, NEW capital \in Nat, NEW fees \in Nat, Backed(L)
  PROVE  Backed(EnterSuspense(L, t, p, a, shares, capital, fees))
<1> DEFINE M == EnterSuspense(L, t, p, a, shares, capital, fees)
<1>1. CASE L.suspense[t] # NoEntry
  BY <1>1 DEF EnterSuspense
<1>2. CASE L.suspense[t] = NoEntry
  <2>1. L \in LedgerType /\ M \in LedgerType
    BY EnterSuspensePreserves DEF Preserves, Sound
  <2>2. /\ M.suspense[t].status = "matched"
        /\ M.suspense[t].capital = capital /\ M.suspense[t].fees = fees
        /\ \A u \in Trades \ {t} : M.suspense[u] = L.suspense[u]
        /\ M.journal = Post(L.journal, -(capital + fees), 0, capital + fees, 0, 0)
    BY <1>2 DEF Sound, LedgerType, EnterSuspense
  <2>3. t \notin PendingTrades(L)
    BY <1>2 DEF PendingTrades, NoEntry, Pending
  <2>4. /\ PendingTrades(M) = PendingTrades(L) \cup {t}
        /\ \A u \in PendingTrades(L) : Amount(M, u) = Amount(L, u)
    BY <2>2, <2>3 DEF PendingTrades, Pending, Amount
  <2>5. M.journal.Suspense = L.journal.Suspense + Amount(M, t)
    BY <2>2 DEF Amount, Post
  <2> HIDE DEF M
  <2>6. /\ IsFiniteSet(PendingTrades(L)) <=> IsFiniteSet(PendingTrades(M))
        /\ IsFiniteSet(PendingTrades(L)) =>
             SuspenseTotal(M) = SuspenseTotal(L) + Amount(M, t)
    BY <2>1, <2>3, <2>4, OneMorePending
  <2>7. Backed(M)
    BY <2>5, <2>6 DEF Backed
  <2> QED
    BY <2>7 DEF M
<1> QED
  BY <1>1, <1>2

\* A pending trade that becomes final takes its amount out of the account.
LEMMA FinalTradeReleased ==
  ASSUME NEW L \in LedgerType, NEW M \in LedgerType, NEW t \in PendingTrades(L),
         Backed(L), NEW s \in Status \ Pending,
         M.suspense = [L.suspense EXCEPT ![t].status = s],
         M.journal.Suspense = L.journal.Suspense - Amount(L, t)
  PROVE  Backed(M)
<1>1. t \in Trades /\ L.suspense \in [Trades -> SuspenseEntry \cup {NoEntry}]
  BY DEF PendingTrades, LedgerType
<1>2. L.suspense[t] \in SuspenseEntry
  BY PendingIsEntry DEF PendingTrades, Status
<1>3. /\ M.suspense[t].status = s
      /\ \A u \in Trades \ {t} : M.suspense[u] = L.suspense[u]
  BY <1>1, <1>2 DEF SuspenseEntry
<1>4. t \notin PendingTrades(M)
  BY <1>3 DEF PendingTrades
<1>5. /\ PendingTrades(L) = PendingTrades(M) \cup {t}
      /\ \A u \in PendingTrades(M) : Amount(L, u) = Amount(M, u)
  BY <1>1, <1>3, <1>4 DEF PendingTrades, Amount
<1>6. /\ IsFiniteSet(PendingTrades(M)) <=> IsFiniteSet(PendingTrades(L))
      /\ IsFiniteSet(PendingTrades(M)) =>
           SuspenseTotal(L) = SuspenseTotal(M) + Amount(L, t)
  BY <1>1, <1>4, <1>5, OneMorePending
<1>7. IsFiniteSet(PendingTrades(M))
  BY <1>6 DEF Backed
<1>8. SuspenseTotal(M) \in Int
  <2> DEFINE g == [u \in PendingTrades(M) |-> Amount(M, u)]
  <2>1. \A u \in PendingTrades(M) : g[u] \in Int
    BY PendingAmount
  <2>2. SuspenseTotal(M) = SumFunctionOnSet(g, PendingTrades(M))
    BY SuspenseSum
  <2> HIDE DEF g
  <2> QED
    BY <1>7, <2>1, <2>2, SumType
<1>9. Amount(L, t) \in Int
  BY PendingAmount
<1> QED
  BY <1>6, <1>7, <1>8, <1>9 DEF Backed

LEMMA ConfirmKeepsBacked ==
  ASSUME NEW L, Sound(L), NEW t \in Trades, Backed(L)
  PROVE  Backed(ConfirmFromSuspense(L, t))
<1> DEFINE M == ConfirmFromSuspense(L, t)
           e == L.suspense[t]
<1>1. CASE e.status \notin Pending
  BY <1>1 DEF ConfirmFromSuspense
<1>2. CASE e.status \in Pending
  <2>1. /\ L \in LedgerType /\ M \in LedgerType
        /\ t \in PendingTrades(L) /\ Amount(L, t) \in Nat
    BY <1>2, ConfirmPreserves, PendingAmount DEF Preserves, Sound, PendingTrades
  <2>2. /\ M.suspense = [L.suspense EXCEPT ![t].status = "confirmed"]
        /\ M.journal = Post(L.journal, 0, e.capital, -(e.capital + e.fees), e.fees, 0)
    BY <1>2 DEF Sound, LedgerType, ConfirmFromSuspense
  <2>3. L.journal.Suspense \in Int
    BY <2>1 DEF LedgerType, Journal
  <2>4. M.journal.Suspense = L.journal.Suspense + (-(e.capital + e.fees))
    BY <2>2 DEF Post
  <2>5. M.journal.Suspense = L.journal.Suspense - Amount(L, t)
    BY <2>1, <2>3, <2>4 DEF Amount
  <2>6. "confirmed" \in Status \ Pending
    BY DEF Status, Pending
  <2> HIDE DEF M, e
  <2>7. Backed(M)
    BY <2>1, <2>2, <2>5, <2>6, FinalTradeReleased
  <2> QED
    BY <2>7 DEF M
<1> QED
  BY <1>1, <1>2

LEMMA RetryKeepsBacked ==
  ASSUME NEW L, Sound(L), NEW t \in Trades, Backed(L)
  PROVE  Backed(MarkSuspenseRetrying(L, t))
<1> DEFINE M == MarkSuspenseRetrying(L, t)
<1>1. CASE L.suspense[t].status # "matched"
  BY <1>1 DEF MarkSuspenseRetrying
<1>2. CASE L.suspense[t].status = "matched"
  <2>1. L \in LedgerType /\ L.suspense[t] \in SuspenseEntry
    BY <1>2, PendingIsEntry DEF Sound, Pending, Status
  <2>2. /\ M.journal = L.journal
        /\ M.suspense = [L.suspense EXCEPT ![t].status = "retrying"]
    BY <1>2 DEF Sound, LedgerType, MarkSuspenseRetrying
  <2>3. /\ M.suspense[t].status = "retrying"
        /\ M.suspense[t].capital = L.suspense[t].capital
        /\ M.suspense[t].fees = L.suspense[t].fees
        /\ \A u \in Trades \ {t} : M.suspense[u] = L.suspense[u]
    BY <2>1, <2>2 DEF LedgerType, SuspenseEntry
  <2>4. /\ PendingTrades(M) = PendingTrades(L)
        /\ \A u \in PendingTrades(L) : Amount(M, u) = Amount(L, u)
    BY <1>2, <2>3 DEF PendingTrades, Pending, Amount
  <2> HIDE DEF M
  <2>5. Backed(M)
    BY <2>1, <2>2, <2>4, SamePending
  <2> QED
    BY <2>5 DEF M
<1> QED
  BY <1>1, <1>2

LEMMA FailKeepsBacked ==
  ASSUME NEW L, Sound(L), NEW t \in Trades, Backed(L)
  PROVE  Backed(ReverseSuspense(L, t))
<1> DEFINE M == ReverseSuspense(L, t)
           e == L.suspense[t]
<1>1. CASE e.status \notin Pending
  BY <1>1 DEF ReverseSuspense
<1>2. CASE e.status \in Pending
  <2>1. /\ L \in LedgerType /\ M \in LedgerType
        /\ t \in PendingTrades(L) /\ Amount(L, t) \in Nat
    BY <1>2, ReverseSuspensePreserves, PendingAmount
       DEF Preserves, Sound, PendingTrades
  <2>2. /\ M.suspense = [L.suspense EXCEPT ![t].status = "failed"]
        /\ M.journal = Post(L.journal, e.capital + e.fees, 0,
                            -(e.capital + e.fees), 0, 0)
    BY <1>2 DEF Sound, LedgerType, ReverseSuspense
  <2>3. L.journal.Suspense \in Int
    BY <2>1 DEF LedgerType, Journal
  <2>4. M.journal.Suspense = L.journal.Suspense + (-(e.capital + e.fees))
    BY <2>2 DEF Post
  <2>5. M.journal.Suspense = L.journal.Suspense - Amount(L, t)
    BY <2>1, <2>3, <2>4 DEF Amount
  <2>6. "failed" \in Status \ Pending
    BY DEF Status, Pending
  <2> HIDE DEF M, e
  <2>7. Backed(M)
    BY <2>1, <2>2, <2>5, <2>6, FinalTradeReleased
  <2> QED
    BY <2>7 DEF M
<1> QED
  BY <1>1, <1>2

LEMMA InitBacked == Init => Backed(ledger)
<1> SUFFICES ASSUME Init PROVE Backed(ledger)
  OBVIOUS
<1>1. /\ ledger.suspense = [t \in Trades |-> NoEntry]
      /\ ledger.journal.Suspense = 0
  <2>1. ASSUME NEW o \in Openings, ledger = NewLedger(o)
        PROVE  /\ ledger.suspense = [t \in Trades |-> NoEntry]
               /\ ledger.journal.Suspense = 0
    BY <2>1 DEF NewLedger
  <2>2. ASSUME NEW o \in Openings, NEW c \in RestoredCash,
               ledger = ResetCashTo(NewLedger(o), c)
        PROVE  /\ ledger.suspense = [t \in Trades |-> NoEntry]
               /\ ledger.journal.Suspense = 0
    BY <2>2 DEF NewLedger, ResetCashTo
  <2> QED
    BY <2>1, <2>2 DEF Init
<1>2. PendingTrades(ledger) = {}
  BY <1>1 DEF PendingTrades, NoEntry, Pending
<1>3. SuspenseTotal(ledger) = 0
  BY <1>2, SuspenseSum, SumEmpty
<1> QED
  BY <1>1, <1>2, <1>3, FS_EmptySet DEF Backed

LEMMA StepKeepsBacked == IInv /\ Backed(ledger) /\ [Next]_vars => Backed(ledger')
<1> SUFFICES ASSUME IInv, Backed(ledger), [Next]_vars
             PROVE  Backed(ledger')
  OBVIOUS
<1> USE AmountsAssumption
<1>1. Sound(ledger) /\ ledger \in LedgerType
  BY DEF IInv, TypeOK, BooksBalance, RunningCoversJournal, Sound
<1>2. ASSUME NEW k \in Keys, NEW p \in Positions, NEW a \in Assets,
             Buy(k, p, a)
      PROVE  Backed(ledger')
  BY <1>1, <1>2, BuyLeavesSuspense DEF Buy
<1>3. ASSUME NEW k \in Keys, NEW p \in Positions, NEW a \in Assets,
             Sell(k, p, a)
      PROVE  Backed(ledger')
  BY <1>1, <1>3, SellLeavesSuspense DEF Sell
<1>4. ASSUME NEW p \in Positions, Rollback(p)
      PROVE  Backed(ledger')
  BY <1>1, <1>4, RollbackLeavesSuspense DEF Rollback
<1>5. ASSUME NEW p \in Positions, NEW a \in Assets, Reconcile(p, a)
      PROVE  Backed(ledger')
  <2>1. PICK shares \in Shares, price \in Prices, sign \in {1, -1} :
          ledger' = RecordReconciliationAdjustment(ledger, p, a,
                                                   sign * shares, price)
    BY <1>5 DEF Reconcile
  <2>2. sign * shares \in Int /\ price \in Nat
    OBVIOUS
  <2> QED
    BY <1>1, <2>1, <2>2, ReconcileLeavesSuspense
<1>6. ASSUME NEW t \in Trades, NEW p \in Positions, NEW a \in Assets,
             Match(t, p, a)
      PROVE  Backed(ledger')
  BY <1>1, <1>6, EnterKeepsBacked DEF Match
<1>7. ASSUME NEW t \in Trades, Confirm(t)
      PROVE  Backed(ledger')
  BY <1>1, <1>7, ConfirmKeepsBacked DEF Confirm
<1>8. ASSUME NEW t \in Trades, Retry(t)
      PROVE  Backed(ledger')
  BY <1>1, <1>8, RetryKeepsBacked DEF Retry
<1>9. ASSUME NEW t \in Trades, Fail(t)
      PROVE  Backed(ledger')
  BY <1>1, <1>9, FailKeepsBacked DEF Fail
<1>10. ASSUME UNCHANGED vars PROVE Backed(ledger')
  BY <1>10 DEF vars
<1> QED
  BY <1>2, <1>3, <1>4, <1>5, <1>6, <1>7, <1>8, <1>9, <1>10 DEF Next

\* The Suspense account holds exactly the money of the trades that are matched
\* or retrying, for any number of trades.
THEOREM SuspenseKept == Spec => []SuspenseBacked
<1>1. IInv /\ Backed(ledger) /\ [Next]_vars => IInv' /\ Backed(ledger)'
  BY StepPreserves, StepKeepsBacked
<1>2. Backed(ledger) => SuspenseBacked
  BY DEF Backed, SuspenseBacked
<1> QED
  BY InitSound, InitBacked, <1>1, <1>2, PTL DEF Spec

-----------------------------------------------------------------------------
\* The position manager: arithmetic of whole shares.

LEMMA Quotient ==
  ASSUME NEW b \in Nat, NEW d \in Nat, d > 0
  PROVE  /\ b \div d \in Nat
         /\ d * (b \div d) <= b /\ b < d * (b \div d) + d
<1> DEFINE q == b \div d
<1>1. q \in Int /\ d * q <= b /\ b < d * q + d
  OBVIOUS
<1> HIDE DEF q
<1>2. ~(q + 1 <= 0)
  <2>1. SUFFICES ASSUME q + 1 <= 0 PROVE FALSE
    OBVIOUS
  <2>2. d * (q + 1) <= 0 /\ d * (q + 1) = d * q + d
    BY <1>1, <2>1
  <2> QED
    BY <1>1, <2>2
<1>3. q \in Nat
  BY <1>1, <1>2
<1> QED
  BY <1>1, <1>3 DEF q

LEMMA WholeDivision ==
  ASSUME NEW n \in Nat, NEW c \in Nat, c > 0
  PROVE  (n * c) \div c = n
<1> DEFINE q == (n * c) \div c
<1>1. n * c \in Nat
  OBVIOUS
<1>2. q \in Int /\ c * q <= n * c /\ n * c < c * q + c
  BY <1>1, Quotient
<1> HIDE DEF q
<1>3. ~(q >= n + 1)
  <2>1. SUFFICES ASSUME q >= n + 1 PROVE FALSE
    OBVIOUS
  <2>2. c * q >= c * (n + 1)
    BY <1>2, <2>1
  <2>3. c * (n + 1) = n * c + c
    OBVIOUS
  <2> QED
    BY <1>1, <1>2, <2>2, <2>3
<1>4. ~(q + 1 <= n)
  <2>1. SUFFICES ASSUME q + 1 <= n PROVE FALSE
    OBVIOUS
  <2>2. c * (q + 1) <= c * n
    BY <1>2, <2>1
  <2>3. c * (q + 1) = c * q + c /\ c * n = n * c
    BY <1>2
  <2> QED
    BY <1>1, <1>2, <2>2, <2>3
<1>5. q = n
  BY <1>2, <1>3, <1>4
<1> QED
  BY <1>5 DEF q

\* A fee is a natural number and never more than the amount.
LEMMA FeeBounds ==
  ASSUME NEW x \in Nat
  PROVE  Fee(x) \in Nat /\ Fee(x) <= x
<1> DEFINE a == x * FeeNum
           q == a \div FeeDen
<1>1. /\ FeeNum \in Nat /\ FeeDen \in Nat /\ FeeDen > 0 /\ FeeNum <= FeeDen
  BY FeeAssumption, ManagerAssumption
<1>2. a \in Nat /\ a <= x * FeeDen
  BY <1>1
<1> HIDE DEF a
<1>3. q \in Nat /\ FeeDen * q <= a /\ a < FeeDen * q + FeeDen
  BY <1>1, <1>2, Quotient
<1> HIDE DEF q
<1>5. q <= x
  <2>1. SUFFICES ASSUME q >= x + 1 PROVE FALSE
    BY <1>3
  <2>2. FeeDen * q >= FeeDen * (x + 1)
    BY <1>1, <1>3, <2>1
  <2>3. FeeDen * (x + 1) = x * FeeDen + FeeDen
    BY <1>1
  <2>4. x * FeeDen \in Int /\ FeeDen * q \in Int
    BY <1>1, <1>3
  <2> QED
    BY <1>1, <1>2, <1>3, <2>2, <2>3, <2>4
<1>6. Fee(x) = q
  BY DEF Fee, q, a
<1> QED
  BY <1>3, <1>5, <1>6

LEMMA TotalNat ==
  ASSUME NEW f, \A m \in Markets : f[m] \in Nat
  PROVE  Total(f) \in Nat
  BY ManagerAssumption, SumNat DEF Total

\* What an order costs, with the fee.
LEMMA CostNat ==
  ASSUME NEW o \in Orders
  PROVE  /\ Cost(o) \in Nat /\ Fee(Cost(o)) \in Nat
         /\ Required(o) = Cost(o) + Fee(Cost(o))
<1>1. Cost(o) \in Nat
  BY OrdersAssumption, TotalNat DEF Cost, BuysWhole
<1> QED
  BY <1>1, FeeBounds DEF Required

\* The shares an order buys are worth what the leg paid.
LEMMA SharesBought ==
  ASSUME NEW o \in Orders, NEW m \in Markets
  PROVE  /\ SidePrice(o, m) \in Nat \ {0} /\ BoughtShares(o, m) \in Nat
         /\ o.bet[m] = BoughtShares(o, m) * SidePrice(o, m)
<1> DEFINE c == SidePrice(o, m)
<1>1. c \in Nat /\ c > 0 /\ o.bet[m] \in Nat
  BY OrdersAssumption DEF SidePrice, BuysWhole
<1>2. PICK n \in 0..o.bet[m] : o.bet[m] = n * c
  BY OrdersAssumption DEF BuysWhole
<1>3. BoughtShares(o, m) = o.bet[m] \div c
  BY <1>1 DEF BoughtShares
<1>4. n \in Nat
  BY <1>1
<1> HIDE DEF c
<1>5. (n * c) \div c = n
  BY <1>1, <1>4, WholeDivision
<1>6. BoughtShares(o, m) = n
  BY <1>2, <1>3, <1>5
<1> QED
  BY <1>1, <1>2, <1>4, <1>6 DEF c

-----------------------------------------------------------------------------
\* Positions.

LEMMA NoPositionIsNone == NoPosition \notin Position
  BY DEF NoPosition, Position

\* The bet of a leg is its shares at one price, the YES price when YES is held.
LegFits(sell, leg) ==
  \E c \in Nat \ {0} : leg.bet = leg.shares * c /\ (~sell => c = leg.price)

Whole(pos) == /\ pos \in Position /\ pos.payout >= 0
              /\ \A m \in Markets : LegFits(pos.sell, pos.legs[m])

LEMMA PositionFields ==
  ASSUME NEW pos \in Position
  PROVE  /\ pos.sell \in BOOLEAN /\ pos.legs \in [Markets -> Leg]
         /\ pos.capital \in Nat /\ pos.fees \in Nat /\ pos.expected \in Int
         /\ pos.payout \in Int /\ pos.profit \in Int
  BY DEF Position

LEMMA LegFields ==
  ASSUME NEW leg \in Leg
  PROVE  /\ leg.price \in Nat /\ leg.bet \in Nat /\ leg.shares \in Nat
         /\ leg.actual \in Nat /\ leg.fill \in FillStatus
  BY DEF Leg

\* The YES shares computed from bet and price are the shares held.
LEMMA YesSharesHeld ==
  ASSUME NEW leg \in Leg, LegFits(FALSE, leg)
  PROVE  YesShares(leg) = leg.shares
<1>1. /\ leg.price \in Nat /\ leg.price > 0 /\ leg.bet = leg.shares * leg.price
      /\ leg.shares \in Nat
  BY LegFields DEF LegFits
<1>2. (leg.shares * leg.price) \div leg.price = leg.shares
  BY <1>1, WholeDivision
<1> QED
  BY <1>1, <1>2 DEF YesShares

\* A NO leg without shares counts none.
LEMMA NothingComplement ==
  ASSUME NEW leg \in Leg, LegFits(TRUE, leg), leg.shares = 0
  PROVE  ComplementShares(leg) = 0
<1>1. leg.bet = 0
  BY DEF LegFits
<1>2. ASSUME leg.price < Unit PROVE 0 \div (Unit - leg.price) = 0
  <2>1. Unit - leg.price \in Nat /\ Unit - leg.price > 0
    BY <1>2, LegFields, FeeAssumption
  <2>2. 0 * (Unit - leg.price) = 0
    BY <2>1
  <2> QED
    BY <2>1, <2>2, WholeDivision
<1> QED
  BY <1>1, <1>2 DEF ComplementShares

\* Without a spread the NO shares computed from bet and price are those held.
LEMMA ComplementHeld ==
  ASSUME NEW leg \in Leg, LegFits(TRUE, leg),
         leg.bet = leg.shares * (Unit - leg.price)
  PROVE  ComplementShares(leg) = leg.shares
<1> DEFINE d == Unit - leg.price
<1>1. leg.shares \in Nat /\ leg.bet \in Nat /\ leg.price \in Nat /\ d \in Int
  BY LegFields, FeeAssumption
<1>2. leg.price < Unit <=> d > 0
  BY <1>1, FeeAssumption
<1>3. leg.bet = leg.shares * d /\ (d > 0 => ComplementShares(leg) = leg.bet \div d)
      /\ (~(d > 0) => ComplementShares(leg) = 0)
  BY <1>2 DEF ComplementShares
<1> HIDE DEF d
<1>4. CASE d > 0
  <2>1. (leg.shares * d) \div d = leg.shares
    BY <1>1, <1>4, WholeDivision
  <2> QED
    BY <1>3, <1>4, <2>1
<1>5. CASE ~(d > 0)
  <2>1. PICK c \in Nat \ {0} : leg.bet = leg.shares * c
    BY DEF LegFits
  <2>2. leg.shares = 0
    <3>1. SUFFICES ASSUME leg.shares > 0 PROVE FALSE
      BY <1>1
    <3>2. leg.shares * c > 0
      BY <1>1, <2>1, <3>1
    <3>3. leg.shares * d <= 0
      BY <1>1, <1>5, <3>1
    <3>4. leg.bet > 0
      BY <2>1, <3>2
    <3>5. leg.bet <= 0
      BY <1>3, <3>3
    <3> QED
      BY <1>1, <3>4, <3>5
  <2> QED
    BY <1>3, <1>5, <2>2
<1> QED
  BY <1>4, <1>5

-----------------------------------------------------------------------------
\* What a position pays.

\* The payout at resolution is a payment for each share that wins.
LEMMA PayoutOfShares ==
  ASSUME NEW pos, Whole(pos), NEW w \in Markets
  PROVE  /\ pos.sell => ResolutionPayout(pos, w)
                          = SumFunction([m \in Markets \ {w} |-> pos.legs[m].shares * Unit])
         /\ ~pos.sell => ResolutionPayout(pos, w) = pos.legs[w].shares * Unit
<1>1. /\ pos \in Position /\ pos.sell \in BOOLEAN /\ pos.legs \in [Markets -> Leg]
      /\ \A m \in Markets : LegFits(pos.sell, pos.legs[m])
  BY PositionFields DEF Whole
<1>2. CASE pos.sell
  <2> DEFINE f == [m \in Markets \ {w} |-> IF pos.legs[m].shares > 0
                                           THEN pos.legs[m].shares * Unit
                                           ELSE ComplementShares(pos.legs[m]) * Unit]
             g == [m \in Markets \ {w} |-> pos.legs[m].shares * Unit]
  <2>1. ASSUME NEW m \in Markets \ {w} PROVE f[m] = g[m]
    <3> DEFINE leg == pos.legs[m]
    <3>1. leg \in Leg /\ LegFits(TRUE, leg) /\ leg.shares \in Nat
      BY <1>1, <1>2, LegFields
    <3>2. ~(leg.shares > 0) => leg.shares = 0
      BY <3>1
    <3>3. ~(leg.shares > 0) => ComplementShares(leg) = 0
      BY <3>1, <3>2, NothingComplement
    <3> QED
      BY <3>2, <3>3
  <2>2. f = g
    BY <2>1
  <2>3. ResolutionPayout(pos, w) = SumFunction(f)
    BY <1>2 DEF ResolutionPayout
  <2> HIDE DEF f, g
  <2>4. ResolutionPayout(pos, w) = SumFunction(g)
    BY <2>2, <2>3
  <2> QED
    BY <1>2, <2>4 DEF g
<1>3. CASE ~pos.sell
  <2>1. pos.legs[w] \in Leg /\ LegFits(FALSE, pos.legs[w])
    BY <1>1, <1>3
  <2> QED
    BY <1>3, <2>1, YesSharesHeld DEF ResolutionPayout
<1> QED
  BY <1>2, <1>3

LEMMA PayoutNat ==
  ASSUME NEW pos, Whole(pos), NEW w \in Markets
  PROVE  ResolutionPayout(pos, w) \in Nat
<1>1. pos.legs \in [Markets -> Leg] /\ Unit \in Nat /\ pos.sell \in BOOLEAN
  BY PositionFields, FeeAssumption DEF Whole
<1>2. \A m \in Markets : pos.legs[m].shares * Unit \in Nat
  BY <1>1, LegFields
<1>3. CASE pos.sell
  <2> DEFINE S == Markets \ {w}
             g == [m \in S |-> pos.legs[m].shares * Unit]
  <2>1. IsFiniteSet(S)
    BY ManagerAssumption, FS_Subset
  <2>2. \A m \in S : g[m] \in Nat
    BY <1>2
  <2>3. ResolutionPayout(pos, w) = SumFunctionOnSet(g, S)
    BY <1>3, PayoutOfShares DEF SumFunction
  <2> HIDE DEF S, g
  <2> QED
    BY <2>1, <2>2, <2>3, SumNat
<1>4. CASE ~pos.sell
  BY <1>2, <1>4, PayoutOfShares
<1> QED
  BY <1>1, <1>3, <1>4

\* A position bought without a spread sells on paper for what its shares pay.
LEMMA PaperSale ==
  ASSUME NEW pos, Whole(pos), ~PaidSpread(pos), NEW m \in Markets
  PROVE  EstimatedShares(pos, m) = pos.legs[m].shares
<1>1. /\ pos.sell \in BOOLEAN /\ pos.legs[m] \in Leg
      /\ LegFits(pos.sell, pos.legs[m])
  BY PositionFields DEF Whole
<1>2. CASE pos.sell
  <2>1. pos.legs[m].bet = pos.legs[m].shares * (Unit - pos.legs[m].price)
    BY <1>2 DEF PaidSpread
  <2>2. LegFits(TRUE, pos.legs[m])
    BY <1>1, <1>2
  <2> QED
    BY <1>1, <1>2, <2>1, <2>2, ComplementHeld DEF EstimatedShares
<1>3. CASE ~pos.sell
  <2>1. LegFits(FALSE, pos.legs[m])
    BY <1>1, <1>3
  <2> QED
    BY <1>1, <1>3, <2>1, YesSharesHeld DEF EstimatedShares
<1> QED
  BY <1>1, <1>2, <1>3

\* Any sale on paper pays a natural number of ticks.
LEMMA NetNat ==
  ASSUME NEW pos, Whole(pos), NEW bids \in [Markets -> Nat]
  PROVE  NetProceeds(pos, bids) \in Nat
<1> DEFINE f == [m \in Markets |-> EstimatedShares(pos, m) * bids[m]]
<1>1. ASSUME NEW m \in Markets PROVE EstimatedShares(pos, m) \in Nat
  <2> DEFINE leg == pos.legs[m]
  <2>1. /\ leg \in Leg /\ leg.price \in Nat /\ leg.bet \in Nat /\ Unit \in Nat
        /\ pos.sell \in BOOLEAN
    BY PositionFields, LegFields, FeeAssumption DEF Whole
  <2>2. ASSUME NEW d \in Nat, d > 0 PROVE leg.bet \div d \in Nat
    BY <2>1, <2>2, Quotient
  <2>3. YesShares(leg) \in Nat
    BY <2>1, <2>2 DEF YesShares
  <2>4. ComplementShares(leg) \in Nat
    <3>1. leg.price < Unit => Unit - leg.price \in Nat /\ Unit - leg.price > 0
      BY <2>1
    <3> QED
      BY <2>1, <2>2, <3>1 DEF ComplementShares
  <2> QED
    BY <2>1, <2>3, <2>4 DEF EstimatedShares
<1>2. \A m \in Markets : f[m] \in Nat
  BY <1>1
<1>3. SaleProceeds(pos, bids) = Total(f)
  BY DEF SaleProceeds
<1> HIDE DEF f
<1>4. SaleProceeds(pos, bids) \in Nat
  BY <1>2, <1>3, TotalNat
<1>5. /\ Fee(SaleProceeds(pos, bids)) \in Nat
      /\ Fee(SaleProceeds(pos, bids)) <= SaleProceeds(pos, bids)
  BY <1>4, FeeBounds
<1> QED
  BY <1>4, <1>5 DEF NetProceeds

-----------------------------------------------------------------------------
\* Exit fills.

\* Fills of no more than what each leg of pos has.
FillsOf(pos, fills) ==
  \A m \in Markets : /\ fills[m].shares \in Nat /\ fills[m].price \in Nat
                     /\ fills[m].shares <= pos.legs[m].shares

LEMMA LegExit ==
  ASSUME NEW sell \in BOOLEAN, NEW leg \in Leg, LegFits(sell, leg), NEW fill,
         fill.shares \in Nat, fill.shares <= leg.shares
  PROVE  /\ LegAfterExit(leg, fill) \in Leg
         /\ LegFits(sell, LegAfterExit(leg, fill))
         /\ LegAfterExit(leg, fill).shares = leg.shares - fill.shares
         /\ Cleared(leg, fill) = fill.shares
         /\ CostCleared(leg, fill) \in Nat
<1> DEFINE s == leg.shares
           k == fill.shares
<1>1. s \in Nat /\ k \in Nat /\ k <= s /\ leg.bet \in Nat /\ leg.price \in Nat
  BY LegFields
<1>2. PICK c \in Nat \ {0} : leg.bet = s * c /\ (~sell => c = leg.price)
  BY DEF LegFits
<1>3. Cleared(leg, fill) = k
  BY <1>1 DEF Cleared
<1>4. CostCleared(leg, fill) = k * c
  <2>1. CASE s > 0
    <3>1. (leg.bet * k) \div s = k * c
      <4> HIDE DEF s, k
      <4>1. leg.bet * k = (k * c) * s /\ k * c \in Nat
        BY <1>1, <1>2
      <4> QED
        BY <1>1, <2>1, <4>1, WholeDivision
    <3> QED
      BY <1>3, <2>1, <3>1 DEF CostCleared
  <2>2. CASE ~(s > 0)
    <3>1. k = 0 /\ k * c = 0
      BY <1>1, <2>2
    <3> QED
      BY <2>2, <3>1 DEF CostCleared
  <2> QED
    BY <2>1, <2>2
<1>5. Positive(leg.bet - CostCleared(leg, fill)) = (s - k) * c
  <2> DEFINE b == leg.bet
  <2> HIDE DEF s, k, b
  <2>1. b - k * c = (s - k) * c /\ (s - k) * c \in Nat
    BY <1>1, <1>2 DEF b
  <2>2. Positive(b - k * c) = b - k * c
    BY <2>1 DEF Positive
  <2> QED
    BY <1>4, <2>1, <2>2 DEF b
<1>6. LegAfterExit(leg, fill)
        = [leg EXCEPT !.shares = s - k, !.bet = (s - k) * c]
  BY <1>3, <1>5 DEF LegAfterExit, Leg
<1>7. s - k \in Nat /\ (s - k) * c \in Nat /\ k * c \in Nat
  BY <1>1, <1>2
<1> HIDE DEF s, k
<1>8. /\ LegAfterExit(leg, fill) \in Leg
      /\ LegAfterExit(leg, fill).shares = s - k
      /\ LegAfterExit(leg, fill).bet = (s - k) * c
      /\ LegAfterExit(leg, fill).price = leg.price
  BY <1>6, <1>7 DEF Leg
<1>9. LegFits(sell, LegAfterExit(leg, fill))
  BY <1>2, <1>8 DEF LegFits
<1> QED
  BY <1>3, <1>4, <1>7, <1>8, <1>9 DEF s, k

\* The fees of an exit are no more than what it sells for.
LEMMA ExitMoney ==
  ASSUME NEW pos, Whole(pos), NEW fills, FillsOf(pos, fills)
  PROVE  /\ ExitFees(pos, fills) \in Nat /\ ExitProceeds(pos, fills) \in Nat
         /\ ExitCost(pos, fills) \in Nat
<1> DEFINE fee == [m \in Markets |-> Fee(Gross(pos.legs[m], fills[m]))]
           gross == [m \in Markets |-> Gross(pos.legs[m], fills[m])]
           cost == [m \in Markets |-> CostCleared(pos.legs[m], fills[m])]
<1>1. ASSUME NEW m \in Markets
      PROVE  gross[m] \in Nat /\ fee[m] \in Nat /\ fee[m] <= gross[m] /\ cost[m] \in Nat
  <2>1. /\ pos.sell \in BOOLEAN /\ pos.legs[m] \in Leg
        /\ LegFits(pos.sell, pos.legs[m])
    BY PositionFields DEF Whole
  <2>2. /\ Cleared(pos.legs[m], fills[m]) = fills[m].shares
        /\ CostCleared(pos.legs[m], fills[m]) \in Nat
    BY <2>1, LegExit DEF FillsOf
  <2>3. Gross(pos.legs[m], fills[m]) \in Nat
    BY <2>2 DEF Gross, FillsOf
  <2> QED
    BY <2>2, <2>3, FeeBounds
<1>2. /\ ExitFees(pos, fills) = Total(fee) /\ ExitCost(pos, fills) = Total(cost)
      /\ ExitProceeds(pos, fills) = Total(gross) - Total(fee)
  BY DEF ExitFees, ExitCost, ExitProceeds
<1> HIDE DEF fee, gross, cost
<1>3. Total(fee) \in Nat /\ Total(gross) \in Nat /\ Total(cost) \in Nat
  BY <1>1, TotalNat
<1>4. Total(fee) <= Total(gross)
  BY <1>1, SumOrder, ManagerAssumption DEF Total
<1> QED
  BY <1>2, <1>3, <1>4

\* What an exit leaves of a position.
LEMMA ExitKeepsWhole ==
  ASSUME NEW pos, Whole(pos), NEW fills, FillsOf(pos, fills)
  PROVE  /\ Whole(PositionAfterExit(pos, fills))
         /\ PositionAfterExit(pos, fills).payout = pos.payout + ExitProceeds(pos, fills)
         /\ \A m \in Markets : PositionAfterExit(pos, fills).legs[m].shares
                                 = pos.legs[m].shares - fills[m].shares
<1> DEFINE P == ExitProceeds(pos, fills)
           C == ExitCost(pos, fills)
           F == ExitFees(pos, fills)
           legs == [m \in Markets |-> LegAfterExit(pos.legs[m], fills[m])]
           Q == PositionAfterExit(pos, fills)
<1>1. P \in Nat /\ C \in Nat /\ F \in Nat
  BY ExitMoney
<1>2. /\ pos \in Position /\ pos.payout >= 0 /\ pos.sell \in BOOLEAN
      /\ pos.capital \in Nat /\ pos.fees \in Nat /\ pos.expected \in Int
      /\ pos.payout \in Int /\ pos.profit \in Int
  BY PositionFields DEF Whole
<1>3. \A m \in Markets : /\ legs[m] \in Leg /\ LegFits(pos.sell, legs[m])
                         /\ legs[m].shares = pos.legs[m].shares - fills[m].shares
  BY PositionFields, LegExit DEF Whole, FillsOf
<1>4. legs \in [Markets -> Leg]
  BY <1>3
<1>5. Q = [pos EXCEPT !.legs = legs, !.payout = pos.payout + P,
                      !.profit = pos.profit + (P - C), !.fees = pos.fees + F,
                      !.capital = Positive(pos.capital - C)]
  BY <1>2 DEF PositionAfterExit, Position
<1>6. Positive(pos.capital - C) \in Nat
  BY <1>1, <1>2 DEF Positive
<1> HIDE DEF P, C, F, legs, Q
<1>7. Q \in Position
  <2> DEFINE payout == pos.payout + P
             profit == pos.profit + (P - C)
             fees == pos.fees + F
             capital == Positive(pos.capital - C)
  <2>1. payout \in Int /\ profit \in Int /\ fees \in Nat /\ capital \in Nat
    BY <1>1, <1>2, <1>6
  <2>2. Q = [pos EXCEPT !.legs = legs, !.payout = payout, !.profit = profit,
                        !.fees = fees, !.capital = capital]
    BY <1>5
  <2> HIDE DEF payout, profit, fees, capital
  <2> QED
    BY <1>2, <1>4, <2>1, <2>2 DEF Position
<1>8. /\ Q.sell = pos.sell /\ Q.legs = legs /\ Q.payout = pos.payout + P
  BY <1>2, <1>5 DEF Position
<1>9. Whole(Q)
  BY <1>1, <1>2, <1>3, <1>7, <1>8 DEF Whole
<1> QED
  BY <1>3, <1>8, <1>9 DEF P, Q

-----------------------------------------------------------------------------
\* The manager's record.

\* What is true of the manager at any time.
Booked(L) == /\ L \in Manager /\ IsFiniteSet(OpenPids(L))
             /\ \A pid \in OpenPids(L) : Whole(L.open[pid])

ProfitSum(closed) == SumFunction([i \in DOMAIN closed |-> closed[i].pos.profit])
Stakes(L) ==
  SumFunction([pid \in OpenPids(L) |-> L.open[pid].capital + L.open[pid].fees])

\* What is true of it when no position is left by exit fills.
Paper(L) == /\ L.profit = ProfitSum(L.closed)
            /\ L.capital + Stakes(L) = L.initial + L.profit

LEMMA ManagerFields ==
  ASSUME NEW L \in Manager
  PROVE  /\ L.capital \in Nat /\ L.initial \in Nat /\ L.profit \in Int
         /\ L.expected \in Int /\ L.trades \in Nat /\ L.wins \in Nat
         /\ L.losses \in Nat /\ L.open \in [Pids -> Position \cup {NoPosition}]
         /\ L.closed \in Seq([pid: Pids, pos: Position])
  BY DEF Manager

LEMMA OpenPosition ==
  ASSUME NEW L \in Manager, NEW pid \in OpenPids(L)
  PROVE  pid \in Pids /\ L.open[pid] \in Position
  BY ManagerFields DEF OpenPids, IsOpen

LEMMA StakeNat ==
  ASSUME NEW L \in Manager, NEW pid \in OpenPids(L)
  PROVE  L.open[pid].capital + L.open[pid].fees \in Nat
  BY OpenPosition, PositionFields

LEMMA StakesInt ==
  ASSUME NEW L \in Manager, IsFiniteSet(OpenPids(L))
  PROVE  Stakes(L) \in Int
<1> DEFINE f == [pid \in OpenPids(L) |-> L.open[pid].capital + L.open[pid].fees]
<1>1. \A pid \in OpenPids(L) : f[pid] \in Int
  BY StakeNat
<1>2. Stakes(L) = SumFunctionOnSet(f, OpenPids(L))
  BY DEF Stakes, SumFunction
<1> HIDE DEF f
<1> QED
  BY <1>1, <1>2, SumType

\* A manager with one position more than another.
LEMMA OneMoreStake ==
  ASSUME NEW L \in Manager, NEW M \in Manager, NEW pid \in Pids,
         pid \notin OpenPids(L), OpenPids(M) = OpenPids(L) \cup {pid},
         \A p \in OpenPids(L) : M.open[p] = L.open[p], IsFiniteSet(OpenPids(M))
  PROVE  Stakes(M) = Stakes(L) + (M.open[pid].capital + M.open[pid].fees)
<1> DEFINE f == [p \in OpenPids(L) |-> L.open[p].capital + L.open[p].fees]
           g == [p \in OpenPids(M) |-> M.open[p].capital + M.open[p].fees]
           A == OpenPids(L)
           B == OpenPids(M)
           x == M.open[pid].capital + M.open[pid].fees
<1>1. /\ \A p \in A : f[p] \in Int /\ g[p] = f[p]
      /\ \A p \in B : g[p] \in Int
      /\ pid \in B /\ g[pid] = x /\ x \in Int
  BY StakeNat
<1>2. B \ {pid} = A /\ IsFiniteSet(A) /\ IsFiniteSet(B)
  BY FS_Subset
<1>3. /\ Stakes(L) = SumFunctionOnSet(f, A)
      /\ Stakes(M) = SumFunctionOnSet(g, B)
  BY DEF Stakes, SumFunction
<1> HIDE DEF f, g, A, B, x
<1>4. SumFunctionOnSet(g, B) = g[pid] + SumFunctionOnSet(g, B \ {pid})
  BY <1>1, <1>2, SumRemove
<1>5. SumFunctionOnSet(g, B \ {pid}) = SumFunctionOnSet(f, A)
  BY <1>1, <1>2, SumSame
<1>6. SumFunctionOnSet(f, A) \in Int
  BY <1>1, <1>2, SumType
<1>7. Stakes(M) = Stakes(L) + x
  BY <1>1, <1>3, <1>4, <1>5, <1>6
<1> QED
  BY <1>7 DEF x

LEMMA ProfitAppended ==
  ASSUME NEW closed \in Seq([pid: Pids, pos: Position]),
         NEW c \in [pid: Pids, pos: Position]
  PROVE  /\ ProfitSum(closed) \in Int
         /\ ProfitSum(Append(closed, c)) = ProfitSum(closed) + c.pos.profit
<1> DEFINE n == Len(closed)
           more == Append(closed, c)
           f == [i \in DOMAIN closed |-> closed[i].pos.profit]
           g == [i \in DOMAIN more |-> more[i].pos.profit]
           A == 1..n
           B == 1..(n + 1)
<1>1. /\ n \in Nat /\ DOMAIN closed = A /\ DOMAIN more = B
      /\ \A i \in A : more[i] = closed[i] /\ closed[i] \in [pid: Pids, pos: Position]
      /\ more[n + 1] = c
  <2> DEFINE T == [pid: Pids, pos: Position]
  <2>1. closed \in Seq(T) /\ c \in T
    OBVIOUS
  <2> HIDE DEF T
  <2>2. n \in Nat /\ DOMAIN closed = A
    BY <2>1
  <2>3. \A i \in A : closed[i] \in T
    BY <2>1
  <2>4. Len(more) = n + 1 /\ more \in Seq(T)
    BY <2>1
  <2>5. DOMAIN more = B
    BY <2>4
  <2>6. \A i \in A : more[i] = closed[i]
    BY <2>1
  <2>7. more[n + 1] = c
    BY <2>1
  <2> QED
    BY <2>2, <2>3, <2>5, <2>6, <2>7 DEF T
<1>2. c.pos.profit \in Int /\ \A i \in A : closed[i].pos.profit \in Int
  BY <1>1, PositionFields
<1>3. /\ ProfitSum(closed) = SumFunctionOnSet(f, A)
      /\ ProfitSum(more) = SumFunctionOnSet(g, B)
  BY <1>1 DEF ProfitSum, SumFunction
<1>4. B \ {n + 1} = A /\ n + 1 \in B /\ IsFiniteSet(A) /\ IsFiniteSet(B)
  <2>1. n \in Nat
    BY <1>1
  <2> HIDE DEF n
  <2>2. B \ {n + 1} = A /\ n + 1 \in B
    BY <2>1
  <2> QED
    BY <2>1, <2>2, FS_Interval
<1>5. /\ \A i \in A : f[i] \in Int /\ g[i] = f[i]
      /\ g[n + 1] = c.pos.profit /\ \A i \in B : g[i] \in Int
  <2>1. \A i \in A : f[i] \in Int /\ i \in B /\ g[i] = f[i]
    BY <1>1, <1>2, <1>4
  <2>2. g[n + 1] = c.pos.profit
    BY <1>1, <1>4
  <2> QED
    BY <1>2, <1>4, <2>1, <2>2
<1> HIDE DEF n, f, g, A, B, more
<1>6. SumFunctionOnSet(g, B) = g[n + 1] + SumFunctionOnSet(g, B \ {n + 1})
  BY <1>4, <1>5, SumRemove
<1>7. SumFunctionOnSet(g, B \ {n + 1}) = SumFunctionOnSet(f, A)
  BY <1>4, <1>5, SumSame
<1>8. SumFunctionOnSet(f, A) \in Int
  BY <1>4, <1>5, SumType
<1>9. ProfitSum(more) = ProfitSum(closed) + c.pos.profit
  BY <1>2, <1>3, <1>5, <1>6, <1>7, <1>8
<1> QED
  BY <1>3, <1>8, <1>9 DEF more

-----------------------------------------------------------------------------
\* Entering.

LEMMA EnteredPosition ==
  ASSUME NEW L \in Manager, NEW pid \in Pids, NEW o \in Orders, CanEnter(L, o)
  PROVE  LET M == EnterPosition(L, pid, o)
         IN /\ M \in Manager /\ Whole(M.open[pid])
            /\ M.capital = L.capital - Required(o)
            /\ M.initial = L.initial /\ M.profit = L.profit /\ M.closed = L.closed
            /\ M.open = [L.open EXCEPT ![pid] = M.open[pid]]
            /\ M.open[pid].capital = Cost(o) /\ M.open[pid].fees = Fee(Cost(o))
            /\ \A m \in Markets : M.open[pid].legs[m].shares = BoughtShares(o, m)
<1> DEFINE legs == [m \in Markets |->
                      [price |-> o.price[m], bet |-> o.bet[m],
                       shares |-> BoughtShares(o, m),
                       actual |-> 0, fill |-> "pending"]]
           cost == Cost(o)
           fee == Fee(Cost(o))
           pos == [sell |-> o.sell, legs |-> legs, capital |-> cost, fees |-> fee,
                   expected |-> o.expected, payout |-> 0, profit |-> 0]
           left == L.capital - Required(o)
           expected == L.expected + o.expected
           M == EnterPosition(L, pid, o)
<1>1. cost \in Nat /\ fee \in Nat /\ Required(o) = cost + fee
  BY CostNat
<1>2. /\ o.sell \in BOOLEAN /\ o.expected \in Int
      /\ \A m \in Markets : o.price[m] \in Nat /\ o.bet[m] \in Nat
  BY OrdersAssumption DEF BuysWhole
<1>3. ASSUME NEW m \in Markets
      PROVE  /\ legs[m] \in Leg /\ LegFits(o.sell, legs[m])
             /\ legs[m].shares = BoughtShares(o, m)
  <2>1. /\ SidePrice(o, m) \in Nat \ {0} /\ BoughtShares(o, m) \in Nat
        /\ o.bet[m] = BoughtShares(o, m) * SidePrice(o, m)
    BY SharesBought
  <2>2. legs[m] \in Leg
    BY <1>2, <2>1 DEF Leg, FillStatus
  <2>3. /\ legs[m].bet = legs[m].shares * SidePrice(o, m)
        /\ ~o.sell => SidePrice(o, m) = legs[m].price
    BY <2>1 DEF SidePrice
  <2> QED
    BY <2>1, <2>2, <2>3 DEF LegFits
<1>4. legs \in [Markets -> Leg]
  BY <1>3
<1>5. left \in Nat /\ expected \in Int /\ L.trades + 1 \in Nat
  BY <1>1, <1>2, ManagerFields DEF CanEnter
<1>6. M = [L EXCEPT !.capital = left, !.trades = L.trades + 1,
                    !.expected = expected, !.open[pid] = pos]
  BY DEF EnterPosition, Manager
<1> HIDE DEF legs, cost, fee, left, expected, M
<1>7. pos \in Position /\ Whole(pos)
  <2>1. pos \in Position
    BY <1>1, <1>2, <1>4 DEF Position
  <2> QED
    BY <1>3, <2>1 DEF Whole
<1>8. [L.open EXCEPT ![pid] = pos] \in [Pids -> Position \cup {NoPosition}]
  BY <1>7, ManagerFields
<1>9. /\ M \in Manager /\ M.capital = left
      /\ M.initial = L.initial /\ M.profit = L.profit /\ M.closed = L.closed
      /\ M.open = [L.open EXCEPT ![pid] = pos]
  <2> HIDE DEF pos
  <2> QED
    BY <1>5, <1>6, <1>8 DEF Manager
<1>10. M.open[pid] = pos
  BY <1>9, ManagerFields
<1> QED
  BY <1>3, <1>7, <1>9, <1>10 DEF M, left, cost, fee

LEMMA EnterKeeps ==
  ASSUME NEW L, Booked(L), NEW pid \in Pids, ~IsOpen(L, pid), NEW o \in Orders,
         CanEnter(L, o)
  PROVE  LET M == EnterPosition(L, pid, o)
         IN /\ Booked(M) /\ OpenPids(M) = OpenPids(L) \cup {pid}
            /\ \A p \in OpenPids(L) : M.open[p] = L.open[p]
            /\ Paper(L) => Paper(M)
<1> DEFINE M == EnterPosition(L, pid, o)
<1>1. /\ L \in Manager /\ IsFiniteSet(OpenPids(L))
      /\ \A p \in OpenPids(L) : Whole(L.open[p])
  BY DEF Booked
<1>2. /\ M \in Manager /\ Whole(M.open[pid])
      /\ M.capital = L.capital - Required(o)
      /\ M.initial = L.initial /\ M.profit = L.profit /\ M.closed = L.closed
      /\ M.open = [L.open EXCEPT ![pid] = M.open[pid]]
      /\ M.open[pid].capital = Cost(o) /\ M.open[pid].fees = Fee(Cost(o))
  BY <1>1, EnteredPosition
<1> HIDE DEF M
<1>3. M.open[pid] # NoPosition
  BY <1>2, NoPositionIsNone DEF Whole
<1>4. /\ OpenPids(M) = OpenPids(L) \cup {pid} /\ pid \notin OpenPids(L)
      /\ \A p \in OpenPids(L) : M.open[p] = L.open[p]
  BY <1>1, <1>2, <1>3, ManagerFields DEF OpenPids, IsOpen
<1>5. IsFiniteSet(OpenPids(M))
  BY <1>1, <1>4, FS_AddElement
<1>6. Booked(M)
  BY <1>1, <1>2, <1>4, <1>5 DEF Booked
<1>7. ASSUME Paper(L) PROVE Paper(M)
  <2>1. Stakes(M) = Stakes(L) + (M.open[pid].capital + M.open[pid].fees)
    BY <1>1, <1>2, <1>4, <1>5, OneMoreStake
  <2>2. /\ Cost(o) \in Nat /\ Fee(Cost(o)) \in Nat
        /\ Required(o) = Cost(o) + Fee(Cost(o))
    BY CostNat
  <2>3. /\ L.capital \in Int /\ L.initial \in Int /\ L.profit \in Int
        /\ Stakes(L) \in Int
    BY <1>1, ManagerFields, StakesInt
  <2>4. M.capital + Stakes(M) = M.initial + M.profit
    BY <1>2, <1>7, <2>1, <2>2, <2>3 DEF Paper
  <2> QED
    BY <1>2, <1>7, <2>4 DEF Paper
<1> QED
  BY <1>4, <1>6, <1>7 DEF M

-----------------------------------------------------------------------------
\* Closing and selling in part.

\* What a close of pid as pos makes of L.
ClosesTo(L, M, pid, pos, credit, gain) ==
  /\ M \in Manager
  /\ M.capital = L.capital + credit /\ M.profit = L.profit + gain
  /\ M.initial = L.initial
  /\ M.open = [L.open EXCEPT ![pid] = NoPosition]
  /\ M.closed = Append(L.closed, [pid |-> pid, pos |-> pos])

LEMMA ClosedManager ==
  ASSUME NEW L \in Manager, NEW pid \in Pids, NEW pos \in Position,
         NEW credit \in Nat, NEW gain \in Int
  PROVE  ClosesTo(L, Close(L, pid, pos, credit, gain), pid, pos, credit, gain)
<1> DEFINE capital == L.capital + credit
           profit == L.profit + gain
           wins == L.wins + (IF gain > 0 THEN 1 ELSE 0)
           losses == L.losses + (IF gain < 0 THEN 1 ELSE 0)
           open == [L.open EXCEPT ![pid] = NoPosition]
           c == [pid |-> pid, pos |-> pos]
           closed == Append(L.closed, c)
           M == Close(L, pid, pos, credit, gain)
<1>1. /\ capital \in Nat /\ profit \in Int /\ wins \in Nat /\ losses \in Nat
      /\ L.initial \in Nat /\ L.expected \in Int /\ L.trades \in Nat
  BY ManagerFields
<1>2. open \in [Pids -> Position \cup {NoPosition}]
  BY ManagerFields
<1>3. closed \in Seq([pid: Pids, pos: Position])
  <2> DEFINE T == [pid: Pids, pos: Position]
  <2>1. c \in T /\ L.closed \in Seq(T)
    BY ManagerFields
  <2> HIDE DEF c, T
  <2>2. closed \in Seq(T)
    BY <2>1
  <2> QED
    BY <2>2 DEF T
<1>4. M = [L EXCEPT !.capital = capital, !.profit = profit, !.wins = wins,
                    !.losses = losses, !.open = open, !.closed = closed]
  BY DEF Close, Manager
<1> HIDE DEF capital, profit, wins, losses, open, closed, M
<1>5. /\ M \in Manager /\ M.capital = capital /\ M.profit = profit
      /\ M.initial = L.initial /\ M.open = open /\ M.closed = closed
  BY <1>1, <1>2, <1>3, <1>4 DEF Manager
<1> QED
  BY <1>5 DEF ClosesTo, M, capital, profit, open, closed, c

\* A close credits credit and books gain; on paper they part by the stake.
LEMMA CloseKeeps ==
  ASSUME NEW L, Booked(L), NEW pid \in OpenPids(L), NEW pos \in Position,
         NEW credit \in Nat, NEW gain \in Int
  PROVE  LET M == Close(L, pid, pos, credit, gain)
         IN /\ Booked(M) /\ M.capital = L.capital + credit
            /\ OpenPids(M) = OpenPids(L) \ {pid}
            /\ \A p \in OpenPids(M) : M.open[p] = L.open[p]
            /\ (/\ Paper(L) /\ pos.profit = gain
                /\ gain = credit - (L.open[pid].capital + L.open[pid].fees))
                 => Paper(M)
<1> DEFINE M == Close(L, pid, pos, credit, gain)
           c == [pid |-> pid, pos |-> pos]
           stake == L.open[pid].capital + L.open[pid].fees
<1>1. /\ L \in Manager /\ IsFiniteSet(OpenPids(L)) /\ pid \in Pids
      /\ \A p \in OpenPids(L) : Whole(L.open[p])
  BY DEF Booked, OpenPids
<1>2. /\ M \in Manager /\ M.capital = L.capital + credit
      /\ M.profit = L.profit + gain /\ M.initial = L.initial
      /\ M.open = [L.open EXCEPT ![pid] = NoPosition]
      /\ M.closed = Append(L.closed, c)
  <2>1. ClosesTo(L, Close(L, pid, pos, credit, gain), pid, pos, credit, gain)
    BY <1>1, ClosedManager
  <2> QED
    BY <2>1 DEF ClosesTo
<1> HIDE DEF M
<1>3. /\ OpenPids(M) = OpenPids(L) \ {pid}
      /\ \A p \in OpenPids(M) : M.open[p] = L.open[p]
  BY <1>1, <1>2, ManagerFields DEF OpenPids, IsOpen
<1>4. IsFiniteSet(OpenPids(M))
  BY <1>1, <1>3, FS_Subset
<1>5. Booked(M)
  BY <1>1, <1>2, <1>3, <1>4 DEF Booked
<1>6. ASSUME Paper(L), pos.profit = gain, gain = credit - stake
      PROVE  Paper(M)
  <2>1. /\ pid \notin OpenPids(M) /\ OpenPids(L) = OpenPids(M) \cup {pid}
        /\ \A p \in OpenPids(M) : L.open[p] = M.open[p]
    BY <1>3
  <2>2. Stakes(L) = Stakes(M) + stake
    BY <1>1, <1>2, <2>1, OneMoreStake
  <2>3. /\ L.capital \in Int /\ L.initial \in Int /\ L.profit \in Int
        /\ Stakes(M) \in Int /\ stake \in Nat
    BY <1>1, <1>2, <1>4, ManagerFields, StakesInt, StakeNat
  <2>4. M.capital + Stakes(M) = M.initial + M.profit
    <3>1. L.capital + Stakes(L) = L.initial + L.profit /\ gain = credit - stake
      BY <1>6 DEF Paper
    <3> HIDE DEF stake
    <3>2. PICK paid, after : paid = M.capital /\ after = M.profit
      OBVIOUS
    <3>3. /\ paid = L.capital + credit /\ after = L.profit + gain
          /\ M.initial = L.initial
      BY <1>2, <3>2
    <3>4. paid + Stakes(M) = L.initial + after
      BY <2>2, <2>3, <3>1, <3>3
    <3> QED
      BY <3>2, <3>3, <3>4
  <2>5. c \in [pid: Pids, pos: Position] /\ c.pos = pos
    BY <1>1
  <2>6. ProfitSum(M.closed) = ProfitSum(L.closed) + pos.profit
    <3> HIDE DEF c
    <3>1. /\ L.closed \in Seq([pid: Pids, pos: Position])
          /\ M.closed = Append(L.closed, c)
      BY <1>1, <1>2, ManagerFields
    <3>2. ProfitSum(Append(L.closed, c)) = ProfitSum(L.closed) + c.pos.profit
      BY <2>5, <3>1, ProfitAppended
    <3> QED
      BY <2>5, <3>1, <3>2
  <2>7. M.profit = ProfitSum(M.closed)
    BY <1>2, <1>6, <2>6 DEF Paper
  <2> QED
    BY <2>4, <2>7 DEF Paper
<1> QED
  BY <1>2, <1>3, <1>5, <1>6 DEF M, stake

\* Another position in the place of one, money in capital and profit.
Replaced(L, pid, pos, credit, gain) ==
  [L EXCEPT !.capital = L.capital + credit, !.profit = L.profit + gain,
            !.open = [L.open EXCEPT ![pid] = pos]]

LEMMA ReplaceKeeps ==
  ASSUME NEW L, Booked(L), NEW pid \in OpenPids(L), NEW pos, Whole(pos),
         NEW credit \in Nat, NEW gain \in Int, NEW M,
         M = Replaced(L, pid, pos, credit, gain)
  PROVE  /\ Booked(M) /\ M.capital = L.capital + credit
         /\ OpenPids(M) = OpenPids(L) /\ M.open[pid] = pos
         /\ \A p \in OpenPids(L) \ {pid} : M.open[p] = L.open[p]
<1> DEFINE capital == L.capital + credit
           profit == L.profit + gain
           open == [L.open EXCEPT ![pid] = pos]
<1>1. /\ L \in Manager /\ IsFiniteSet(OpenPids(L)) /\ pid \in Pids
      /\ \A p \in OpenPids(L) : Whole(L.open[p])
  BY DEF Booked, OpenPids
<1>2. capital \in Nat /\ profit \in Int
  BY <1>1, ManagerFields
<1>3. /\ open \in [Pids -> Position \cup {NoPosition}] /\ open[pid] = pos
      /\ \A p \in Pids \ {pid} : open[p] = L.open[p]
  BY <1>1, ManagerFields DEF Whole
<1>4. M = [L EXCEPT !.capital = capital, !.profit = profit, !.open = open]
  BY DEF Replaced
<1>5. capital = L.capital + credit
  OBVIOUS
<1> HIDE DEF capital, profit, open
<1>6. M \in Manager /\ M.capital = capital /\ M.open = open
  BY <1>1, <1>2, <1>3, <1>4 DEF Manager
<1>7. pos # NoPosition
  BY NoPositionIsNone DEF Whole
<1>8. OpenPids(M) = OpenPids(L)
  BY <1>1, <1>3, <1>6, <1>7 DEF OpenPids, IsOpen
<1>9. \A p \in OpenPids(L) : p # pid => p \in Pids \ {pid}
  BY DEF OpenPids
<1>10. Booked(M)
  BY <1>1, <1>3, <1>6, <1>8, <1>9 DEF Booked
<1> QED
  BY <1>1, <1>3, <1>5, <1>6, <1>8, <1>9, <1>10

\* A restart recomputes the statistics and leaves the positions.
LEMMA ImportedManager ==
  ASSUME NEW L \in Manager, IsFiniteSet(OpenPids(L))
  PROVE  LET M == ImportPositions(L)
         IN /\ M \in Manager /\ M.capital = L.capital /\ M.open = L.open
            /\ M.closed = L.closed /\ M.initial = L.initial
            /\ M.profit = ProfitSum(L.closed)
<1> DEFINE M == ImportPositions(L)
           profits == [i \in DOMAIN L.closed |-> L.closed[i].pos.profit]
           n == Cardinality(OpenPids(L)) + Len(L.closed)
           profit == SumFunction(profits)
           wins == Cardinality({i \in DOMAIN profits : profits[i] > 0})
           losses == Cardinality({i \in DOMAIN profits : profits[i] < 0})
           gone == [i \in DOMAIN L.closed |-> L.closed[i].pos.expected]
           here == [pid \in OpenPids(L) |-> L.open[pid].expected]
           expected == SumFunction(gone) + SumFunction(here)
           D == DOMAIN L.closed
<1>1. /\ L \in Manager /\ IsFiniteSet(OpenPids(L))
      /\ L.closed \in Seq([pid: Pids, pos: Position])
  BY ManagerFields
<1>2. Len(L.closed) \in Nat /\ D = 1..Len(L.closed) /\ IsFiniteSet(D)
  <2>1. Len(L.closed) \in Nat /\ D = 1..Len(L.closed)
    BY <1>1
  <2> QED
    BY <2>1, FS_Interval
<1>3. \A i \in D : L.closed[i].pos.profit \in Int /\ L.closed[i].pos.expected \in Int
  <2> DEFINE T == [pid: Pids, pos: Position]
  <2>1. L.closed \in Seq(T)
    BY <1>1
  <2> HIDE DEF T
  <2>2. \A i \in D : L.closed[i] \in T
    BY <2>1
  <2> QED
    BY <2>2, PositionFields DEF T
<1>4. profit \in Int
  <2>1. \A i \in D : profits[i] \in Int
    BY <1>3
  <2>2. profit = SumFunctionOnSet(profits, D)
    BY DEF SumFunction
  <2> HIDE DEF profits, D, profit
  <2> QED
    BY <1>2, <2>1, <2>2, SumType
<1>5. expected \in Int
  <2>1. SumFunction(gone) \in Int
    <3>1. \A i \in D : gone[i] \in Int
      BY <1>3
    <3>2. SumFunction(gone) = SumFunctionOnSet(gone, D)
      BY DEF SumFunction
    <3> HIDE DEF gone, D
    <3> QED
      BY <1>2, <3>1, <3>2, SumType
  <2>2. SumFunction(here) \in Int
    <3>1. \A pid \in OpenPids(L) : here[pid] \in Int
      BY <1>1, OpenPosition, PositionFields
    <3>2. SumFunction(here) = SumFunctionOnSet(here, OpenPids(L))
      BY DEF SumFunction
    <3> HIDE DEF here
    <3> QED
      BY <1>1, <3>1, <3>2, SumType
  <2> HIDE DEF gone, here
  <2> QED
    BY <2>1, <2>2
<1>6. n \in Nat /\ wins \in Nat /\ losses \in Nat
  <2>1. Cardinality(OpenPids(L)) \in Nat
    BY <1>1, FS_CardinalityType
  <2>2. /\ IsFiniteSet({i \in DOMAIN profits : profits[i] > 0})
        /\ IsFiniteSet({i \in DOMAIN profits : profits[i] < 0})
    BY <1>2, FS_Subset
  <2> QED
    BY <1>2, <2>1, <2>2, FS_CardinalityType
<1>7. M = [L EXCEPT !.trades = n, !.profit = profit, !.wins = wins,
                    !.losses = losses, !.expected = expected]
  BY DEF ImportPositions
<1>8. profit = ProfitSum(L.closed)
  BY DEF ProfitSum
<1> HIDE DEF profits, n, profit, wins, losses, expected, M, D
<1>9. /\ M \in Manager /\ M.capital = L.capital /\ M.open = L.open
      /\ M.closed = L.closed /\ M.initial = L.initial /\ M.profit = profit
  BY <1>1, <1>4, <1>5, <1>6, <1>7 DEF Manager
<1> QED
  BY <1>8, <1>9 DEF M

LEMMA ImportKeeps ==
  ASSUME NEW L, Booked(L)
  PROVE  LET M == ImportPositions(L)
         IN /\ Booked(M) /\ M.capital = L.capital /\ M.open = L.open
            /\ Paper(L) => Paper(M)
<1> DEFINE M == ImportPositions(L)
<1>1. /\ L \in Manager /\ IsFiniteSet(OpenPids(L))
      /\ \A pid \in OpenPids(L) : Whole(L.open[pid])
  BY DEF Booked
<1>2. /\ M \in Manager /\ M.capital = L.capital /\ M.open = L.open
      /\ M.closed = L.closed /\ M.initial = L.initial
      /\ M.profit = ProfitSum(L.closed)
  BY <1>1, ImportedManager
<1> HIDE DEF M
<1>3. OpenPids(M) = OpenPids(L)
  BY <1>2 DEF OpenPids, IsOpen
<1>4. Booked(M)
  BY <1>1, <1>2, <1>3 DEF Booked
<1>5. Stakes(M) = Stakes(L)
  BY <1>2, <1>3 DEF Stakes
<1>6. Paper(L) => Paper(M)
  BY <1>2, <1>5 DEF Paper
<1> QED
  BY <1>2, <1>4, <1>6 DEF M

-----------------------------------------------------------------------------
\* The component.

\* The legs have the shares the account holds.
Follows(L, h) ==
  \A pid \in OpenPids(L), m \in Markets : h[pid][m] = L.open[pid].legs[m].shares

ManagerInv ==
  /\ live \in BOOLEAN /\ winner \in Markets \cup {Nobody} /\ wallet \in Int
  /\ held \in [Pids -> [Markets -> Nat]]
  /\ Booked(pm)
  /\ Follows(pm, held)
  /\ ~live => Paper(pm)

\* What CashMovesTogether says of a step.
CashMoves ==
  ~ClosesPartlySold /\ ~SellsSpread
    => pm'.capital - pm.capital = wallet' - wallet

LEMMA ManagerInitially == ManagerInit => ManagerInv
<1> SUFFICES ASSUME ManagerInit PROVE ManagerInv
  OBVIOUS
<1> DEFINE L == NewManager(StartCapital)
<1>1. /\ pm = L /\ live \in BOOLEAN /\ winner \in Markets \cup {Nobody}
      /\ wallet \in Int /\ held \in [Pids -> [Markets -> Nat]]
      /\ StartCapital \in Nat
  BY ManagerAssumption DEF ManagerInit, Nothing
<1>2. L \in Manager
  <2>1. <<>> \in Seq([pid: Pids, pos: Position])
    OBVIOUS
  <2> QED
    BY <1>1, <2>1 DEF Manager, NewManager
<1>3. /\ L.capital = StartCapital /\ L.initial = StartCapital /\ L.profit = 0
      /\ L.closed = <<>> /\ L.open = [p \in Pids |-> NoPosition]
  BY DEF NewManager
<1>4. OpenPids(L) = {}
  BY <1>3 DEF OpenPids, IsOpen
<1>5. Booked(L)
  BY <1>2, <1>4, FS_EmptySet DEF Booked
<1>6. Stakes(L) = 0 /\ ProfitSum(L.closed) = 0
  <2>1. Stakes(L) = 0
    BY <1>4, SumEmpty DEF Stakes, SumFunction
  <2>2. ProfitSum(<<>>) = 0
    <3> DEFINE f == [i \in DOMAIN <<>> |-> <<>>[i].pos.profit]
    <3>1. ProfitSum(<<>>) = SumFunctionOnSet(f, DOMAIN f)
      BY DEF ProfitSum, SumFunction
    <3>2. DOMAIN f = {}
      OBVIOUS
    <3> HIDE DEF f
    <3> QED
      BY <3>1, <3>2, SumEmpty
  <2> QED
    BY <1>3, <2>1, <2>2
<1>7. Paper(L)
  <2> HIDE DEF L
  <2>1. L.capital + Stakes(L) = L.initial + L.profit
    BY <1>1, <1>3, <1>6
  <2> QED
    BY <1>3, <1>6, <2>1 DEF Paper
<1> HIDE DEF L
<1> QED
  BY <1>1, <1>4, <1>5, <1>7 DEF ManagerInv, Follows

\* The payout is what the shares in the account redeem for.
LEMMA RedeemsPayout == ManagerInv => PayoutIsRedeemable
<1> SUFFICES ASSUME ManagerInv, NEW pid \in OpenPids(pm), NEW w \in Markets
             PROVE  ResolutionPayout(pm.open[pid], w) = Redeemed(pid, w)
  BY DEF PayoutIsRedeemable
<1> DEFINE pos == pm.open[pid]
<1>1. Whole(pos) /\ pos.sell \in BOOLEAN
  BY PositionFields DEF ManagerInv, Booked, Whole
<1>2. \A m \in Markets : held[pid][m] = pos.legs[m].shares
  BY DEF ManagerInv, Follows
<1>3. CASE pos.sell
  <2> DEFINE f == [m \in Markets \ {w} |-> pos.legs[m].shares * Unit]
             g == [m \in Markets \ {w} |-> held[pid][m] * Unit]
  <2>1. f = g
    BY <1>2
  <2>2. ResolutionPayout(pos, w) = SumFunction(f)
    BY <1>1, <1>3, PayoutOfShares
  <2>3. Redeemed(pid, w) = SumFunction(g)
    BY <1>3 DEF Redeemed
  <2> HIDE DEF f, g
  <2> QED
    BY <2>1, <2>2, <2>3
<1>4. CASE ~pos.sell
  <2>1. ResolutionPayout(pos, w) = pos.legs[w].shares * Unit
    BY <1>1, <1>4, PayoutOfShares
  <2> QED
    BY <1>2, <1>4, <2>1 DEF Redeemed
<1> QED
  BY <1>1, <1>3, <1>4

LEMMA EnterSteps ==
  ASSUME ManagerInv, NEW pid \in Pids, Enter(pid)
  PROVE  ManagerInv' /\ CashMoves
<1>1. PICK o \in Orders :
        /\ CanEnter(pm, o) /\ pm' = EnterPosition(pm, pid, o)
        /\ wallet' = wallet - Required(o)
        /\ held' = [held EXCEPT ![pid] = [m \in Markets |-> BoughtShares(o, m)]]
  BY DEF Enter
<1>2. /\ Booked(pm) /\ pm \in Manager /\ ~IsOpen(pm, pid)
      /\ live' = live /\ winner' = winner
  BY DEF Enter, Fresh, ManagerInv, Booked
<1>3. /\ Booked(pm') /\ OpenPids(pm') = OpenPids(pm) \cup {pid}
      /\ \A p \in OpenPids(pm) : pm'.open[p] = pm.open[p]
      /\ Paper(pm) => Paper(pm')
  BY <1>1, <1>2, EnterKeeps
<1>4. /\ pm'.capital = pm.capital - Required(o)
      /\ \A m \in Markets : pm'.open[pid].legs[m].shares = BoughtShares(o, m)
  <2> DEFINE M == EnterPosition(pm, pid, o)
  <2>1. /\ M.capital = pm.capital - Required(o)
        /\ \A m \in Markets : M.open[pid].legs[m].shares = BoughtShares(o, m)
    BY <1>1, <1>2, EnteredPosition
  <2> HIDE DEF M
  <2>2. pm' = M
    BY <1>1 DEF M
  <2> QED
    BY <2>1, <2>2
<1>5. /\ held' \in [Pids -> [Markets -> Nat]]
      /\ \A m \in Markets : held'[pid][m] = BoughtShares(o, m)
      /\ \A p \in Pids \ {pid} : held'[p] = held[p]
  BY <1>1, SharesBought DEF ManagerInv
<1>6. Required(o) \in Int /\ pm.capital \in Int /\ wallet \in Int
  BY <1>2, CostNat, ManagerFields DEF ManagerInv
<1>7. pid \notin OpenPids(pm) /\ OpenPids(pm) \subseteq Pids
  BY <1>2 DEF OpenPids
<1>8. Follows(pm', held')
  BY <1>3, <1>4, <1>5, <1>7 DEF Follows, ManagerInv
<1>9. wallet' \in Int
  BY <1>1, <1>6
<1>10. ManagerInv'
  BY <1>2, <1>3, <1>5, <1>8, <1>9 DEF ManagerInv
<1>11. pm'.capital - pm.capital = wallet' - wallet
  BY <1>1, <1>4, <1>6
<1> QED
  BY <1>10, <1>11 DEF CashMoves

\* The legs that stay open have what the account still holds.
LEMMA ClosedFollows ==
  ASSUME ManagerInv, NEW pid, NEW M,
         OpenPids(M) = OpenPids(pm) \ {pid},
         \A p \in OpenPids(M) : M.open[p] = pm.open[p]
  PROVE  LET h == [held EXCEPT ![pid] = Nothing]
         IN h \in [Pids -> [Markets -> Nat]] /\ Follows(M, h)
<1> DEFINE h == [held EXCEPT ![pid] = Nothing]
<1>1. Nothing \in [Markets -> Nat] /\ held \in [Pids -> [Markets -> Nat]]
  BY DEF Nothing, ManagerInv
<1>2. h \in [Pids -> [Markets -> Nat]] /\ \A p \in Pids \ {pid} : h[p] = held[p]
  BY <1>1
<1> HIDE DEF h
<1>3. \A p \in OpenPids(M) : p \in Pids \ {pid} /\ p \in OpenPids(pm)
  BY DEF OpenPids
<1>4. Follows(M, h)
  BY <1>2, <1>3 DEF Follows, ManagerInv
<1> QED
  BY <1>2, <1>4 DEF h

LEMMA FinalPosition ==
  ASSUME NEW pos \in Position, NEW payout \in Int, NEW profit \in Int
  PROVE  /\ [pos EXCEPT !.payout = payout, !.profit = profit] \in Position
         /\ [pos EXCEPT !.payout = payout, !.profit = profit].profit = profit
  BY DEF Position

LEMMA ResolvedSteps ==
  ASSUME ManagerInv, NEW pid \in Pids, CloseResolved(pid)
  PROVE  ManagerInv' /\ CashMoves
<1> DEFINE pos == pm.open[pid]
           payout == ResolutionPayout(pos, winner)
           profit == payout - (pos.capital + pos.fees)
           final == [pos EXCEPT !.payout = payout, !.profit = profit]
<1>1. /\ pid \in OpenPids(pm) /\ winner \in Markets
      /\ pm' = Close(pm, pid, final, payout, profit)
      /\ wallet' = wallet + Redeemed(pid, winner)
      /\ held' = [held EXCEPT ![pid] = Nothing]
      /\ live' = live /\ winner' = winner
  BY DEF CloseResolved, CloseOnResolution, ManagerInv, OpenPids
<1>2. /\ Booked(pm) /\ pm \in Manager /\ Whole(pos) /\ pos \in Position
      /\ pos.capital \in Nat /\ pos.fees \in Nat
  BY <1>1, PositionFields DEF ManagerInv, Booked, Whole
<1>3. payout \in Nat /\ payout = Redeemed(pid, winner)
  BY <1>1, <1>2, PayoutNat, RedeemsPayout DEF PayoutIsRedeemable
<1>4. profit \in Int
  BY <1>2, <1>3
<1>5. final \in Position /\ final.profit = profit
  <2>1. payout \in Int
    BY <1>3
  <2> HIDE DEF pos, payout, profit
  <2> QED
    BY <1>2, <1>4, <2>1, FinalPosition
<1>6. profit = payout - (pm.open[pid].capital + pm.open[pid].fees)
  OBVIOUS
<1> HIDE DEF pos, payout, profit, final
<1>7. /\ Booked(pm') /\ pm'.capital = pm.capital + payout
      /\ OpenPids(pm') = OpenPids(pm) \ {pid}
      /\ \A p \in OpenPids(pm') : pm'.open[p] = pm.open[p]
      /\ Paper(pm) => Paper(pm')
  <2>1. PICK q, credit, gain : q = final /\ credit = payout /\ gain = profit
    OBVIOUS
  <2>2. /\ Booked(pm) /\ pid \in OpenPids(pm) /\ q \in Position
        /\ credit \in Nat /\ gain \in Int /\ q.profit = gain
        /\ gain = credit - (pm.open[pid].capital + pm.open[pid].fees)
        /\ pm' = Close(pm, pid, q, credit, gain)
    BY <1>1, <1>2, <1>3, <1>4, <1>5, <1>6, <2>1
  <2>3. /\ Booked(pm') /\ pm'.capital = pm.capital + credit
        /\ OpenPids(pm') = OpenPids(pm) \ {pid}
        /\ \A p \in OpenPids(pm') : pm'.open[p] = pm.open[p]
        /\ Paper(pm) => Paper(pm')
    BY <2>2, CloseKeeps
  <2> QED
    BY <2>1, <2>3
<1>8. held' \in [Pids -> [Markets -> Nat]] /\ Follows(pm', held')
  BY <1>1, <1>7, ClosedFollows
<1>9. wallet \in Int /\ wallet' \in Int /\ pm.capital \in Int
  BY <1>1, <1>2, <1>3, ManagerFields DEF ManagerInv
<1>10. ManagerInv'
  BY <1>1, <1>7, <1>8, <1>9 DEF ManagerInv
<1>11. pm'.capital - pm.capital = wallet' - wallet
  BY <1>1, <1>3, <1>7, <1>9
<1> QED
  BY <1>10, <1>11 DEF CashMoves

LEMMA ExitSteps ==
  ASSUME ManagerInv, NEW pid \in Pids, ExitFills(pid)
  PROVE  ManagerInv' /\ CashMoves
<1>1. PICK sold \in [Markets -> 0..MaxShares], bid \in Bids :
        LET fills == [m \in Markets |-> [shares |-> sold[m], price |-> bid[m]]]
        IN /\ \A m \in Markets : sold[m] <= held[pid][m]
           /\ pm' = ApplyExitFills(pm, pid, fills)
           /\ wallet' = wallet + ExitProceeds(pm.open[pid], fills)
           /\ held' = [held EXCEPT ![pid] = [m \in Markets |-> @[m] - sold[m]]]
  BY DEF ExitFills
<1> DEFINE fills == [m \in Markets |-> [shares |-> sold[m], price |-> bid[m]]]
           pos == pm.open[pid]
           after == PositionAfterExit(pos, fills)
           P == ExitProceeds(pos, fills)
           C == ExitCost(pos, fills)
<1>2. /\ live /\ pid \in OpenPids(pm) /\ winner = Nobody
      /\ live' = live /\ winner' = winner
      /\ Booked(pm) /\ pm \in Manager /\ Whole(pos) /\ pos \in Position
      /\ held \in [Pids -> [Markets -> Nat]] /\ Follows(pm, held)
  BY DEF ExitFills, OpenPids, ManagerInv, Booked, Whole
<1>3. \A m \in Markets : /\ fills[m].shares = sold[m] /\ fills[m].price \in Nat
                         /\ sold[m] \in Nat /\ sold[m] <= pos.legs[m].shares
                         /\ held[pid][m] = pos.legs[m].shares
  BY <1>1, <1>2, ManagerAssumption DEF Follows
<1>4. FillsOf(pos, fills)
  BY <1>3 DEF FillsOf
<1>5. pm' = ApplyExitFills(pm, pid, fills) /\ wallet' = wallet + P
  BY <1>1
<1>6. /\ held' \in [Pids -> [Markets -> Nat]]
      /\ \A m \in Markets : held'[pid][m] = pos.legs[m].shares - sold[m]
      /\ \A p \in Pids \ {pid} : held'[p] = held[p]
  <2> DEFINE rest == [m \in Markets |-> held[pid][m] - sold[m]]
  <2>1. rest \in [Markets -> Nat]
    BY <1>1, <1>2, <1>3
  <2>2. held' = [held EXCEPT ![pid] = rest]
    BY <1>1
  <2>3. \A m \in Markets : rest[m] = pos.legs[m].shares - sold[m]
    BY <1>3
  <2> HIDE DEF rest
  <2> QED
    BY <1>2, <2>1, <2>2, <2>3
<1> HIDE DEF fills
<1>7. P \in Nat /\ C \in Nat
  BY <1>2, <1>4, ExitMoney
<1>8. /\ Whole(after) /\ after.payout = pos.payout + P
      /\ \A m \in Markets : after.legs[m].shares = pos.legs[m].shares - sold[m]
  BY <1>2, <1>3, <1>4, ExitKeepsWhole
<1>9. /\ after \in Position /\ after.payout \in Int /\ after.profit \in Int
      /\ pos.payout \in Nat /\ wallet \in Int /\ pm.capital \in Int
  BY <1>2, <1>8, PositionFields, ManagerFields DEF Whole, ManagerInv
<1>10. wallet' \in Int
  BY <1>5, <1>7, <1>9
<1>11. CASE SoldOut(after)
  <2>1. PICK q, credit, gain :
          q = after /\ credit = after.payout /\ gain = after.profit
    OBVIOUS
  <2>2. /\ Booked(pm) /\ pid \in OpenPids(pm) /\ q \in Position
        /\ credit \in Nat /\ gain \in Int /\ pm' = Close(pm, pid, q, credit, gain)
    BY <1>2, <1>5, <1>7, <1>8, <1>9, <1>11, <2>1 DEF ApplyExitFills
  <2>3. /\ Booked(pm') /\ pm'.capital = pm.capital + credit
        /\ OpenPids(pm') = OpenPids(pm) \ {pid}
        /\ \A p \in OpenPids(pm') : pm'.open[p] = pm.open[p]
    BY <2>2, CloseKeeps
  <2>4. \A p \in OpenPids(pm') : p \in Pids \ {pid} /\ p \in OpenPids(pm)
    BY <2>3 DEF OpenPids
  <2>5. Follows(pm', held')
    BY <1>2, <1>6, <2>3, <2>4 DEF Follows
  <2>6. ManagerInv'
    BY <1>2, <1>6, <1>10, <2>3, <2>5 DEF ManagerInv
  <2>7. pm'.capital = pm.capital + (pos.payout + P)
    BY <1>8, <2>1, <2>3
  <2>8. pos.payout > 0 => ClosesPartlySold
    <3>1. pid \notin OpenPids(pm')
      BY <2>3
    <3>2. ~IsOpen(pm, pid)' /\ IsOpen(pm, pid)
      BY <1>2, <3>1 DEF OpenPids, IsOpen
    <3> QED
      BY <1>2, <3>2 DEF ClosesPartlySold, SoldInPart
  <2>9. pos.payout = 0 => pm'.capital - pm.capital = wallet' - wallet
    BY <1>5, <1>7, <1>9, <2>7
  <2> HIDE DEF pos, P
  <2>10. pos.payout > 0 \/ pos.payout = 0
    BY <1>9
  <2> QED
    BY <2>6, <2>8, <2>9, <2>10 DEF CashMoves
<1>12. CASE ~SoldOut(after)
  <2>1. pm' = [pm EXCEPT !.capital = pm.capital + P, !.profit = pm.profit + (P - C),
                         !.open = [pm.open EXCEPT ![pid] = after]]
    <3>1. pm' = [pm EXCEPT !.capital = @ + P, !.profit = @ + P - C,
                           !.open[pid] = after]
      BY <1>5, <1>12 DEF ApplyExitFills
    <3>2. pm.profit \in Int
      BY <1>2, ManagerFields
    <3>3. pm.profit + P - C = pm.profit + (P - C)
      <4> HIDE DEF P, C
      <4> QED
        BY <1>7, <3>2
    <3> HIDE DEF P, C, after
    <3> QED
      BY <1>2, <3>1, <3>3 DEF Manager
  <2>2. P - C \in Int
    BY <1>7
  <2> DEFINE gain == P - C
  <2> HIDE DEF P, C, after, gain
  <2>3. /\ Booked(pm') /\ pm'.capital = pm.capital + P
        /\ OpenPids(pm') = OpenPids(pm) /\ pm'.open[pid] = after
        /\ \A p \in OpenPids(pm) \ {pid} : pm'.open[p] = pm.open[p]
    <3>1. /\ gain \in Int
          /\ pm' = [pm EXCEPT !.capital = pm.capital + P, !.profit = pm.profit + gain,
                              !.open = [pm.open EXCEPT ![pid] = after]]
      BY <2>1, <2>2 DEF gain
    <3>2. PICK q, credit : q = after /\ credit = P
      OBVIOUS
    <3>3. /\ Booked(pm) /\ pid \in OpenPids(pm) /\ Whole(q)
          /\ credit \in Nat /\ gain \in Int
          /\ pm' = Replaced(pm, pid, q, credit, gain)
      BY <1>2, <1>7, <1>8, <3>1, <3>2 DEF Replaced
    <3>4. /\ Booked(pm') /\ pm'.capital = pm.capital + credit
          /\ OpenPids(pm') = OpenPids(pm) /\ pm'.open[pid] = q
          /\ \A p \in OpenPids(pm) \ {pid} : pm'.open[p] = pm.open[p]
      BY <3>3, ReplaceKeeps
    <3> QED
      BY <3>2, <3>4
  <2>4. \A p \in OpenPids(pm) : p \in Pids
    BY DEF OpenPids
  <2>5. Follows(pm', held')
    BY <1>2, <1>6, <1>8, <2>3, <2>4 DEF Follows
  <2>6. ManagerInv'
    BY <1>2, <1>6, <1>10, <2>3, <2>5 DEF ManagerInv
  <2>7. pm'.capital - pm.capital = wallet' - wallet
    BY <1>5, <1>7, <1>9, <2>3
  <2> QED
    BY <2>6, <2>7 DEF CashMoves
<1> QED
  BY <1>11, <1>12

LEMMA PaperSteps ==
  ASSUME ManagerInv, NEW pid \in Pids, Liquidate(pid)
  PROVE  ManagerInv' /\ CashMoves
<1>1. PICK bid \in PaperBids :
        LET gross == Total([m \in Markets |-> held[pid][m] * bid[m]])
        IN /\ pm' = LiquidatePosition(pm, pid, bid)
           /\ wallet' = wallet + gross - Fee(gross)
  BY DEF Liquidate
<1> DEFINE pos == pm.open[pid]
           gross == Total([m \in Markets |-> held[pid][m] * bid[m]])
           net == NetProceeds(pos, bid)
           profit == net - (pos.capital + pos.fees)
           final == [pos EXCEPT !.payout = net, !.profit = profit]
<1>2. /\ ~live /\ pid \in OpenPids(pm) /\ winner = Nobody
      /\ live' = live /\ winner' = winner /\ held' = [held EXCEPT ![pid] = Nothing]
      /\ Booked(pm) /\ pm \in Manager /\ Whole(pos) /\ pos \in Position
      /\ pos.capital \in Nat /\ pos.fees \in Nat
  BY PositionFields DEF Liquidate, OpenPids, ManagerInv, Booked, Whole
<1>3. /\ pm' = Close(pm, pid, final, net, profit)
      /\ wallet' = wallet + gross - Fee(gross)
  BY <1>1 DEF LiquidatePosition, LiquidationProfit
<1>4. bid \in [Markets -> Nat]
  BY ManagerAssumption
<1>5. net \in Nat
  BY <1>2, <1>4, NetNat
<1>6. profit \in Int
  BY <1>2, <1>5
<1>7. final \in Position /\ final.profit = profit
  <2>1. net \in Int
    BY <1>5
  <2> HIDE DEF pos, net, profit
  <2> QED
    BY <1>2, <1>6, <2>1, FinalPosition
<1>8. profit = net - (pm.open[pid].capital + pm.open[pid].fees)
  OBVIOUS
<1>9. gross \in Nat /\ Fee(gross) \in Nat
  <2> DEFINE g == [m \in Markets |-> held[pid][m] * bid[m]]
  <2>1. \A m \in Markets : g[m] \in Nat
    BY <1>4 DEF ManagerInv
  <2> HIDE DEF g
  <2>2. Total(g) \in Nat
    BY <2>1, TotalNat
  <2> QED
    BY <2>2, FeeBounds DEF g
<1>10. ~PaidSpread(pos) => net = gross - Fee(gross)
  <2> SUFFICES ASSUME ~PaidSpread(pos) PROVE net = gross - Fee(gross)
    OBVIOUS
  <2>1. \A m \in Markets : EstimatedShares(pos, m) = held[pid][m]
    BY <1>2, PaperSale DEF ManagerInv, Follows
  <2>2. [m \in Markets |-> EstimatedShares(pos, m) * bid[m]]
          = [m \in Markets |-> held[pid][m] * bid[m]]
    BY <2>1
  <2>3. SaleProceeds(pos, bid) = gross
    BY <2>2 DEF SaleProceeds
  <2> QED
    BY <2>3 DEF NetProceeds
<1> HIDE DEF pos, gross, net, profit, final
<1>11. /\ Booked(pm') /\ pm'.capital = pm.capital + net
       /\ OpenPids(pm') = OpenPids(pm) \ {pid}
       /\ \A p \in OpenPids(pm') : pm'.open[p] = pm.open[p]
       /\ Paper(pm) => Paper(pm')
  <2>1. PICK q, credit, gain : q = final /\ credit = net /\ gain = profit
    OBVIOUS
  <2>2. /\ Booked(pm) /\ pid \in OpenPids(pm) /\ q \in Position
        /\ credit \in Nat /\ gain \in Int /\ q.profit = gain
        /\ gain = credit - (pm.open[pid].capital + pm.open[pid].fees)
        /\ pm' = Close(pm, pid, q, credit, gain)
    BY <1>2, <1>3, <1>5, <1>6, <1>7, <1>8, <2>1
  <2>3. /\ Booked(pm') /\ pm'.capital = pm.capital + credit
        /\ OpenPids(pm') = OpenPids(pm) \ {pid}
        /\ \A p \in OpenPids(pm') : pm'.open[p] = pm.open[p]
        /\ Paper(pm) => Paper(pm')
    BY <2>2, CloseKeeps
  <2> QED
    BY <2>1, <2>3
<1>12. held' \in [Pids -> [Markets -> Nat]] /\ Follows(pm', held')
  BY <1>2, <1>11, ClosedFollows
<1>13. wallet \in Int /\ wallet' \in Int /\ pm.capital \in Int
  BY <1>2, <1>3, <1>9, ManagerFields DEF ManagerInv
<1>14. ManagerInv'
  BY <1>2, <1>11, <1>12, <1>13 DEF ManagerInv
<1>15. CASE PaidSpread(pos)
  <2>1. IsOpen(pm, pid) /\ ~IsOpen(pm, pid)'
    BY <1>2, <1>11 DEF OpenPids, IsOpen
  <2>2. SellsSpread
    BY <1>2, <1>15, <2>1 DEF SellsSpread, pos
  <2> QED
    BY <1>14, <2>2 DEF CashMoves
<1>16. CASE ~PaidSpread(pos)
  <2>1. pm'.capital - pm.capital = wallet' - wallet
    BY <1>3, <1>5, <1>9, <1>10, <1>11, <1>13, <1>16
  <2> QED
    BY <1>14, <2>1 DEF CashMoves
<1> QED
  BY <1>15, <1>16

LEMMA ManagerSteps == ManagerInv /\ [ManagerNext]_managerVars => ManagerInv' /\ CashMoves
<1> SUFFICES ASSUME ManagerInv, [ManagerNext]_managerVars
             PROVE  ManagerInv' /\ CashMoves
  OBVIOUS
<1>1. pm.capital \in Int /\ wallet \in Int /\ pm \in Manager /\ Booked(pm)
  BY ManagerFields DEF ManagerInv, Booked
<1>2. CASE Settle
  <2>1. /\ live' = live /\ pm' = pm /\ wallet' = wallet /\ held' = held
        /\ winner' \in Markets
    BY <1>2 DEF Settle
  <2>2. pm'.capital - pm.capital = wallet' - wallet
    BY <1>1, <2>1
  <2> QED
    BY <2>1, <2>2 DEF ManagerInv, CashMoves
<1>3. CASE Restart
  <2>1. /\ live' = live /\ wallet' = wallet /\ held' = held /\ winner' = winner
        /\ pm' = ImportPositions(pm)
    BY <1>3 DEF Restart
  <2>2. /\ Booked(pm') /\ pm'.capital = pm.capital /\ pm'.open = pm.open
        /\ Paper(pm) => Paper(pm')
    BY <1>1, <2>1, ImportKeeps
  <2>3. Follows(pm', held')
    BY <2>1, <2>2 DEF Follows, ManagerInv, OpenPids, IsOpen
  <2>4. pm'.capital - pm.capital = wallet' - wallet
    BY <1>1, <2>1, <2>2
  <2> QED
    BY <2>1, <2>2, <2>3, <2>4 DEF ManagerInv, CashMoves
<1>4. CASE UNCHANGED managerVars
  <2>1. /\ live' = live /\ pm' = pm /\ wallet' = wallet /\ held' = held
        /\ winner' = winner
    BY <1>4 DEF managerVars
  <2>2. pm'.capital - pm.capital = wallet' - wallet
    BY <1>1, <2>1
  <2> QED
    BY <2>1, <2>2 DEF ManagerInv, CashMoves
<1> QED
  BY <1>2, <1>3, <1>4, EnterSteps, ResolvedSteps, ExitSteps, PaperSteps
     DEF ManagerNext

\* Capital never runs below zero, nor do the cost, fees and shares of a
\* position, whatever is sold, resolved or imported; statistics stay numbers.
THEOREM ManagerTyped == ManagerSpec => [](pm \in Manager)
<1>1. ManagerInv => pm \in Manager
  BY DEF ManagerInv, Booked
<1> QED
  BY ManagerInitially, ManagerSteps, <1>1, PTL DEF ManagerSpec

\* Whichever market wins, a position pays at resolution what the shares in the
\* account redeem for, after any number of partial and uneven exits.
THEOREM PayoutRedeems == ManagerSpec => []PayoutIsRedeemable
  BY ManagerInitially, ManagerSteps, RedeemsPayout, PTL DEF ManagerSpec

\* On paper, capital and open stakes are the initial capital and the profit.
THEOREM PaperBooksClose == ManagerSpec => []BooksClose
<1>1. ManagerInv => BooksClose
  BY DEF ManagerInv, BooksClose, Paper, Stakes, Stake
<1> QED
  BY ManagerInitially, ManagerSteps, <1>1, PTL DEF ManagerSpec

\* But for the exit that closes a position sold in part and the paper sale of
\* NO shares bought with a spread, capital moves as the cash of the account.
THEOREM CapitalIsCash == ManagerSpec => CashMovesTogether
<1>1. ManagerInv /\ [ManagerNext]_managerVars
        => [~ClosesPartlySold /\ ~SellsSpread
              => pm'.capital - pm.capital = wallet' - wallet]_managerVars
  BY ManagerSteps DEF CashMoves
<1> QED
  BY ManagerInitially, ManagerSteps, <1>1, PTL DEF ManagerSpec, CashMovesTogether
=============================================================================
