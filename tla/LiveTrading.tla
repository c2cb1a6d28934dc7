---------------------------- MODULE LiveTrading ----------------------------
(***************************************************************************)
(* The life of a live position: the engine books it, the executor sends    *)
(* one order per leg, the venue matches and settles the orders on chain,   *)
(* the user channel reports (or loses) what happened, the reconciler       *)
(* compares the books with the wallet, the resolution poll pays out, and   *)
(* the process may die and be started again from what it last saved.       *)
(*   Orchestrator::try_enter_or_replace, dispatch_user_event,              *)
(*   do_periodic_tasks, load_state  (rust_supervisor/src/orchestrator.rs)  *)
(*   Engine::enter_position, rollback_paper_entry, check_api_resolutions,  *)
(*   apply_reconciliation_inner     (rust_engine/src/lib.rs)               *)
(*   Executor, process_fill_event   (rust_engine/src/executor.rs)          *)
(*   compare_positions              (rust_engine/src/reconciliation.rs)    *)
(*   handle_resolved                (rust_engine/src/ws.rs)                *)
(* The orchestrator is one thread, so each of its handlers is one action;  *)
(* a feed thread may close a resolved position between two of them.        *)
(* There is one constraint, entered by buying YES on all its markets, and  *)
(* held at most once at a time (held_cids); live exits are not in here.    *)
(***************************************************************************)
EXTENDS PositionOps

CONSTANTS
  Order,        \* what the engine enters
  StartCapital,
  Sizes,        \* shares an order may be filled with
  Threshold,    \* min_trade_size: a larger share difference is critical
  Exempt,       \* positions marked phantom_check_exempt, by hand: no code does
  MaxQueued,    \* bound: events of one order in the user channel
  MaxBoots,     \* bound: starts of the process
  Nobody        \* the winner while the markets are open

ASSUME LiveAssumption ==
  /\ {StartCapital, Threshold, MaxQueued} \subseteq Nat /\ MaxBoots \in Nat \ {0}
  /\ Sizes \subseteq Nat \ {0}
  /\ IsFiniteSet(Markets) /\ Nobody \notin Markets /\ Exempt \subseteq Pids
  /\ ~Order.sell
  /\ Order \in [sell: BOOLEAN, price: [Markets -> Nat], noPrice: [Markets -> Nat],
                bet: [Markets -> Nat], expected: Int]

\* One order per leg and position; leg.token_id is the asset of its fills,
\* entries are booked under the market id, adjustments under no asset.
Trades  == Pids \X Markets
NoAsset == <<"none">>
Assets  == ({"market", "token"} \X Markets) \cup {NoAsset}

Books == INSTANCE LedgerOps WITH
           Positions <- Pids, Assets <- Assets, Trades <- Trades,
           Keys <- {"entry"} \X Pids \X Markets

VARIABLES
  pm,       \* the PositionManager
  ledger,   \* the AccountingLedger
  orders,   \* executor.tracked, in memory only
  venue,    \* what became of the order at the venue and on chain
  channel,  \* events of the user channel not yet dispatched, per order
  winner,   \* the market that resolved to YES
  halted,   \* the breaker tripped for a partial submission
  saved,    \* what a restart loads
  fate,     \* history: what last became of the position
  boots

vars == <<pm, ledger, orders, venue, channel, winner, halted, saved, fate, boots>>

NoOrder == [status |-> "none", filled |-> 0]

\* can_transition_to; the submitted order and the live one are one state.
Follows ==
  [submitted |-> {"matched", "failed", "cancelled"},
   matched   |-> {"mined", "retrying", "failed", "confirmed"},
   mined     |-> {"confirmed", "retrying", "failed"},
   retrying  |-> {"mined", "confirmed", "failed"},
   confirmed |-> {}, failed |-> {}, cancelled |-> {}]

OrderStatus == DOMAIN Follows
Tracked(t) == orders[t] # NoOrder

\* What the wallet holds of the position's tokens is what settled; what
\* reverted never reaches it.  It may hold other tokens beside them.
Settled(t) == venue[t].status = "confirmed"
Wallet(m) ==
  SumFunction([t \in {u \in Pids \X {m} : Settled(u)} |-> venue[t].filled])

Init ==
  /\ pm = NewManager(StartCapital)
  /\ ledger = Books!NewLedger(StartCapital)
  /\ orders = [t \in Trades |-> NoOrder]
  /\ venue = orders
  /\ channel = [t \in Trades |-> <<>>]
  /\ winner = Nobody
  /\ halted = FALSE
  /\ saved = [pm |-> pm, ledger |-> ledger]
  /\ fate = [p \in Pids |-> "unused"]
  /\ boots = 1

-----------------------------------------------------------------------------
\* Entry

\* enter_position: a buy per leg, each with its share of the fees.
BookEntry(L, pos, p) ==
  FoldSet(LAMBDA m, l :
            Books!RecordBuyDedup(l, <<"entry", p, m>>, p, <<"market", m>>,
                                 pos.legs[m].bet,
                                 pos.fees \div Cardinality(Markets),
                                 pos.legs[m].shares),
          L, Markets)

\* The legs the answer accepts are pending, the others rejected; none has
\* confirmed shares yet.
MarkLegs(P, p, accepted) ==
  [P EXCEPT !.open[p].legs =
     [m \in Markets |->
        [@[m] EXCEPT !.actual = 0,
                     !.fill = IF m \in accepted THEN "pending" ELSE "rejected"]]]

\* Refunds the capital, not the fees; the ledger reverses both.
RolledBack(P, p) == RemovePosition(RefundCapital(P, P.open[p].capital), p)

\* The venue takes the orders for sent; the answer names them, or cannot be
\* parsed and every leg counts as rejected.
Enter(p) ==
  /\ ~halted /\ winner = Nobody
  /\ OpenPids(pm) = {} /\ fate[p] = "unused"
  /\ CanEnter(pm, Order)
  /\ \E sent \in SUBSET Markets : \E accepted \in {sent, {}} :
       LET entered == MarkLegs(EnterPosition(pm, p, Order), p, accepted)
           booked  == BookEntry(ledger, entered.open[p], p)
           taken   == [t \in Trades |-> t \in {p} \X sent]
           tracked == [t \in Trades |-> t \in {p} \X accepted]
       IN /\ pm'     = IF accepted = {} THEN RolledBack(entered, p) ELSE entered
          /\ ledger' = IF accepted = {} THEN Books!ReverseBuyByPosition(booked, p)
                       ELSE booked
          /\ fate'   = [fate EXCEPT ![p] = IF accepted = {} THEN "refused"
                                           ELSE "entered"]
          /\ halted' = (accepted \notin {{}, Markets})
          /\ orders' = [t \in Trades |-> IF tracked[t]
                          THEN [status |-> "submitted", filled |-> 0]
                          ELSE orders[t]]
          /\ venue'  = [t \in Trades |-> IF taken[t]
                          THEN [status |-> "submitted", filled |-> 0]
                          ELSE venue[t]]
  /\ UNCHANGED <<channel, winner, saved, boots>>

-----------------------------------------------------------------------------
\* The venue, and the user channel

\* A FAK order is matched, in whole or in part, or killed; what is matched is
\* mined, retried, and final or failed.
VenueStep(t) ==
  /\ venue[t] # NoOrder /\ Len(channel[t]) < MaxQueued
  /\ \E s \in Follows[venue[t].status] :
       /\ s = "failed" => venue[t].status # "submitted"
       /\ s = "mined" => venue[t].status # "retrying"   \* bound: one mining
       /\ \E n \in Sizes :
            venue' = [venue EXCEPT ![t] =
              [status |-> s,
               filled |-> IF s = "matched" THEN n ELSE @.filled]]
       /\ channel' = [channel EXCEPT ![t] = Append(@, s)]
  /\ UNCHANGED <<pm, ledger, orders, winner, halted, saved, fate, boots>>

\* process_fill_event: capital is priced at the order's price; mining changes
\* nothing.
BookFill(L, t, s, shares) ==
  LET capital == Order.price[t[2]] * shares
  IN CASE s = "matched"   -> Books!EnterSuspense(L, t, t[1], <<"token", t[2]>>,
                                                 shares, capital, Fee(capital))
       [] s = "confirmed" -> Books!ConfirmFromSuspense(L, t)
       [] s = "retrying"  -> Books!MarkSuspenseRetrying(L, t)
       [] s = "failed"    -> Books!ReverseSuspense(L, t)
       [] OTHER           -> L

\* Mutant: the leg counts as filled as soon as it is matched.
MutMarkFill(P, t, s, shares) ==
  CASE s \in {"matched", "confirmed"} ->
         UpdateLegFillStatus(P, t[1], t[2], shares, "accepted")
    [] s = "failed" -> UpdateLegFillStatus(P, t[1], t[2], 0, "rejected")
    [] OTHER -> P
MarkFill(P, t, s, shares) ==
  CASE s = "confirmed" -> UpdateLegFillStatus(P, t[1], t[2], shares, "accepted")
    [] s = "failed"    -> UpdateLegFillStatus(P, t[1], t[2], 0, "rejected")
    [] OTHER           -> P

\* An event of an order that is not tracked, or that the status machine does
\* not allow, is ignored; so is a finality the ledger knows nothing of.
Dispatch(t) ==
  /\ channel[t] # <<>>
  /\ channel' = [channel EXCEPT ![t] = Tail(@)]
  /\ LET s == Head(channel[t])
         shares == IF s = "cancelled" THEN orders[t].filled ELSE venue[t].filled
     IN IF Tracked(t) /\ s \in Follows[orders[t].status]
        THEN /\ orders' = [orders EXCEPT ![t] = [status |-> s, filled |-> shares]]
             /\ ledger' = BookFill(ledger, t, s, shares)
             /\ pm' = IF s \in {"confirmed", "failed"} /\ ledger' = ledger
                      THEN pm ELSE MarkFill(pm, t, s, shares)
        ELSE UNCHANGED <<orders, ledger, pm>>
  /\ UNCHANGED <<venue, winner, halted, saved, fate, boots>>

\* A lost connection, a full queue or another receiver takes an event away.
Lose(t) ==
  /\ channel[t] # <<>>
  /\ channel' = [channel EXCEPT ![t] = Tail(@)]
  /\ UNCHANGED <<pm, ledger, orders, venue, winner, halted, saved, fate, boots>>

-----------------------------------------------------------------------------
\* Reconciliation

\* compare_positions: the venue reports tokens of a positive size only.
Missing(P, p) == {m \in Markets : Wallet(m) = 0}
Differing(P, p) ==
  {m \in Markets : Wallet(m) > 0 /\ Wallet(m) # P.open[p].legs[m].shares}
Delta(P, p, m) == Wallet(m) - P.open[p].legs[m].shares
Passed(P, p) ==
  /\ Missing(P, p) = {}
  /\ \A m \in Differing(P, p) : Delta(P, p, m) \in -Threshold..Threshold

\* A wallet that reads empty is not acted on; other tokens in it (dust, an
\* orphan) are only warned of, but it is not empty then.
Acted(P, p, others) ==
  ~Passed(P, p) /\ (others \/ \E m \in Markets : Wallet(m) > 0)

\* Legs take the venue's shares.  The venue's markets have other ids than the
\* engine's, so the adjustment finds neither price nor asset.
AdjustShares(P, p) ==
  LET d == Differing(P, p)
  IN [P EXCEPT !.open[p].legs =
        [m \in Markets |-> IF m \in d THEN [@[m] EXCEPT !.shares = Wallet(m)]
                           ELSE @[m]]]
BookAdjustments(L, P, p) ==
  FoldSet(LAMBDA m, l : Books!RecordReconciliationAdjustment(
                          l, p, NoAsset, Delta(P, p, m), 0),
          L, Differing(P, p))

\* One missing leg is enough, if no leg has confirmed shares.
TakenForPhantom(P, p) ==
  /\ Missing(P, p) # {}
  /\ \A m \in Markets : P.open[p].legs[m].actual = 0

\* What a reconciliation makes of the manager, the ledger and the fates.
Reconciled(P, L, f, others) ==
  LET ps == {p \in OpenPids(P) : Acted(P, p, others)}
  IN IF ps = {} THEN [pm |-> P, ledger |-> L, fate |-> f]
     ELSE LET p == CHOOSE q \in ps : TRUE
              adjusted == AdjustShares(P, p)
              booked   == BookAdjustments(L, P, p)
          IN IF TakenForPhantom(P, p)
             THEN [pm |-> RolledBack(adjusted, p),
                   ledger |-> Books!ReverseBuyByPosition(booked, p),
                   fate |-> [f EXCEPT ![p] = "rolledback"]]
             ELSE [pm |-> adjusted, ledger |-> booked, fate |-> f]

Reconcile ==
  /\ \E others \in BOOLEAN :
       LET r == Reconciled(pm, ledger, fate, others)
       IN pm' = r.pm /\ ledger' = r.ledger /\ fate' = r.fate
  /\ UNCHANGED <<orders, venue, channel, winner, halted, saved, boots>>

-----------------------------------------------------------------------------
\* Resolution

Resolve(m) ==
  /\ winner = Nobody
  /\ winner' = m
  /\ UNCHANGED <<pm, ledger, orders, venue, channel, halted, saved, fate, boots>>

\* Mutant: a match is enough.
MutHasConfirmedFills(p) ==
  \E m \in Markets : orders[<<p, m>>].filled > 0
HasConfirmedFills(p) ==
  \E m \in Markets : /\ orders[<<p, m>>].status = "confirmed"
                     /\ orders[<<p, m>>].filled > 0

ReversePhantomPayout(P, payout, profit) ==
  AdjustTotalProfit(AdjustCapital(P, -payout), -profit)

\* The poll closes the position, with the payout of its intended shares, and
\* takes the payout back from a position it holds to be a phantom, unless the
\* position is exempt.  The ledger hears of neither.
PollResolution(p) ==
  /\ winner # Nobody /\ IsOpen(pm, p)
  /\ LET closed == CloseOnResolution(pm, p, winner)
         last   == closed.closed[Len(closed.closed)].pos
     IN IF HasConfirmedFills(p) \/ p \in Exempt
        THEN pm' = closed /\ fate' = [fate EXCEPT ![p] = "paid"]
        ELSE /\ pm' = ReversePhantomPayout(closed, last.payout, last.profit)
             /\ fate' = [fate EXCEPT ![p] = "reversed"]
  /\ UNCHANGED <<ledger, orders, venue, channel, winner, halted, saved, boots>>

\* The feed has a market_resolved event with its asset for every market of the
\* position in one batch, and closes it without a look at its fills.
FeedResolves(p) ==
  /\ winner # Nobody /\ IsOpen(pm, p)
  /\ pm' = CloseOnResolution(pm, p, winner)
  /\ fate' = [fate EXCEPT ![p] = "fed"]
  /\ UNCHANGED <<ledger, orders, venue, channel, winner, halted, saved, boots>>

-----------------------------------------------------------------------------
\* The process

Save ==
  /\ saved' = [pm |-> pm, ledger |-> ledger]
  /\ UNCHANGED <<pm, ledger, orders, venue, channel, winner, halted, fate, boots>>

\* The sweep of orphan orders, if the venue answers.
Swept(v) == [t \in Trades |-> IF v[t].status = "submitted"
                                THEN [v[t] EXCEPT !.status = "cancelled"] ELSE v[t]]

\* load_state, the startup reconciliation and the sweep, each of which the
\* venue may fail.  The tracked orders, the trip and the events of the
\* meantime are gone.
Restart ==
  /\ boots < MaxBoots /\ boots' = boots + 1
  /\ LET P == ImportPositions(saved.pm)
     IN \E r \in {Reconciled(P, saved.ledger, fate, others) : others \in BOOLEAN}
                \cup {[pm |-> P, ledger |-> saved.ledger, fate |-> fate]} :
          pm' = r.pm /\ ledger' = r.ledger /\ fate' = r.fate
  /\ venue'   \in {venue, Swept(venue)}
  /\ orders'  = [t \in Trades |-> NoOrder]
  /\ channel' = [t \in Trades |-> <<>>]
  /\ halted'  = FALSE
  /\ UNCHANGED <<winner, saved>>

Next ==
  \/ \E p \in Pids : Enter(p)
  \/ \E t \in Trades : VenueStep(t)
  \/ \E t \in Trades : Dispatch(t)
  \/ \E t \in Trades : Lose(t)
  \/ Reconcile
  \/ \E m \in Markets : Resolve(m)
  \/ \E p \in Pids : PollResolution(p)
  \/ \E p \in Pids : FeedResolves(p)
  \/ Save
  \/ Restart

Spec == Init /\ [][Next]_vars

-----------------------------------------------------------------------------
OrderRecord == [status: OrderStatus, filled: Nat] \cup {NoOrder}
Fates == {"unused", "refused", "entered", "rolledback", "paid", "fed",
          "reversed"}

TypeOK ==
  /\ pm \in Manager
  /\ ledger \in Books!LedgerType
  /\ orders \in [Trades -> OrderRecord]
  /\ venue \in [Trades -> OrderRecord]
  /\ channel \in [Trades -> Seq(OrderStatus)]
  /\ winner \in Markets \cup {Nobody}
  /\ halted \in BOOLEAN
  /\ saved \in [pm: Manager, ledger: Books!LedgerType]
  /\ fate \in [Pids -> Fates]
  /\ boots \in 1..MaxBoots

SomeLegSettled(p) == \E m \in Markets : Settled(<<p, m>>)

\* The shares a leg is said to have really got have settled in the wallet,
\* and survive a restart as such (dispatch_user_event).
ActualIsSettled ==
  \A p \in OpenPids(pm) : \A m \in Markets :
    LET actual == pm.open[p].legs[m].actual
    IN actual > 0 => Settled(<<p, m>>) /\ venue[<<p, m>>].filled = actual

\* "a position that never had real CLOB fills must NOT receive resolution
\* payout" (do_periodic_tasks): a payout that the poll lets stand was for a
\* position of which some leg has settled, or that is marked exempt.
PayoutIsReal ==
  \A p \in Pids : fate[p] = "paid" /\ p \notin Exempt => SomeLegSettled(p)
=============================================================================
