-------------------------- MODULE OrderSubmission --------------------------
(***************************************************************************)
(* From the legs of an entry or an exit to orders at the venue: the        *)
(* executor (rust_engine/src/executor.rs: execute_arb_batch with its       *)
(* fallback execute_arb, submit_to_clob, update_trade_status,              *)
(* cancel_all_orders), what the orchestrator makes of the answers          *)
(* (orchestrator.rs, try_enter_or_replace) and the sweep of stray orders   *)
(* at the start (reconciliation.rs).  A dry run submits nothing: left out. *)
(*                                                                         *)
(* The rate limiter may refuse any request: its buckets are not modelled.  *)
(* The id of an order is its place in the list of orders the venue took.   *)
(* The venue may take an order although its answer never arrives or cannot *)
(* be read.  An order is live until it is matched or gone.                 *)
(***************************************************************************)
EXTENDS Naturals, SequencesExt, FiniteSetsExt

CONSTANTS
  Positions,
  Legs,
  BatchLimit,   \* orders in one batch, at most
  MaxOrders,    \* bound: orders the venue takes
  MaxRestarts   \* bound

ASSUME LimitsAssumption ==
  /\ IsFiniteSet(Legs)
  /\ BatchLimit \in Nat \ {0} /\ MaxOrders \in Nat /\ MaxRestarts \in Nat

VARIABLES
  orders,    \* at the venue
  tracked,   \* Executor.tracked: the status of each order known by its id
  call,      \* the call of the executor that runs
  position,  \* the positions of the manager
  mark,      \* LegFillStatus of each leg
  strays,    \* history: orders whose answer did not arrive or was unreadable
  forgotten, \* history: orders that were tracked when the process died
  restarts

books == <<position, mark>>
vars == <<orders, tracked, call, books, strays, forgotten, restarts>>

\* Matched stands for Mined and Retrying too, Confirmed for Failed
\* (LiveTrading has them all).
Statuses == {"Submitted", "Matched", "Confirmed", "Cancelled"}
Terminal == {"Confirmed", "Cancelled"}
Ids == DOMAIN orders

NoCall == [at |-> "idle", kind |-> "none", pos |-> "none", todo |-> {},
           results |-> [l \in Legs |-> "none"]]

Init ==
  /\ orders = <<>> /\ tracked = <<>>
  /\ call = NoCall
  /\ position = [p \in Positions |-> "free"]
  /\ mark = [p \in Positions |-> [l \in Legs |-> "none"]]
  /\ strays = {} /\ forgotten = {} /\ restarts = 0

-----------------------------------------------------------------------------
(* The calls.                                                              *)

\* An entry or a replacement was booked and is submitted as a batch, or a
\* position is sold leg by leg.
Begin(p, kind, legs) ==
  /\ call.at = "idle" /\ legs # {}
  /\ position[p] = IF kind = "exit" THEN "open" ELSE "free"
  /\ position' = [position EXCEPT ![p] = "open"]
  /\ call' = [NoCall EXCEPT !.at = IF kind = "exit" THEN "sequence" ELSE "batch",
                !.kind = kind, !.pos = p, !.todo = legs]
  /\ UNCHANGED <<orders, tracked, mark, strays, forgotten, restarts>>

Answered(results) == [call EXCEPT !.at = "answered", !.todo = {}, !.results = results]
Rejected(legs) == [l \in Legs |-> IF l \in legs THEN "rejected" ELSE call.results[l]]

\* Preparing the legs fails for some: nothing is submitted.  The answer then
\* has only the failures, and the orchestrator lays them on the first legs.
PrepareFails ==
  /\ call.at = "batch"
  /\ \E bad \in SUBSET call.todo : bad # {} /\ call' = Answered(Rejected(bad))
  /\ UNCHANGED <<orders, tracked, books, strays, forgotten, restarts>>

\* The limiter here or at the venue refuses the batch: the answer has one
\* refusal for all legs.
BatchLimited ==
  /\ call.at = "batch"
  /\ \E l \in call.todo : call' = Answered(Rejected({l}))
  /\ UNCHANGED <<orders, tracked, books, strays, forgotten, restarts>>

\* Too many legs: every leg goes by itself.
TooLong ==
  /\ call.at = "batch" /\ Cardinality(call.todo) > BatchLimit
  /\ call' = [call EXCEPT !.at = "sequence"]
  /\ UNCHANGED <<orders, tracked, books, strays, forgotten, restarts>>

Order(l) == [pos |-> call.pos, leg |-> l, kind |-> call.kind, state |-> "live"]

\* The venue takes the orders of some legs; their ids are the new ones.
Take(legs) ==
  /\ Len(orders) + Cardinality(legs) <= MaxOrders
  /\ LET new == SetToSeq(legs)
     IN orders' = orders \o [i \in DOMAIN new |-> Order(new[i])]
\* Mutant: the order of a leg is found by its leg.
MutNewIds(legs) == {o \in DOMAIN orders' : orders'[o].leg \in legs}
NewIds(legs) == {o \in DOMAIN orders' \ DOMAIN orders : orders'[o].leg \in legs}

Track(ids) == [o \in DOMAIN tracked \cup ids |-> IF o \in ids THEN "Submitted" ELSE tracked[o]]

\* Mutant: the accepted entries are given to the legs in order.
MutLegsOf(heard) == CHOOSE legs \in SUBSET call.todo : Cardinality(legs) = Cardinality(heard)
\* An entry of the answer is read at the place of its leg.
LegsOf(heard) == heard

\* Mutant: one refused leg is reason enough to submit all of them again.
MutFallsBack(taken) == taken # call.todo
\* Another status than success leads to single submissions.
FallsBack(taken) == taken = {}

\* The batch is sent.  Its answer says of the legs that were taken which ones
\* were, of all of them unless it is unreadable or incomplete; or it is not an
\* answer to the batch, or none comes: the legs are submitted one by one,
\* whatever the venue took.
PostBatch ==
  /\ call.at = "batch" /\ Cardinality(call.todo) <= BatchLimit
  /\ \E taken \in SUBSET call.todo :
       /\ Take(taken)
       /\ \/ \E heard \in SUBSET taken :
               /\ tracked' = Track(NewIds(heard))
               /\ strays' = strays \cup NewIds(taken \ heard)
               /\ call' = Answered([l \in Legs |-> IF l \in LegsOf(heard) THEN "accepted"
                                     ELSE IF l \in call.todo THEN "rejected" ELSE "none"])
          \/ /\ FallsBack(taken) /\ call' = [call EXCEPT !.at = "sequence"]
             /\ tracked' = Track(NewIds(taken)) /\ UNCHANGED strays
          \/ /\ call' = [call EXCEPT !.at = "sequence"]
             /\ strays' = strays \cup NewIds(taken) /\ UNCHANGED tracked
  /\ UNCHANGED <<books, forgotten, restarts>>

\* execute_single_leg: it cannot be prepared or the limiter refuses it.
LegRefused(l) ==
  /\ call.at = "sequence" /\ l \in call.todo
  /\ call' = [call EXCEPT !.todo = @ \ {l}, !.results[l] = "rejected"]
  /\ UNCHANGED <<orders, tracked, books, strays, forgotten, restarts>>

\* submit_to_clob: the answer has the order's id, or is an error, cannot be
\* read, has no id or does not come in time.
PostLeg(l) ==
  /\ call.at = "sequence" /\ l \in call.todo
  /\ \/ /\ Take({l})
        /\ tracked' = Track(NewIds({l}))
        /\ call' = [call EXCEPT !.todo = @ \ {l}, !.results[l] = "accepted"]
        /\ UNCHANGED strays
     \/ /\ Take({l}) \/ UNCHANGED orders
        /\ strays' = strays \cup NewIds({l})
        /\ call' = [call EXCEPT !.todo = @ \ {l}, !.results[l] = "rejected"]
        /\ UNCHANGED tracked
  /\ UNCHANGED <<books, forgotten, restarts>>

Sequenced ==
  /\ call.at = "sequence" /\ call.todo = {}
  /\ call' = [call EXCEPT !.at = "answered"]
  /\ UNCHANGED <<orders, tracked, books, strays, forgotten, restarts>>

Accepted == {l \in Legs : call.results[l] = "accepted"}
RejectedLegs == {l \in Legs : call.results[l] = "rejected"}

Undo == Accepted = {}

\* The orchestrator marks the legs and rolls back an entry without any
\* accepted leg (that a partial one halts trading is part of SafetyLoop).
Finish ==
  /\ call.at = "answered"
  /\ IF call.kind = "exit" THEN UNCHANGED books
     ELSE /\ mark' = [mark EXCEPT ![call.pos] = [l \in Legs |->
                        IF l \in Accepted THEN "pending"
                        ELSE IF l \in RejectedLegs THEN "rejected" ELSE @[l]]]
          /\ position' = IF Undo THEN [position EXCEPT ![call.pos] = "undone"] ELSE position
  /\ call' = NoCall
  /\ UNCHANGED <<orders, tracked, strays, forgotten, restarts>>

-----------------------------------------------------------------------------
(* The orders.                                                             *)

\* A live order is matched, or expires unmatched.
Settle(o) ==
  /\ orders[o].state = "live"
  /\ \E s \in {"matched", "gone"} : orders' = [orders EXCEPT ![o].state = s]
  /\ UNCHANGED <<tracked, call, books, strays, forgotten, restarts>>

CanTransition(from, to) ==
  \/ from = "Submitted" /\ to = "Matched"
  \/ from = "Matched" /\ to = "Confirmed"

\* update_trade_status with the event of a matched order, between two calls.
Update(o, status) ==
  /\ call.at = "idle" /\ o \in DOMAIN tracked
  /\ orders[o].state = "matched"
  /\ CanTransition(tracked[o], status)
  /\ tracked' = [tracked EXCEPT ![o] = status]
  /\ UNCHANGED <<orders, call, books, strays, forgotten, restarts>>

Pending == {o \in DOMAIN tracked : tracked[o] \notin Terminal}

\* The orders when the venue has cancelled these, as far as they were live.
Without(ids) ==
  [o \in Ids |-> IF o \in ids /\ orders[o].state = "live"
                 THEN [orders[o] EXCEPT !.state = "gone"] ELSE orders[o]]

\* cancel_all_orders: with an order pending the venue is asked to cancel
\* everything; the tracked ones are then cancelled whatever it answers.
CancelAll ==
  /\ call.at = "idle" /\ Pending # {}
  /\ tracked' = [o \in DOMAIN tracked |-> IF o \in Pending THEN "Cancelled" ELSE tracked[o]]
  /\ \/ UNCHANGED orders
     \/ orders' = Without(Ids)
  /\ UNCHANGED <<call, books, strays, forgotten, restarts>>

\* all_tracked_order_ids: what the sweep spares, the orders of this process.
Protected(known) == DOMAIN known

\* The process dies, also within a call; what is tracked is only in memory.
\* At the start the live orders nobody tracks are cancelled, if the venue can
\* be asked (sweep_orphan_orders).
Restart ==
  /\ restarts < MaxRestarts /\ restarts' = restarts + 1
  /\ forgotten' = forgotten \cup DOMAIN tracked
  /\ tracked' = <<>> /\ call' = NoCall
  /\ \/ UNCHANGED orders
     \/ orders' = Without(Ids \ Protected(tracked'))
  /\ UNCHANGED <<position, mark, strays>>

Executor ==
  \/ PrepareFails \/ BatchLimited \/ TooLong \/ PostBatch
  \/ \E l \in Legs : LegRefused(l) \/ PostLeg(l)
  \/ Sequenced \/ Finish

Next ==
  \/ \E p \in Positions, kind \in {"entry", "exit"}, legs \in SUBSET Legs :
       Begin(p, kind, legs)
  \/ Executor
  \/ \E o \in Ids : Settle(o)
  \/ \E o \in Ids, status \in {"Matched", "Confirmed"} : Update(o, status)
  \/ CancelAll \/ Restart

Spec == Init /\ [][Next]_vars

-----------------------------------------------------------------------------
Results == {"none", "accepted", "rejected"}
TypeOK ==
  /\ orders \in Seq([pos : Positions, leg : Legs, kind : {"entry", "exit"},
                     state : {"live", "matched", "gone"}])
  /\ Len(orders) <= MaxOrders
  /\ DOMAIN tracked \subseteq Ids /\ \A o \in DOMAIN tracked : tracked[o] \in Statuses
  /\ call.at \in {"idle", "batch", "sequence", "answered"} /\ call.todo \subseteq Legs
  /\ call.results \in [Legs -> Results] /\ call.pos \in Positions \cup {"none"}
  /\ position \in [Positions -> {"free", "open", "undone"}]
  /\ mark \in [Positions -> [Legs -> {"none", "pending", "rejected"}]]
  /\ strays \subseteq Ids /\ forgotten \subseteq Ids /\ restarts \in 0..MaxRestarts
  /\ DOMAIN tracked \cap (strays \cup forgotten) = {}

Entries(p, l) == {o \in Ids : orders[o].kind = "entry" /\ orders[o].pos = p /\ orders[o].leg = l}
Heard == DOMAIN tracked \cup forgotten

\* What the manager says of a leg is what the venue has of that very leg: one
\* order heard of behind a pending leg, none behind a rejected one, over
\* batches, incomplete answers and single submissions.
MarksMatchOrders ==
  \A p \in Positions, l \in Legs :
    /\ mark[p][l] = "pending" => Cardinality(Entries(p, l) \cap Heard) = 1
    /\ mark[p][l] = "rejected" => Entries(p, l) \cap Heard = {}

\* A leg of an entry has two orders at the venue only when the answer to one
\* of them was not heard: the fallback submits nothing again that was
\* answered.
TwiceOnlyUnheard ==
  \A p \in Positions, l \in Legs :
    Cardinality(Entries(p, l)) > 1 => Entries(p, l) \cap strays # {}
=============================================================================
