----------------------------- MODULE LiveExits -----------------------------
(***************************************************************************)
(* Selling a live position before its resolution, and the kill switch:     *)
(* check_proactive_exits and the exit of a replacement                     *)
(* (rust_supervisor/src/orchestrator.rs), the wait for fills by the user   *)
(* channel and by polling (rust_engine/src/fill_confirmation.rs), the      *)
(* booking of what was sold by manager and ledger (rust_engine/src/lib.rs, *)
(* apply_exit_fills, liquidate_position), check_kill_switch.               *)
(*                                                                         *)
(* One position is sold, in one or several attempts.  A share sells for    *)
(* one unit.  The venue matches a sale at once, wholly or in part, in one  *)
(* trade or two, and reports each trade twice or not at all: when it is    *)
(* matched, and when it has settled or failed on chain.  A sale that fails *)
(* gives the shares back.  The purchases have settled; their reports may   *)
(* still be under way.  A report names the asset it is about, which is     *)
(* that of the leg for a purchase and for a sale.                          *)
(***************************************************************************)
EXTENDS Naturals, SequencesExt

CONSTANTS
  Legs,
  Size,       \* shares of each leg bought
  Room,       \* events the user channel holds
  MaxSales    \* bound: trades that sell

ASSUME SizesAssumption ==
  IsFiniteSet(Legs) /\ Legs # {} /\ Size \in [Legs -> Nat \ {0}]
ASSUME BoundsAssumption == Room \in Nat \ {0} /\ MaxSales \in Nat

VARIABLES
  executor,  \* an executor was built at the start
  shadow,    \* cfg.shadow_only
  shares,    \* shares the manager holds of each leg
  isOpen,    \* the position is open
  cooling,   \* replace_exit_cooldowns has the position
  booked,    \* shares whose sale the ledger has booked
  keys,      \* dedup keys the ledger has seen
  wallet,    \* shares in the wallet at the venue
  trades,    \* trades of each leg at the venue
  channel,   \* UserChannelClient.receiver: its events
  exit,      \* the attempt that is waiting for its fills
  request,   \* the kill switch was asked for and not yet looked at
  killed,    \* kill_switch_activated
  live,      \* history: orders of an entry were submitted after the kill switch acted
  undone,    \* history: shares of sales that were booked and failed
  misread,   \* history: shares taken off the books for no sale of theirs
  paper      \* history: shares sold on paper

books == <<shares, isOpen, booked, keys>>
venue == <<wallet, trades>>
kill == <<request, killed, shadow>>
causes == <<undone, misread, paper>>
exitsVars == <<books, venue, kill, executor, cooling, channel, exit, live, causes>>

\* told: the books have taken the sale off.
Trades == [size : Nat, sale : BOOLEAN, reports : 0..2, failed : BOOLEAN, told : BOOLEAN]
Events == [leg : Legs, trade : Nat, ok : BOOLEAN]

\* No leg waits, nothing was found.
NoExit == [busy |-> FALSE, pending |-> {}, polled |-> {}, asked |-> [l \in Legs |-> 0],
           fill |-> [l \in Legs |-> 0], polls |-> [l \in Legs |-> 0], path |-> "none"]

Trade(size, sale, reports) ==
  [size |-> size, sale |-> sale, reports |-> reports, failed |-> FALSE, told |-> FALSE]

\* A process with an executor is live and holds what it bought; the others
\* have bought on paper.
ExitsInit ==
  /\ executor \in BOOLEAN /\ shadow \in BOOLEAN /\ (executor => ~shadow)
  /\ shares = Size /\ isOpen = TRUE /\ cooling = FALSE
  /\ booked = [l \in Legs |-> 0] /\ keys = {}
  /\ wallet = IF executor THEN Size ELSE [l \in Legs |-> 0]
  /\ IF executor
     THEN \E r \in [Legs -> 0..2] : trades = [l \in Legs |-> <<Trade(Size[l], FALSE, r[l])>>]
     ELSE trades = [l \in Legs |-> <<>>]
  /\ channel = <<>> /\ exit = NoExit
  /\ request = FALSE /\ killed = FALSE
  /\ live = FALSE
  /\ undone = [l \in Legs |-> 0] /\ misread = [l \in Legs |-> 0] /\ paper = [l \in Legs |-> 0]

-----------------------------------------------------------------------------
(* The venue.                                                              *)

\* A trade is reported; the event is lost, or dropped when the channel is full.
Emit(e) ==
  \/ Len(channel) < Room /\ channel' = Append(channel, e)
  \/ UNCHANGED channel

Report(l, i) ==
  /\ trades[l][i].reports < 2
  /\ trades' = [trades EXCEPT ![l][i].reports = @ + 1]
  /\ Emit([leg |-> l, trade |-> i, ok |-> TRUE])
  /\ UNCHANGED <<books, wallet, kill, executor, cooling, exit, live, causes>>

\* The second report of a sale is that it failed: its shares come back.
Fail(l, i) ==
  /\ trades[l][i].sale /\ trades[l][i].reports = 1
  /\ trades' = [trades EXCEPT ![l][i].reports = 2, ![l][i].failed = TRUE]
  /\ wallet' = [wallet EXCEPT ![l] = @ + trades[l][i].size]
  /\ undone' = IF trades[l][i].told
               THEN [undone EXCEPT ![l] = @ + trades[l][i].size] ELSE undone
  /\ Emit([leg |-> l, trade |-> i, ok |-> FALSE])
  /\ UNCHANGED <<books, kill, executor, cooling, exit, live, misread, paper>>

\* A trade that has just been matched.
Sale(n) == Trade(n, TRUE, 0)

\* The trades of one leg's order: none, one, or two.
SplitsOf(l) ==
  {<<>>} \cup {<<Sale(n)>> : n \in 1..wallet[l]}
         \cup {<<Sale(1), Sale(n - 1)>> : n \in 2..wallet[l]}

SoldIn(fills) == SumFunction([i \in DOMAIN fills |-> fills[i].size])

-----------------------------------------------------------------------------
(* The exits.                                                              *)

\* An order for everything the manager holds of each leg that has a bid
\* (execute_position_exit).  The venue accepts some and matches what it can.
Submit(path) ==
  /\ \E asked \in SUBSET {l \in Legs : shares[l] > 0} :
       /\ asked # {}
       /\ \E fills \in [Legs -> UNION {SplitsOf(l) : l \in Legs}] :
            /\ \A l \in Legs : /\ fills[l] \in SplitsOf(l) /\ SoldIn(fills[l]) <= shares[l]
                               /\ l \notin asked => fills[l] = <<>>
            /\ trades' = [l \in Legs |-> trades[l] \o fills[l]]
            /\ SumFunction([l \in Legs |-> Len(trades'[l])]) <= Cardinality(Legs) + MaxSales
            /\ wallet' = [l \in Legs |-> wallet[l] - SoldIn(fills[l])]
       /\ exit' = [NoExit EXCEPT !.busy = TRUE, !.pending = asked, !.polled = asked, !.path = path,
                     !.asked = [l \in Legs |-> IF l \in asked THEN shares[l] ELSE 0]]
  /\ UNCHANGED <<books, kill, executor, cooling, channel, live, causes>>

LiveMode == ~shadow /\ executor

\* check_proactive_exits, and the exit of try_enter_or_replace: not while the
\* cooldown of the position runs.
Proactive == ~exit.busy /\ isOpen /\ LiveMode /\ Submit("proactive")
Replaced == ~exit.busy /\ isOpen /\ LiveMode /\ ~cooling /\ Submit("replaced")

\* wait_for_matched_fills: the first event about the asset of a leg that does
\* not report a failure is taken for its fill; every other event is dropped.
Receive ==
  /\ exit.busy /\ channel # <<>>
  /\ LET e == Head(channel)
     IN exit' = IF e.ok /\ e.leg \in exit.pending
                THEN [exit EXCEPT !.pending = @ \ {e.leg}, !.fill[e.leg] = e.trade] ELSE exit
  /\ channel' = Tail(channel)
  /\ UNCHANGED <<books, venue, kill, executor, cooling, live, causes>>

\* poll_data_api_for_fills: a fill is an increase over the shares asked for.
Poll(l) ==
  /\ exit.busy /\ l \in exit.polled /\ wallet[l] > exit.asked[l]
  /\ exit' = [exit EXCEPT !.polled = @ \ {l}, !.polls[l] = wallet[l] - exit.asked[l]]
  /\ UNCHANGED <<books, venue, kill, executor, cooling, channel, live, causes>>

\* confirm_fills_parallel: what the channel reported counts first.
Confirmed(l) == IF exit.fill[l] # 0 THEN trades[l][exit.fill[l]].size ELSE exit.polls[l]

\* Mutant: a fill in part takes the whole leg off.
MutWhole(l) == IF Confirmed(l) > 0 THEN shares[l] ELSE 0
\* Mutant: manager takes off what was confirmed, also more than it holds.
MutCleared(l) == Confirmed(l)
Cleared(l) == Min({Confirmed(l), shares[l]})

\* The fill of a leg is a sale, and the first report of it that is booked.
Right(l) ==
  exit.fill[l] # 0 /\ LET t == trades[l][exit.fill[l]] IN t.sale /\ ~t.told

\* The ledger books the sale of a leg once, under the key of position and
\* market, with the shares of the event.
LedgerSale(key, amount) ==
  LET new == {l \in Legs : amount[l] > 0 /\ <<key, l>> \notin keys}
  IN /\ booked' = [l \in Legs |-> IF l \in new THEN booked[l] + amount[l] ELSE booked[l]]
     /\ keys' = keys \cup {<<key, l>> : l \in new}

\* Both waits have ended, complete or by their timeouts: without a fill the
\* position holds, otherwise manager and ledger book (apply_exit_fills).
Book ==
  /\ exit.busy
  /\ IF \A l \in Legs : Confirmed(l) = 0
     THEN /\ cooling' = (cooling \/ exit.path = "replaced")
          /\ UNCHANGED books
     ELSE /\ shares' = [l \in Legs |-> shares[l] - Cleared(l)]
          /\ isOpen' = (\E l \in Legs : shares'[l] > 0)
          /\ LedgerSale("exit", [l \in Legs |-> Confirmed(l)])
          /\ UNCHANGED cooling
  /\ trades' = [l \in Legs |-> IF Right(l) THEN [trades[l] EXCEPT ![exit.fill[l]].told = TRUE]
                               ELSE trades[l]]
  /\ undone' = [l \in Legs |-> IF Right(l) /\ trades[l][exit.fill[l]].failed
                               THEN undone[l] + Confirmed(l) ELSE undone[l]]
  /\ misread' = [l \in Legs |-> IF Right(l) THEN misread[l] ELSE misread[l] + Cleared(l)]
  /\ exit' = NoExit
  /\ UNCHANGED <<wallet, kill, executor, channel, live, paper>>

\* Mutant: the ledger books the sale of everything that was bought.
MutPaper(l) == Size[l]
Held(l) == shares[l]

\* Shadow mode, at the start or after the kill switch: liquidate_position
\* sells everything at the bid, on paper.
Liquidate ==
  /\ ~exit.busy /\ isOpen /\ ~LiveMode
  /\ shares' = [l \in Legs |-> 0] /\ isOpen' = FALSE
  /\ LedgerSale("liquidate", [l \in Legs |-> Held(l)])
  /\ paper' = [l \in Legs |-> paper[l] + shares[l]]
  /\ UNCHANGED <<venue, kill, executor, cooling, channel, exit, live, undone, misread>>

\* The cooldown of a replacement runs out.
CoolDown ==
  /\ cooling /\ cooling' = FALSE
  /\ UNCHANGED <<books, venue, kill, executor, channel, exit, live, causes>>

-----------------------------------------------------------------------------
(* The rest of the loop.                                                   *)

\* drain_user_events: between two exits the tick takes the events.
Dispatch ==
  /\ ~exit.busy /\ channel # <<>>
  /\ channel' = Tail(channel)
  /\ UNCHANGED <<books, venue, kill, executor, cooling, exit, live, causes>>

\* Another position is entered or replaces this one; with an executor its
\* orders are submitted, whatever the mode is by now.
Enter ==
  /\ ~exit.busy /\ executor
  /\ live' = (live \/ killed)
  /\ UNCHANGED <<books, venue, kill, executor, cooling, channel, exit, causes>>

\* The dashboard, the file or the Telegram poll sets the flag, also after it
\* was acted on: nobody looks then.
Ask ==
  /\ ~request /\ request' = TRUE
  /\ UNCHANGED <<books, venue, shadow, killed, executor, cooling, channel, exit, live, causes>>

\* Mutant: the switch is looked at only where nothing is held.
MutKillIdle ==
  /\ ~exit.busy /\ ~isOpen /\ request /\ ~killed
  /\ killed' = TRUE /\ shadow' = TRUE /\ request' = FALSE
  /\ UNCHANGED <<books, venue, executor, cooling, channel, exit, live, causes>>

\* check_kill_switch, once a tick: the mode becomes shadow, the executor stays.
Kill ==
  /\ ~exit.busy /\ request /\ ~killed
  /\ killed' = TRUE /\ shadow' = TRUE /\ request' = FALSE
  /\ UNCHANGED <<books, venue, executor, cooling, channel, exit, live, causes>>

Exits ==
  \/ Proactive \/ Replaced \/ Receive \/ Book \/ Liquidate \/ CoolDown
  \/ \E l \in Legs : Poll(l)

ExitsNext ==
  \/ \E l \in Legs : \E i \in DOMAIN trades[l] : Report(l, i) \/ Fail(l, i)
  \/ Exits \/ Dispatch \/ Enter \/ Ask \/ Kill

ExitsSpec == ExitsInit /\ [][ExitsNext]_exitsVars

\* Every wait has a timeout, and the switch is looked at in every tick.
ExitsFairSpec == ExitsSpec /\ WF_exitsVars(Book) /\ SF_exitsVars(Kill)

-----------------------------------------------------------------------------
ExitsTypeOK ==
  /\ executor \in BOOLEAN /\ shadow \in BOOLEAN /\ isOpen \in BOOLEAN /\ cooling \in BOOLEAN
  /\ shares \in [Legs -> Nat] /\ booked \in [Legs -> Nat] /\ wallet \in [Legs -> Nat]
  /\ \A l \in Legs : shares[l] <= Size[l] /\ wallet[l] <= Size[l]
  /\ keys \subseteq {"exit", "liquidate"} \X Legs
  /\ trades \in [Legs -> Seq(Trades)]
  /\ channel \in Seq(Events) /\ Len(channel) <= Room
  /\ \A k \in DOMAIN channel : channel[k].trade \in DOMAIN trades[channel[k].leg]
  /\ exit.busy \in BOOLEAN /\ exit.pending \subseteq Legs /\ exit.polled \subseteq Legs
  /\ exit.asked \in [Legs -> Nat] /\ exit.polls \in [Legs -> Nat]
  /\ \A l \in Legs : exit.fill[l] \in {0} \cup DOMAIN trades[l]
  /\ request \in BOOLEAN /\ killed \in BOOLEAN /\ live \in BOOLEAN
  /\ undone \in [Legs -> Nat] /\ misread \in [Legs -> Nat] /\ paper \in [Legs -> Nat]
  /\ isOpen = (\E l \in Legs : shares[l] > 0)

\* Shares that are in the wallet and off the books got there in one of three
\* ways: a sale was booked when it matched and failed later; an attempt took
\* the report of a purchase, a second report of a sale or a difference found
\* by polling for a fill of its own; or the position was sold on paper when
\* the process was no longer live.  Partial sales, sales in several trades,
\* reports that are lost, repeated or late, both sources and timeouts add
\* nothing to that (orchestrator.rs:3963, "only booking proceeds from actual
\* fills").
BooksAheadExplained ==
  \A l \in Legs : wallet[l] <= shares[l] + undone[l] + misread[l] + paper[l]

\* The ledger never books more shares of a leg as sold than the manager took
\* off the position: over live attempts under one key, whatever trade their
\* reports were about, and a paper sale of the rest under another.
LedgerNotAhead == \A l \in Legs : booked[l] + shares[l] <= Size[l]

\* The kill switch is acted on, also when an exit waits for fills that never
\* come.
KillActs == request ~> killed

\* "no live trades will be placed" (orchestrator.rs:1845).
NoLiveTrades == ~live
=============================================================================
