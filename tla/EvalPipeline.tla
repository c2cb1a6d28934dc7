---------------------------- MODULE EvalPipeline ----------------------------
(***************************************************************************)
(* From a book update to an entry: the feed threads that write the books   *)
(* (rust_engine/src/ws.rs, book.rs), the evaluation queue between them and *)
(* the orchestrator (queue.rs), the batch it evaluates (eval.rs) and the   *)
(* entries and replacements it makes of the batch (orchestrator.rs,        *)
(* try_enter_or_replace).                                                  *)
(*                                                                         *)
(* Prices are abstract.  known[a] says that asset a has had an effective   *)
(* fill price; whether an update moves it by more than the threshold, and  *)
(* whether a constraint whose legs are known is an arbitrage, are inputs.  *)
(* An asset stands for a market: a constraint holds an asset when it holds *)
(* the market.  A position is the constraint it was opened on.             *)
(***************************************************************************)
EXTENDS EvalQueue, FiniteSetsExt

CONSTANTS
  Assets,
  Legs,          \* the assets of each constraint
  Feeds,         \* threads that receive book updates
  MaxEvals,      \* max_evals_per_batch
  MaxPositions,  \* max_concurrent_positions
  MaxOpen,       \* bound: no replacement is entered beyond so many positions
  ScanResults,   \* bound: the sets of constraints a scan may find
  MaxScans,      \* bound: scans
  NotCached      \* held_ids_cache is None

ASSUME LimitsAssumption == MaxEvals \in Nat \ {0} /\ MaxPositions \in Nat
ASSUME LegsAssumption == Legs \in [Constraints -> SUBSET Assets]
ASSUME ScansAssumption == ScanResults \subseteq SUBSET Constraints

VARIABLES
  known,    \* assets that have had an effective fill price (last_efp # 0)
  store,    \* the constraints loaded
  index,    \* asset_to_constraints
  pushing,  \* per feed: the constraints its last update still has to push
  signals,  \* feeds that pushed an urgent entry and have not set the flag yet
  queue,
  wake,     \* wake_flag
  pc,       \* where the orchestrator is
  batch,    \* entries drained and not yet evaluated
  opps,     \* number of opportunities of each constraint in this batch
  cache,    \* held_ids_cache
  snap,     \* the copy of it this batch works with
  slots, entered,
  open,     \* number of open positions on each constraint
  scans,
  owed,     \* history: constraints with a change since they were last evaluated
  left,     \* history: the tick before this sleep left urgent entries
  old       \* history: what was held when this batch began

feedVars == <<known, pushing, signals>>
loopVars == <<pc, batch, opps, snap, slots, entered, left, old>>
vars == <<feedVars, loopVars, store, index, queue, wake, cache, open, scans, owed>>

NoEvals == [cons |-> {}, urgent |-> FALSE]
None == [c \in Constraints |-> 0]
Held(positions) == {c \in Constraints : positions[c] > 0}
Count(positions) == MapThenSumSet(LAMBDA c : positions[c], Constraints)
IndexOf(loaded) == [a \in Assets |-> {c \in loaded : a \in Legs[c]}]

Init ==
  /\ known = {}
  /\ store = Constraints /\ index = IndexOf(Constraints)
  /\ pushing = [f \in Feeds |-> NoEvals] /\ signals = {}
  /\ queue = EmptyQueue /\ wake = FALSE
  /\ pc = "wait" /\ batch = <<>> /\ opps = None
  /\ cache = NotCached /\ snap = {} /\ slots = 0 /\ entered = 0
  /\ open = None /\ scans = 0
  /\ owed = {} /\ left = FALSE /\ old = {}

-----------------------------------------------------------------------------
(* The feed threads.                                                       *)

\* A message changes the book of a (apply_snapshot, apply_delta,
\* apply_best_prices) and check_efp_drift finds a first price or a drift.
Update(f, a) ==
  /\ pushing[f] = NoEvals /\ f \notin signals
  /\ \E drifted \in BOOLEAN :
       /\ a \in known => drifted
       /\ pushing' = [pushing EXCEPT ![f] = IF index[a] = {} THEN NoEvals
                        ELSE [cons |-> index[a], urgent |-> drifted]]
  /\ known' = known \cup {a}
  /\ owed' = owed \cup index[a]
  /\ UNCHANGED <<signals, queue, wake, loopVars, store, index, cache, open, scans>>

PushNext(f) ==
  /\ f \notin signals
  /\ \E c \in pushing[f].cons :
       LET rest == pushing[f].cons \ {c}
       IN /\ queue' = Push(queue, c, pushing[f].urgent)
          /\ pushing' = [pushing EXCEPT ![f] =
               IF rest = {} THEN NoEvals ELSE [@ EXCEPT !.cons = rest]]
  /\ signals' = IF pushing[f].urgent THEN signals \cup {f} ELSE signals
  /\ UNCHANGED <<known, wake, loopVars, store, index, cache, open, scans, owed>>

\* Mutant: the flag is set only when the loop is found asleep.
MutSignal(f) ==
  /\ f \in signals
  /\ signals' = signals \ {f}
  /\ wake' = (wake \/ pc = "wait")
  /\ UNCHANGED <<known, pushing, queue, loopVars, store, index, cache, open, scans, owed>>

\* push releases the queue before it takes the lock of the flag.
Signal(f) ==
  /\ f \in signals
  /\ signals' = signals \ {f}
  /\ wake' = TRUE
  /\ UNCHANGED <<known, pushing, queue, loopVars, store, index, cache, open, scans, owed>>

\* A position is closed by a feed thread (handle_resolved) or by the
\* reconciler; neither clears the cache.
ClosedUnnoticed(c) ==
  /\ open[c] > 0
  /\ open' = [open EXCEPT ![c] = @ - 1]
  /\ UNCHANGED <<feedVars, loopVars, queue, wake, store, index, cache, scans, owed>>

-----------------------------------------------------------------------------
(* The orchestrator.                                                       *)

\* The data of the batch goes out of scope.
BatchGone == opps' = None /\ snap' = {} /\ slots' = 0 /\ entered' = 0 /\ old' = {}
BatchKept == UNCHANGED <<opps, snap, slots, entered, old>>

\* wait_for_work returns because of the flag or after its 50 ms.
Wake ==
  /\ pc = "wait" /\ pc' = "tick"
  /\ wake' = FALSE /\ left' = FALSE
  /\ UNCHANGED <<feedVars, batch, opps, snap, slots, entered, old,
                 queue, store, index, cache, open, scans, owed>>

\* The breaker does not allow trading: only the periodic tasks run.
Halted ==
  /\ pc = "tick" /\ pc' = "rest"
  /\ left' = (queue.urgent # <<>>)
  /\ UNCHANGED <<feedVars, batch, opps, snap, slots, entered, old,
                 queue, wake, store, index, cache, open, scans, owed>>

CurrentHeld == IF cache = NotCached THEN Held(open) ELSE cache

DrainBatch ==
  /\ pc = "tick" /\ pc' = "eval"
  /\ cache' = CurrentHeld /\ snap' = CurrentHeld
  /\ batch' = Drained(queue, MaxEvals)
  /\ queue' = AfterDrain(queue, MaxEvals)
  /\ opps' = None
  /\ left' = (queue'.urgent # <<>>)
  /\ old' = Held(open)
  /\ UNCHANGED <<feedVars, slots, entered, wake, store, index, open, scans, owed>>

\* Mutant: the markets are not looked at.
MutBlocked(c) == c \in snap

\* The constraint or one of its markets is in the snapshot.
Blocked(c) == \E d \in snap : d = c \/ Legs[d] \cap Legs[c] # {}

EvaluateNext ==
  /\ pc = "eval" /\ batch # <<>>
  /\ LET c == Head(batch)
     IN /\ \/ opps' = opps
           \/ /\ ~Blocked(c) /\ c \in store /\ Legs[c] \subseteq known
              /\ opps' = [opps EXCEPT ![c] = @ + 1]
        /\ owed' = owed \ {c}
  /\ batch' = Tail(batch)
  /\ UNCHANGED <<feedVars, pc, snap, slots, entered, left, old,
                 queue, wake, store, index, cache, open, scans>>

\* The slots are counted once; there are none when the capital is too small.
FreeSlots == IF Count(open) < MaxPositions THEN MaxPositions - Count(open) ELSE 0
BeginEntries ==
  /\ pc = "eval" /\ batch = <<>>
  /\ IF opps = None THEN pc' = "rest" /\ BatchGone
     ELSE pc' = "enter" /\ slots' \in {FreeSlots, 0} /\ UNCHANGED <<opps, snap, entered, old>>
  /\ UNCHANGED <<feedVars, batch, left, queue, wake, store, index, cache, open, scans, owed>>

\* One opportunity of the batch: passed over, entered, or entered and rolled
\* back because no leg was accepted.
EnterNext(c) ==
  /\ pc = "enter" /\ entered < slots /\ opps[c] > 0
  /\ opps' = [opps EXCEPT ![c] = @ - 1]
  /\ \/ UNCHANGED <<open, cache, entered>>
     \/ ~Blocked(c) /\ open' = [open EXCEPT ![c] = @ + 1]
                    /\ entered' = entered + 1 /\ cache' = NotCached
     \/ ~Blocked(c) /\ cache' = NotCached /\ UNCHANGED <<open, entered>>
  /\ UNCHANGED <<feedVars, pc, batch, snap, slots, left, old,
                 queue, wake, store, index, scans, owed>>

EndEntries ==
  /\ pc = "enter" /\ (entered >= slots \/ opps = None)
  /\ IF slots = 0 THEN pc' = "replace" /\ BatchKept ELSE pc' = "rest" /\ BatchGone
  /\ UNCHANGED <<feedVars, batch, left, queue, wake, store, index, cache, open, scans, owed>>

\* The worst position is sold, wholly or in part; then the new one is entered
\* unless a check refuses it or no leg is accepted.
Replace(c, w) ==
  /\ pc = "replace" /\ opps[c] > 0 /\ ~Blocked(c) /\ open[w] > 0
  /\ \E whole, enters \in BOOLEAN :
       LET sold == IF whole THEN [open EXCEPT ![w] = @ - 1] ELSE open
       IN /\ enters => Count(sold) < MaxOpen
          /\ open' = IF enters THEN [sold EXCEPT ![c] = @ + 1] ELSE sold
  /\ cache' = NotCached
  /\ pc' = "rest" /\ BatchGone
  /\ UNCHANGED <<feedVars, batch, left, queue, wake, store, index, scans, owed>>

\* No position is worth replacing, the cooldown runs, or the exit sold nothing.
NoReplacement ==
  /\ pc = "replace" /\ pc' = "rest" /\ BatchGone
  /\ UNCHANGED <<feedVars, batch, left, queue, wake, store, index, cache, open, scans, owed>>

\* A proactive exit in full, or a resolution found by the poll.
Exit(c) ==
  /\ pc = "rest" /\ open[c] > 0
  /\ open' = [open EXCEPT ![c] = @ - 1]
  /\ cache' = NotCached
  /\ UNCHANGED <<feedVars, loopVars, queue, wake, store, index, scans, owed>>

\* A scan replaces the constraints and rebuilds the index asset by asset,
\* while the feeds read it.
Scan ==
  /\ pc = "rest" /\ scans < MaxScans
  /\ store' \in ScanResults
  /\ index' = [a \in Assets |-> {}]
  /\ scans' = scans + 1
  /\ pc' = "index"
  /\ UNCHANGED <<feedVars, batch, opps, snap, slots, entered, left, old,
                 queue, wake, cache, open, owed>>

IndexNext(a) ==
  /\ pc = "index" /\ index[a] # IndexOf(store)[a]
  /\ index' = [index EXCEPT ![a] = IndexOf(store)[a]]
  /\ UNCHANGED <<feedVars, loopVars, queue, wake, store, cache, open, scans, owed>>

Indexed ==
  /\ pc = "index" /\ index = IndexOf(store) /\ pc' = "rest"
  /\ UNCHANGED <<feedVars, batch, opps, snap, slots, entered, left, old,
                 queue, wake, store, index, cache, open, scans, owed>>

Sleep ==
  /\ pc = "rest" /\ pc' = "wait"
  /\ UNCHANGED <<feedVars, batch, opps, snap, slots, entered, left, old,
                 queue, wake, store, index, cache, open, scans, owed>>

Loop ==
  \/ Wake \/ Halted \/ DrainBatch \/ EvaluateNext \/ BeginEntries
  \/ \E c \in Constraints : EnterNext(c)
  \/ EndEntries
  \/ \E c, w \in Constraints : Replace(c, w)
  \/ NoReplacement
  \/ \E a \in Assets : IndexNext(a)
  \/ Indexed
  \/ Sleep

Next ==
  \/ Loop
  \/ \E f \in Feeds, a \in Assets : Update(f, a)
  \/ \E f \in Feeds : PushNext(f) \/ Signal(f)
  \/ \E c \in Constraints : ClosedUnnoticed(c) \/ Exit(c)
  \/ Scan

Spec == Init /\ [][Next]_vars

-----------------------------------------------------------------------------

BeingPushed == UNION {pushing[f].cons : f \in Feeds}

\* A change that check_efp_drift reported is evaluated: until then its
\* constraint is being pushed, waiting or in the batch (queue.rs: the sets
\* beside the lists say when a push may be dropped).
NoChangeLost == owed \subseteq BeingPushed \cup Waiting(queue) \cup Members(batch)

\* The loop does not sleep its 50 ms on urgent work, unless the last tick
\* left it there: the flag is set under another lock than the queue's, after
\* the push and before any wait that could miss it (queue.rs, push and
\* wait_for_work).
NoLostWakeup ==
  pc = "wait" /\ queue.urgent # <<>> => wake \/ signals # {} \/ left

\* What was held when a batch began is never bought again in that batch, nor
\* anything that shares a market with it, although the held ids are cached
\* over many ticks and positions are closed by other threads meanwhile.
NoReentry ==
  [][\A c \in Constraints : open'[c] > open[c] =>
       \A d \in old : d # c /\ Legs[c] \cap Legs[d] = {}]_vars

\* The queue with its two lists and sets, the pushes that are under way and
\* the drain keep the promise of DueSet.
Due == INSTANCE DueSet WITH due <- Waiting(queue), taken <- Members(batch)
KeepsDue == Due!Spec
=============================================================================
