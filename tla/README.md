# Verification of the prediction-market trading system

TLA+ models, TLC configurations and TLAPS proofs for the arbitrage bot in this
repository (`rust_engine`, `rust_supervisor`). The bot looks for constraints
(groups of mutually exclusive markets) whose prices add up to less than one
payout, buys every leg, and waits for the resolution or sells early.

Paths below are relative to the repository: `engine/x.rs` is
`rust_engine/src/x.rs`, `orchestrator.rs` is `rust_supervisor/src/orchestrator.rs`.

## 1. The system

One thread, the *orchestrator*, owns the loop; everything that trades happens on
it. Around it run a feed (WebSocket connections that fill order books and an
evaluation queue, and close positions when they report a resolution), a user channel (a thread that receives order events and puts
them into a bounded channel), a thread that copies the state to disk, and
dashboards. The engine object holds the position manager and the ledger, each
behind a mutex of its own. The process may be killed at any time and is
restarted by systemd from what is on disk.

```
 feed -> books -> queue -> evaluate ----+                 venue (CLOB, chain)
                                        v                    ^        |
 drain events -> check breaker -> enter | replace -> exit ---+        |
      ^                                                               |
      +------------- user channel (bounded, drops when full) <--------+
 then, when due: scan, save, poll resolutions, reconcile, balances, probe
```

### Inventory

| component | state | operations | what is hard | what makes it correct |
|---|---|---|---|---|
| Ledger, `engine/accounting.rs` | running balances, journal, holdings, dedup set, suspense entries | buy, sell (each deduplicated), reversal, reconciliation adjustment, suspense enter / confirm / retry / reverse, cash reset | two callers report the same fill; events late or twice; clamps | books balance; running balances agree with the journal; money leaves suspense once |
| Position manager, `engine/position.rs` | capital, open and closed positions with legs, statistics | enter, resolve, liquidate, partial exit, refund and adjust, fill status, import | partial and uneven exits before a resolution; restart | shares and cost follow the account; the payout is what the shares redeem for; capital is the cash |
| Breaker, `engine/circuit_breaker.rs` | trip and reason, peak, error times, last success, recovery streak; window of fills | check, record, trip, probe results | several reasons masking each other; automatic recovery; restart | trading stays off for the reasons it must; it comes back after a geoblock |
| Event loop, `orchestrator.rs` | phase, timers | one tick: drain, check, enter, replace, exit, periodic tasks | a check made early in a tick is used late; tasks of different periods | no batch is begun in a drawdown; a stranded entry stops trading |
| Executor, `engine/executor.rs` | tracked orders in memory | submit a batch or leg by leg, update status, process fill event, cancel all | answers lost, unreadable or short; resubmission; restart forgets | what the manager says of a leg is what the venue has; only what was not heard of is doubled |
| Exits, `orchestrator.rs`, `engine/fill_confirmation.rs`, `engine/lib.rs` | the sale under way, a cool-down | sell, wait for fills by channel and by polling, book, liquidate | partial sales, several attempts, late reports of other trades, sales that fail after they matched, timeouts | the books run ahead of the wallet for known reasons only, the ledger never ahead of the manager |
| Kill switch, `orchestrator.rs`, `engine/telegram_kill.rs` | a flag | ask, act in a tick | a tick that waits for fills | it acts, and nothing is traded afterwards |
| User channel, `engine/ws_user.rs` | bounded queue | push, drain, reconnect | lost and delayed events; a second receiver | nothing depends on an event arriving |
| Reconciliation, `engine/reconciliation.rs`, `engine/lib.rs` | none | compare with the wallet, adjust, roll back, sweep orphans | compares with events still queued | only phantom positions are rolled back |
| Resolution poll, `orchestrator.rs`, `engine/lib.rs` | none | close resolved positions, reverse phantom payouts | decides by state that a restart loses | a payout kept is real |
| Saving, `orchestrator.rs`, `engine/state.rs`, `engine/cached_db.rs` | in-memory database, file | save in steps, mirror in the background, load | the copy meets a save half done; crash; unreadable rows | snapshots are consistent; nothing stored is dropped; a shutdown keeps all |
| Evaluation queue, `engine/queue.rs`, `engine/eval.rs` | two lists, a set beside each, a wake flag under another lock | push, wait, drain a batch | feeds push while the loop drains; the sets decide which pushes are dropped | no change is lost, no wake-up is lost, urgent entries are served |
| Entry of a batch, `orchestrator.rs` | cached ids of what is held | count slots, enter, roll back, replace | held ids and slots are read once; feed and reconciler close positions meanwhile | nothing held is bought again; the limit is kept |
| Feed, `engine/ws.rs`, `engine/book.rs` | books, index of constraints | update a book, look constraints up, close a resolved position | closes in the middle of what the orchestrator does | a save stays consistent, a change found reaches the queue |
| Connection pool, `engine/ws_pool.rs` | a set of assets, a bounded channel and a task per connection | subscribe, unsubscribe, consolidate, stop; connect, resubscribe, receive, drain | the set is changed first and the command sent later; the task reconnects in between | nothing wanted is forgotten; what a connection tracks gets served |
| Tiered feed, `engine/ws_tier*.rs` | hot constraints, counters of absence, promoted assets, pools | rescan, entry, exit, resolution, consolidation, start | assets shared by constraints; hooks that some paths do not call; scans cut short | no asset of a monitored constraint falls between the tiers; none turns cold early |
| Scanner and detection, `engine/scanner.rs`, `engine/detect.rs`, `engine/gamma_freshness.rs` | catalogue, constraints | scan, detect groups, check a group before an entry | pages that fail, groups that grow, markets without tokens | a live entry covers its group |
| Strategy tracker, `engine/strategy_tracker.rs` | virtual portfolios: cash, positions, exposure | gates, enter, resolve, exit, roll back, save, load | live positions close in many ways, some untold; saves in steps; restart | exposure is what is open; what is decided gets closed; nothing stored vanishes |

Components without a model of their own, and why, are listed in `PROJECT.json`
(`components`): numerical optimisation, signing, HTTP queries and parsing,
presentation, a separate test program, scripts.

## 2. The modules

| module | models | extends / instantiates |
|---|---|---|
| `LedgerOps` | every operation of `AccountingLedger` as a function from ledger to ledger | |
| `Ledger` | the ledger with its callers in any order | `LedgerOps` |
| `PositionOps` | every operation of `PositionManager`, likewise | |
| `PositionManager` | the manager against the account it trades for | `PositionOps` |
| `Accounts_proofs` | theorems about `Ledger` and `PositionManager` | `Ledger`, `PositionManager`, `FoldTheorems` |
| `FoldTheorems` | what sums and folds over finite sets, `FlattenSeq`, `SetToSeqs`, `Min` and `Max` yield: lemmas for the others | community modules, FiniteSetTheorems, TLAPS |
| `CircuitBreaker` | `CircuitBreaker` and `RevertRateTracker` as operators | |
| `SafetyLoop` | the event loop as far as it decides whether to trade | `CircuitBreaker` |
| `LiveTrading` | a live position from entry to payout: manager, ledger, executor, venue, user channel, reconciler, resolution poll, restart | `PositionOps`, `LedgerOps` as `Books` |
| `StatePersistence` | saving, mirroring, loading | |
| `Catalogue` | the constraints, a constant of the pipeline and of the tiers | |
| `EvalQueue` | `EvalQueue` (the struct) as operators | `Catalogue` |
| `DueSet` | what the queue promises: the abstract specification | |
| `EvalPipeline` | from a book update to an entry: feeds, queue, batch, entries, replacement, rescans | `EvalQueue`; `DueSet` as `Due` |
| `Orchestrator_proofs` | theorems about `SafetyLoop` and `LiveExits` | `SafetyLoop`, `LiveExits`, `FoldTheorems` |
| `StatePersistence_proofs` | theorems about `StatePersistence` | `StatePersistence`, FiniteSetTheorems, TLAPS |
| `OrderSubmission_proofs` | theorems about `OrderSubmission` | `OrderSubmission`, SequenceTheorems, `FoldTheorems` |
| `LiveTrading_proofs` | theorems about `LiveTrading` | `LiveTrading`, `Accounts_proofs` as `Acc`, `FoldTheorems` |
| `ShadowTracker_proofs` | theorems about `ShadowTracker` with its groups | `ShadowTracker`, `FoldTheorems` |
| `OrderSubmission` | from the legs of an entry or an exit to orders at the venue, and what is made of the answers | |
| `LiveExits` | selling a live position, the wait for fills, the kill switch | |
| `Pools` | tokens, the capacity of a connection, the chunks of a list | community modules |
| `WsPool` | a pool of connections and their tasks | `Pools` |
| `TieredFeed` | which assets each tier is asked for | `Pools`, `Catalogue` |
| `Feeds_proofs` | theorems about `WsPool`, `TieredFeed` and `EvalPipeline` | the three, `FoldTheorems` |
| `MarketGroups` | scan, detection of groups, freshness check, resolution of a group | |
| `ShadowTracker` | the virtual portfolios beside the live positions | `MarketGroups` |
| `MC*` | instances, orders, symmetry | the module of that name |

Money is an integer number of ticks; the rounding of `f64` is outside the models.
A function `Op(L, ...)` in an `Ops` module stands for one method called with the
object's mutex held, so it is atomic. In every state machine an action is one
handler of the code, with all the calls it makes.

**Ledger.** The code keeps four running balances beside a journal and means them
to agree. The model keeps both: `cash`, `deployed`, `fees`, `pnl`, and `journal`,
the net debit balance per account class. `booked` and `feeBooked` are what
`reverse_buy_by_position` finds by scanning the journal. The callers are
constrained only as the engine is: a rollback removes the position first, so it
happens once per position and no buy follows (`reversed`). `Known` allows the
operations on a position the ledger has not booked when its cash was reset at
start-up, since the manager may then hold positions the ledger does not know.

**PositionManager.** `wallet` and `held` are the account the manager estimates;
they have no counterpart in the code. With `live` (chosen at the
start, as the configuration does) exits are fills of any part of each leg, without
it the whole position is sold at the bid. An order names a YES and a NO price of each
market, which need not add up to one payout: `eval.rs` asks the books of both. Two
steps move capital and cash apart, and `CashMovesTogether` excepts just them: the fill
that closes a position sold in part, and the sale on paper of NO shares that were
bought with a spread (section 5). An order is for whole shares (`BuysWhole`), where the
code has fractions and truncates nothing.

**SafetyLoop.** `pc` is the phase of `tick` / `do_periodic_tasks`. Time is kept as
ages, each cut off just past the length it is compared with. The value of the
portfolio, fills, balances and what the venue answers are inputs, chosen freely
in every round: `value` is the one the check read, for what the fees of the
entries and the feed's closes make of it in the rest of the round is not looked at
again by the code. `seen` is history. The restart is at any phase and keeps only
the saved peak.

**LiveTrading.** One action per handler: `Enter` (`try_enter_or_replace` with
`enter_position`, the batch submission and its rollback), `Dispatch`
(`dispatch_user_event` with `process_fill_event`), `Reconcile`
(`compare_positions`, `apply_reconciliation_inner`), `PollResolution`
(`check_api_resolutions` and the phantom check of the periodic tasks), `Save`,
`Restart` (`load_state`, the startup reconciliation and orphan sweep, each of
which may fail). The venue is external: it takes an order, matches it wholly or
in part or kills it, mines, retries, settles or reverts it, and reports each step;
any event may be lost. `FeedResolves` is the one action of another thread
(`handle_resolved` in `engine/ws.rs`): it closes a position whose markets have
all been reported in one batch. It reads the event's `asset_id`; the format that
`engine/ws_tier_c.rs:348` documents has `winning_asset_id`, and
`docs/POLYMARKET_ISSUE_WATCHLIST.md:35` says the events do not arrive on that
channel, so how often it happens is up to the venue. It comes between
handlers, each of which reads and writes the positions under one lock. Market ids of the engine are not those of the venue, which
is why an adjustment moves shares and no money; this is modelled
(`BookAdjustments`). A reconciliation is applied only when it did not pass and
the wallet is not empty (`Acted`); the wallet may hold tokens of other markets, which
are warned of and nothing more, so that it need not be empty when every leg of the
position is missing. `Exempt` are the positions that the phantom check of the poll
leaves alone (`phantom_check_exempt`): no code sets the mark, scripts of repair do. The
model is of live mode; in shadow mode the poll makes no such check.

**StatePersistence.** `save_state` takes the database's lock for each of its
steps, so each is an action and the mirror thread may copy in between. The feed thread may close a position at any of
these points (`FeedCloses`); the open and closed positions of a save are one
snapshot (`snap`), the capital is read before it and the ledger after it. `fed`
remembers where the feed hit the last save: `cut`, between capital and
snapshot, makes the image one of two moments, like a torn copy. `redeemed` are the
positions closed by a resolution, which the ledger does not book. The state is reduced to one unit of cash per position: enough to tell whether cash, open
positions, closed positions and the ledger on disk belong to one moment.
`Unreadable` are positions whose row is skipped when loaded. `torn`, `tainted`
and `failed` are history: the file was copied in mid-save, a restart loaded a
torn file or skipped a row, a copy failed since the last save began.

**EvalPipeline.** A feed thread takes a message apart into actions: the book with its
drift check and the look-up of the constraints (`Update`, one lock of the book's
shard), one `PushNext` per constraint (the queue's mutex), and for an urgent one
`Signal` (the flag's mutex, taken after the queue's is released). The loop waits, drains
a batch, evaluates it entry by entry, counts the slots, enters, and perhaps replaces.
Prices are abstract: whether an update drifts past the threshold and whether a
constraint whose legs have prices is an arbitrage are inputs, so is the order in which
opportunities are tried. The evaluation of one entry reads the legs' books one by one;
since its outcome is an input it is one action. With the strategy tracker on, the held
filter is applied after the evaluation instead of in it, with the same result. A
position is taken to hold every market of its constraint, and the bot starts without
positions. `ClosedUnnoticed` is a close by a feed thread or by the reconciler, at any
point; `Exit` are the closes of the loop itself, which clear the cache of held ids.
A rescan swaps the constraints and rebuilds the index asset by asset, with updates in
between (`Scan`, `IndexNext`). `owed`, `left` and `old` are history.

**OrderSubmission.** A call of `execute_arb_batch` is a sequence of actions: signing
that fails, the rate limiter or the venue refusing, the batch posted, the fallback
leg by leg (`execute_arb`), the answers handed to the orchestrator (`Finish`), which
marks legs, rolls back or keeps the position. The venue takes any of the posted
orders, and the answer arrives, is lost, cannot be read or is incomplete. An order
is identified by its place in the venue's list. `strays` are orders the venue took
and the program did not hear of, `forgotten` those a restart dropped: both history.
The rate limiter is asked once per request; it may refuse any. The dry run, which
submits nothing, is left out.

**LiveExits.** One position is sold in attempts: `Proactive` and `Replaced` submit
the sales, then the thread waits (`exit.busy`) while `Receive` takes events off the
channel and `Poll` asks for sizes, until `Book` applies what was confirmed
(`apply_exit_fills`, `post_exit_fills`); `Liquidate` is the sale on paper of the
shadow mode. The venue matches a sale in one trade or two and reports each trade up
to twice, as the code hears it: matched, and then settled or failed. A sale that
fails (`Fail`) gives its shares back to the wallet, whether the books have taken them off
yet or not; a second try of the chain (RETRYING) is not told apart from a report that is
late. The purchases are taken to have settled, only their reports may be late. `undone`,
`misread` and `paper` are history: the three ways in which shares leave the books that do
not leave the wallet. The kill switch is
`Ask` (dashboard, file or Telegram) and `Kill` (`check_kill_switch`, once a tick);
`Enter` is an entry that submits orders because there is an executor.

**WsPool.** The caller's operation is cut where it lets go of a mutex: a subscription
counts what a connection tracks (`SubscribeNext`) and inserts what fits later
(`InsertNext`), the set of a connection is changed and the command sent after that
(`sending`), with any step of a task in between. A task joins (connects and subscribes the whole set), receives a command,
loses its connection, drains the commands that wait and retries. A consolidation counts
the assets, then collects them (`BeginConsolidate`, `CollectNext`), then empties and fills
connection by connection; reading the sets one after the other is one action each, since a
drain touches one connection only. `wanted`, `given`, `refused`, `retired`, `lost` and
`disturbed` are history; the last becomes true when a drain puts assets back while the pool
consolidates, or when a connection gets beyond its capacity, by a drain or by an insert
whose count a drain has overtaken: then an asset can be lost (section 5), and
`NothingForgotten` promises nothing more. The same code serves Tier B and Tier C.

**TieredFeed.** All calls come from the orchestrator's thread, so each is one step.
A pool is the sequence of the sets its connections track. `Scans` are the constraints
and assets a scan may find, also cut short; of what it finds Tier B hears of the best only,
while any constraint that is loaded may be entered (`LoadedLists`). `Enter`, `ExitWhole`, `Announced`, `ReplaceHeld`
and `CloseUntold` are the orchestrator's paths with the hooks they call or leave out.
`lacking` (asked for when a tier was full) and `absent` (scans in a row without a
constraint) are history.

**MarketGroups** and **ShadowTracker.** A group is a negRisk event whose markets
are listed, closed early and decided by the venue. A scan sees any non-empty subset of
the open markets, since a page that fails ends it. An opportunity is evaluated for any
group; the gates of each portfolio, the freshness check and the entry of the live
position follow as one step, which stands at the answer of the check: the order goes out
a little later. The check is made in live mode only (`Checks`), and takes an answer as
long as a page for a filter that was ignored, and lets it pass (`FillsPage`). Both entry
paths make it, and the constraint they ask for is always in the store, since only the same
thread, later in the tick, replaces what is in it. `LiveResolved`, `LiveAnnounced`,
`LiveExited`, `LiveDropped` and `RolledBack` are the ways a live position goes, with
what each tells the tracker; `ShadowResolved` is the poll for the positions that are
only virtual. A save stores a portfolio in two steps, and the mirror thread copies
between any two (`Write`, `Mirror`). A row in `Garbled` does not parse: a load skips it
and the next save deletes it. A closed row bears the number of the boot for its time
stamp.

## 3. The runs

| run | shows | bounds |
|---|---|---|
| `ledger` | books balance, running balances cover the journal, suspense is backed | 2 positions, 2 trades, 2 keys, 1 adjustment |
| `positions` | payout and cash after any partial exits, resolutions and restarts; in the shadow mode the books close and, but for spreads, capital is the cash | 2 positions, 2 markets, up to 2 shares, uneven orders and bids, one order with a spread |
| `loop` | stranded entries halt, no batch is begun in a drawdown, recovery needs answers without a 403, a geoblock recovers | two values 10% apart, window of 2 fills, 2 boots, batches of 2 |
| `live` | what counts as filled has settled; a payout kept is real | one position of 2 legs, not exempt, 1 or 2 shares filled, 2 events queued, 2 boots, a wallet with and without other tokens |
| `state` | snapshots are consistent, a shutdown keeps all, a position gets stored | 2 positions, 3 boots, one unreadable row |
| `pipeline` | no change and no wake-up is lost, nothing held is bought again in a batch, the queue implements `DueSet` | 3 constraints, two of them on one market, 1 feed, batches of 2, 1 position (2 by replacement), 1 rescan |
| `pool` | nothing wanted is forgotten unless a drain comes at a bad moment, what is tracked gets served | 2 assets, 2 connections of 1 asset, 2 commands queued, 3 operations |
| `feed` | no asset of a monitored constraint falls between the tiers, none turns cold early | 2 constraints of 2 assets and 1, one of which a scan may not find yet, connections of 2, threshold 2, 2 boots |
| `exits` | why books may be ahead of the wallet, ledger never ahead of the manager, the kill switch acts | 2 legs of 2 shares and 1, 2 sales, a channel of 1 event |
| `killed` | violation, see section 5 | the same |
| `orders` | marks are the venue's orders, only what was not heard of is doubled | 3 legs, batches of 2, 2 orders, 1 restart |
| `shadow` | exposure is what is open, virtual positions in a decided group are closed in the end, nothing stored vanishes, a checked live entry covers its group | a group of 2 markets that grows by one to a page of 3, 2 portfolios, 2 entries (purchases), one of them with a row that does not parse, 2 saves, 1 restart; rescans before the last entry only |

Why the bounds are enough. *ledger*: a clamp needs an adjustment or a sale and a
reversal of the same position, a double release needs one trade, interference
needs a second; all fit. *positions*: two shares make a part and a rest, two
markets make uneven legs, two positions make interference over the capital, which
affords one and then not the other. *loop*: each threshold is crossed by
one or two steps, intervals keep the order of the shipped configuration (save <=
poll < scan, error window < scan, probes rarest). *live*: two legs are what tells
"any leg" from "every leg"; two queued events let a settlement overtake its
report, and two boots put a restart anywhere. *state*: a third boot loads what a
save after a restart wrote, and two positions tell the increment of closed
positions from all of them. The start capital of 1 makes the second entry depend
on the first one's close. *pipeline*: two constraints on one market are what the held
markets are about, a third on another market is needed for a replacement; a batch of 2
is smaller than the queue can get, and leaves urgent work behind; the theorems below
hold for any number of feeds. *pool*: connections of one asset are full at once, so a
subscription spills over and consolidation moves; three operations are one to put an
asset, one to move or drop it and one that meets the commands of both. *feed*: an asset
that is found late is not in the list recorded first; three assets are more than a
connection takes and spill over, and Tier C is full with two; the threshold of 2 makes
a counter that is reset in time and one that is not. *exits*: a leg of two shares is
sold in part or in two trades, beside one that has one; two sales make a second attempt
under the same key, or a sale that fails beside one that does not; one event in the channel
is enough to be late, to be of the wrong trade or to keep the next one out. *orders*: three
legs are more than a batch of 2, and leave a rest; two orders
at the venue for a leg are a double. *shadow*: two markets are a group, the third makes
it grow after a scan, and is the one that fills the page, where `LiveCovers` ends; two
entries of a portfolio in turn need the close of the first, and two saves let the second
delete what the first had stored. The least number of markets of a group is 1 there (2 in
the shipped configuration), so that a scan cut short leaves one of two. Sales and the
proportions of an exit other than a loss of half are for the theorems.

Deadlock is checked in `loop`, `live`, `pipeline`, `state` and `feed`. The others
really end: keys, trades, positions, orders, entries or operations are bounded and get
used up, a stopped pool stays stopped, a position sold is gone; so there deadlock is
not checked. In `state` a shutdown is only allowed when a boot is left, so that a
stopped process is started again.

### Fairness

- `SafetyLoop!FairSpec`: the loop never stays in a phase, since every blocking call
  in it has a timeout (`WF` of the phases and of the sleep); sleeps take time
  again and again (`SF(Sleep(1))`, the loop sleeps between ticks). Nothing is
  assumed of the venue, the balances or the fills; that the geoblock goes away is
  the premise of `GeoblockRecovers`.
- `StatePersistence!FairSpec`: a save goes on and the thread runs (`WF`), and the
  disk does not refuse every copy for ever (`SF` of `Copy` and `MirrorNow`).
- `WsPool!PoolFairSpec`: caller and tasks go on (`WF`), and a task that tries to connect
  again and again succeeds some time (`SF(Join)`); connections may be lost for ever
  again.
- `LiveExits!ExitsFairSpec`: the wait for fills has a timeout (`WF(Book)`), and a tick looks
  at the switch again and again (`SF(Kill)`). No report need come.
- `ShadowTracker!FairSpec`: a save comes to its end (`WF(Write)`), and the poll comes back
  to every group and gets an answer some time (`SF(Polled(g))`: strong, since a save keeps
  the tick busy between two polls, and a live position may come and go). What the venue
  decides, and when, is free.
- The other specifications have none: they state safety only.

## 4. What is proved

`Accounts_proofs` proves of the ledger, for every set of positions, assets, trades,
keys and amounts, from `AmountsAssumption` alone (amounts are natural numbers, cash that a
reset restores is an integer):

- `LedgerTypeOK`: `Spec => []TypeOK`
- `LedgerBalances`: debits equal credits and `realized_pnl` is what its account holds
- `LedgerCovers`: the clamped running balances never fall below the journal
- `LedgerCashFollows`: every step moves running cash by what it posts to Cash
- `SuspenseKept`: `Spec => []SuspenseBacked`

Types and `LedgerCashFollows` are proved and in no run.

The argument. A ledger is `Sound` when it is well typed, balanced and covering.
None of the three is inductive alone: a step keeps the balance only if it
starts from integers, and the clamp of `deployed` stays above the journal only if
it was above it before. Every operation that posts does so through `Post`, with
six amounts that sum to zero; lemma `PostingKeeps` shows once that such a step
keeps soundness as long as the running balances move by no less than the journal
does. Each operation gets a type lemma and a lemma `...Preserves`: it takes a
sound ledger to a sound one and keeps `CashInStep`. The step lemma has one case
per action of `Next` and cites them; the theorems follow by PTL. For the Suspense
account the invariant (`Backed`) adds that finitely many trades are pending: an operation
changes one entry, and `FoldTheorems` says what that does to a sum.

Of the position manager it proves, for any positions, markets, orders, bids and fee, from
`ManagerAssumption` (finitely many markets, the fee a part of the amount, integers) and
`OrdersAssumption` (`BuysWhole`):

- `ManagerTyped`: `ManagerSpec => [](pm \in Manager)`
- `PayoutRedeems`: `ManagerSpec => []PayoutIsRedeemable`
- `PaperBooksClose`: `ManagerSpec => []BooksClose`
- `CapitalIsCash`: `ManagerSpec => CashMovesTogether`

The argument. The legs hold what the account holds (`Follows`), through any part of any
leg sold; each leg's stake is its shares at one price (`Whole`), without which the shares
that a resolution or a paper sale computes back from the stake are not those bought. On
paper nothing is left by a partial exit, so the profit is the sum over the closed
positions, and capital and stakes are what was there at the start and that profit
(`Paper`); a reload recomputes the profit from the closed positions, which is why their
sum must be part of it. The steps of the manager are compared with those of the account
one by one (`CashMoves`), with what a sum over the legs of a position gives when each
leg gives the same on both sides. The two excepted steps are needed: without them TLC
finds the capital off the cash.

`Feeds_proofs` proves of the pipeline, for any constraints, assets, legs, feeds and batch
sizes, from `LimitsAssumption` (a batch takes at least one entry) and `ScansAssumption` (a scan
finds constraints):

- `PipelineLosesNoChange`: `Spec => []NoChangeLost`
- `PipelineWakes`: `Spec => []NoLostWakeup`
- `PipelineKeepsDue`: `Spec => KeepsDue`, the refinement of `DueSet`
- `PipelineNeverReenters`: `Spec => NoReentry`

The argument. A push is dropped when its constraint is in a set, so nothing is lost only
if the sets name entries that are in the lists (`Follows`), through every push and
drain. A drain must find the last batch worked off (`Batch`). A wake-up is not lost
since between a drain and the next tick every urgent entry has a feed about to set the
flag, or the flag, or was left there by the drain (`Awake`): the code's flag is cleared
before the drain and set after the push. Lemmas on the members of sequences carry the
queue operators (`PushGood`, `DrainGood`); each action has a lemma; the steps that touch
none of this are one case (`Rest`). `PipelineNeverReenters` has an invariant of its own
(`HeldInv`): the cache of held ids names too much after a close elsewhere and never too
little, since whatever opens a position empties it; so does the copy of a batch.

Of a pool of connections it proves, for any number of connections, any capacity, room in
a channel and number of operations, from `TokensAssumption` (finitely many assets),
`CapAssumption` and `PoolAssumption` (the bounds are natural numbers, the first two not
zero):

- `PoolTyped`: `PoolSpec => []PoolTypeOK`
- `PoolForgetsNothing`: `PoolSpec => []NothingForgotten`

The argument. An asset is `Kept` when it was subscribed, not refused and not unsubscribed.
That a connection tracks it is not inductive: a command to unsubscribe that waits in the
channel, from an earlier consolidation, is applied once more by a drain. So the invariant
names the first connection that has the asset or may get it from a command: there it is
tracked and no command takes it off (`Anchored`, `Placed`); first, because a consolidation
keeps an asset at its first place in the list it collects. While a subscription is under
way the asset may instead be in the rest of its list, or among those that were counted and
are to be inserted next, and then it is nowhere else
(`Coming`). During a consolidation it must be in the plan, and have reached the connection
of its first chunk when that one's turn is over (`Planned`). That the plan is complete is
arithmetic: the first chunks, as many as were counted, hold all that is collected
(`ChunksRoundUp`, `JoinedPositions`), since between counting and collecting a drain adds
nothing unless `disturbed`, and since no connection holds more than its capacity (`RoomInv`),
also with what is about to be inserted into it.

Of the tiers, for any constraints, lists of assets, market ids, sizes and number of
restarts, from the same two, `ListsAssumption` (a token is in one constraint,
`detect.rs`), `IdsAssumption` (a market id is no token; a constraint has finitely many)
and `TiersAssumption`:

- `TiersTyped`: `TiersSpec => []TiersTypeOK`
- `TiersCover`: `TiersSpec => []HotCovered`
- `TiersColdNeverEarly`: `TiersSpec => ColdNeverEarly`

The argument. What is promoted is left alone by Tier B, so it must be fed by Tier C or have
been refused there (`PromotedFed`), which holds because an exit, whose ids are those of
markets, takes no token off Tier C. What a scan drops belongs to constraints it did not
find, and since the recorded lists are lists of their own constraint (`HotListed`) it
belongs to no other. A constraint was missing at least as often as it was counted for, so a
drop means `Threshold` scans without it. Of the pools only two facts are needed: a
subscription keeps what was tracked and the capacity (`SubscribedPool`), and so does a
consolidation, which is again the arithmetic of chunks (`Consolidated`).

`Orchestrator_proofs` proves of the loop, for any thresholds, windows, drawdown
fraction, intervals, values and number of restarts, from `BreakerAssumption` and
`LoopAssumption` (they are natural numbers, the recovery threshold, the denominators and
the number of starts not zero):

- `StrandedHalts`: `Enabled` implies `Spec => []StrandedEntryHalts`
- `ChecksAgainstPeak`: `Enabled` implies `Spec => EntryCheckedAgainstPeak`
- `AnswersRecover`: `Spec => RecoveryNeedsAnswers`
- `LoopTypeOK`: `Spec => []TypeOK`

With a disabled breaker `IsTradingAllowed` is always true and the first two do not hold,
hence their premise `Enabled`; such a breaker never trips, so it does not recover either
(`OffNeverTrips`). The argument. A breaker is `Good` when it has a reason exactly
when tripped and its streak is below the threshold; each operation of it but the probe
`Stays`: tripped remains tripped, for the same reason, and the peak does not fall. That
a stranded entry halts is not inductive: its trip could be lost behind an earlier one
for a geoblock, which recovers. It is not, because entries are only tried when the check
of the same tick allowed them, and what trips after that check and before the batch ends
is never a geoblock (`EntryAllowed`). The same conjunct says that the value the check read is
no drawdown; the peak on disk is no higher than the one in memory
(`IInv`), a restart takes the higher one, and a value that is no drawdown below one peak
is none below a lower one (`LowerPeak`). The count of the recovery is bounded by what was
answered since the last 403 (`Observed`). `StayStep` carries all steps but the probe and
the restart. For the types, the errors that expire are a front of the list (`RecentType`),
and a batch of fills is a fold over them, each of which leaves a window that is no longer
than `WindowSize` (`WindowType`): `FoldExists` and `FoldAgree` of `FoldTheorems` carry what
every step of a fold keeps to its result.

Of the exits it proves, for any legs, sizes, room in the channel and number of sales,
from `SizesAssumption` (finitely many legs, each with shares) and `BoundsAssumption`:

- `ExitsTyped`: `ExitsSpec => []ExitsTypeOK`
- `AheadIsExplained`: `ExitsSpec => []BooksAheadExplained`
- `LedgerSellsHeld`: `ExitsSpec => []LedgerNotAhead`

The argument. `BooksAheadExplained` is not inductive: that a sale may be booked without the
books falling behind must hold while it is waited for. So the invariant (`BooksOf`) counts
what is in the wallet together with what was sold, has not failed and is not yet booked: a
trade moves shares from the one to the other, a booking takes them off both sides, and a
failure either gives back what was never booked or adds to `undone`. What a booking takes
off without such a trade is `misread` by definition; that this is all of it needs that a
trade is never larger than the leg (`VenueOf`), and that what a poll finds is not more than
the position had lost already (`PolledOf`). The sums over the trades of a leg, of which a step
changes or appends one, are `FoldTheorems` again (`TotalChanged`). A process without an executor
waits for nothing (`Waiting`). For the ledger the first booking of a leg under the key must find
all of its shares on the books, and every later one is dropped (`LedgerOf`).

`StatePersistence_proofs` proves for any set of positions, any unreadable rows and any
number of starts, from `StateAssumption` (there is at least one start):

- `StateTypeOK`: `Spec => []TypeOK`
- `SnapshotHolds`: `Spec => []SnapshotConsistent`
- `ShutdownHolds`: `Spec => []ShutdownKeepsAll`

The argument. That a file copied whole is consistent says nothing of the steps of a save
before it, so the invariant says at every step of `save_state` what is in the database
already (`SnapInv`, by `pc`): the closed rows stored are the oldest closed positions
(`OldestStored`, which is what makes appending only the later ones complete), the open
rows are positions the engine knew (`OpenKnown`), capital and snapshot are of one moment
unless the feed cut in. As long as no start skipped a row or loaded a torn file, both
early returns of `save_state` are shown never to be taken; the shutdown then leaves the
last save in the file.

`OrderSubmission_proofs` proves for any positions, batch limit, number of orders and
restarts, from `LimitsAssumption` (legs are finitely many, batches not empty):

- `OrdersTypeOK`: `Spec => []TypeOK`
- `MarksHold`: `Spec => []MarksMatchOrders`
- `TwiceHolds`: `Spec => []TwiceOnlyUnheard`

The argument. What is marked at the end of a call was decided by answers collected during
it, so the invariant ties the results of the running call to the orders heard of, chunk by
chunk and leg by leg, and says that ids at the venue are those heard of, the strays and
those a restart forgot, without overlap. A second order for a leg then comes only from the
fallback after an answer that was not heard.

`LiveTrading_proofs` proves for any positions, markets, sizes and restarts, from
`LiveAssumption` (the markets are finitely many, there is at least one start, prices and
bets are natural numbers, and the one opportunity of the model buys YES on each market):

- `ActualHolds`: `Spec => []ActualIsSettled`
- `PayoutHolds`: `Spec => []PayoutIsReal`
- `LiveTyped`: `Spec => []TypeOK`
- `LiveBooksKept`: `Spec => []BooksKept`

The argument. The manager counts a leg as filled when an order is recorded as confirmed,
so what was reported and what was recorded must each imply that the order settled at the
venue, where settled is final (`HeardInv`, `FateInv`); a position is `Backed` when its
counted legs are of such orders, and so must be the copy on disk, which a restart brings
back (`BooksInv`). A position not entered yet must have no order anywhere (`OrdersInv`),
else an entry could inherit a fate. What the money does in the same steps plays no part
in the first two theorems.

The other two are about the money. What each operation of the ledger keeps is proved once,
of any ledger, in `Accounts_proofs`, and cited here through an instance of that module at
the positions, assets and trades of the live system. `Kept` names it: debits are credits,
the running balances agree with the journal, `Suspense` is the money of the trades between
match and confirmation. An entry books a leg at a time and a reconciliation corrects a leg
at a time: both are folds, and `FoldExists` and `FoldAgree` take what one leg keeps to the
whole (`BookEntryKept`, `BookAdjustmentsKept`). The snapshot is kept too, for a restart loads
it. For the types it matters that the wallet's balance and an import are sums over all
positions: such a sum is a number only when the set is finite, and the ids of positions are
not bounded. Only finitely many positions were ever entered (`Entered`), and every settled
order is of one of them (`WalletNat`, `ImportedManager`).

`ShadowTracker_proofs` proves for any portfolios and gates, groups, profits, entries and
restarts, from `GroupsAssumption` (finitely many markets, each in a group) and
`GatesAssumption` (the portfolios are a sequence):

- `EntriesKept`: `Spec => KeptOrClosed`
- `EntriesCover`: `Spec => LiveCovers`
- `TrackerTyped`: `Spec => []TypeOK`
- `ExposureKept`: `Spec => []ExposureMatches`

the last two also from `TrackerAssumption` (amounts are natural numbers, a trade has a
minimal size, an exit loses at most what was paid).

The argument. The mirror may copy between any two writes of a save, so the first theorem
needs that what the database has as open is open in memory, has a row or was rolled back
(`Accounted`), and that what the disk knows the database knows too (`Mirrored`): a write
of the open positions drops only what a row stands for. A row that does not parse is the one thing that may vanish, and
the theorem excepts it. The second rests on `ListedInv`: a detection names markets that are
listed in its group. When the answer of the freshness check is shorter than a page and the
filter works, it and the exhaustiveness guard make the markets of the constraint as many as
those listed, hence all of them; this is where the set must be finite. A group that fills a
page gets no such answer, and is excepted. For the exposure, an entry or a close adds or takes away one summand for each of
its markets (`FoldTheorems`), and a load computes the sums anew; that a capital never falls
below zero needs the sizes of what is open, in memory and in both stored copies
(`BooksOK`).

### Model-checked only

Sums and concatenations are folds of the community modules. Their definitions are
recursive functions, and what they yield for every finite set or sequence is an induction
that the prover cannot be asked for; `FoldTheorems` proves what is needed of them by a
smallest counterexample instead.

- `GeoblockRecovers`, `Stored`, `Served`, `KillActs`, `ShadowsClose`: liveness under fairness.

## 5. Where the code and its comments disagree

One run must find a violation (`findings` in `PROJECT.json` quotes the lines).
`killed`: after the kill switch the mode is shadow and the log says "no live trades will
be placed"; the entry paths ask whether there is an executor, not for the mode, and the
executor stays, so entries and replacements go on submitting orders.

### Seen while modelling

In the models as the code has it; no run is made to fail for any of these.

*Positions and ledger.* The fill that closes a position sold in part credits the proceeds
of its earlier part again. A sale on paper of NO shares computes them as the stake divided
by what YES leaves of one payout (`engine/position.rs:495`), while they were bought at a NO
ask (`engine/eval.rs:219`): 90 ticks buy 2 shares at 45, which are sold as 3 when YES was
asked at 70. `CashMovesTogether` shows that these two are the only steps that part capital
from cash. The entry and the user event debit the ledger for one fill under
different keys. A second partial sale of a leg is dropped by the ledger under the key of
the first. Resolutions are never booked in the ledger. `import_positions_json` recomputes
the profit without the partial exits of open positions. A rollback refunds capital to the
manager but capital and fees in the ledger. A phantom payout that is reversed leaves the
capital of the entry lost. Suspense entries of orders that a restart forgets stay for ever.

*Fills and reconciliation.* After a restart the payout of a position that was really
filled is taken back, since fills are known only in memory. A position with one leg in the
wallet is rolled back as a phantom when another leg is missing. The mark that exempts a
position from the check of payouts (`orchestrator.rs:2079`) is read and never set by the
program.

*Loop.* The resolution poll records an API success whatever its calls returned, and the
scan also for a partial result, so the outage that `engine/circuit_breaker.rs` names as a
reason to stop is never seen, and an error burst cannot be observed, because every success
clears the window. A replacement that is only partly accepted is logged and trading goes
on, while on the entry path the same event trips the breaker. Critical balances reported
while the breaker is tripped for a geoblock are forgotten when it recovers. The drawdown is
computed once a tick (`orchestrator.rs:1642`): the fees of each entry of a batch
(`engine/position.rs:235`) and positions the feed closes meanwhile lower the value, so the
later entries of a batch may be made in a drawdown; `EntryCheckedAgainstPeak` says only that the
value the check read was none. The breaker is said to recover after consecutive 200s and to
start over after any failure (`engine/circuit_breaker.rs:228`, `256`, `264`,
`orchestrator.rs:2376`, `2402`); the code counts every answer that is not a 403, and a probe
that gets no answer leaves the count as it is. `RecoveryNeedsAnswers` states what the code does.

*Queue.* An urgent push takes its constraint out of the background set but leaves the
entry in the background list, so one batch can drain both and buy the constraint twice.
Background work for stale data and periodic re-evaluation (`engine/queue.rs:6`) is never
pushed; constraints that a scan adds while their books are known wait for the next drift;
an update that looks into the index while it is rebuilt has moved the reference price and
pushes nothing. Ids of positions closed by a feed or a rollback stay in the cache of held
ids until the next change. A replacement whose exit sold only a part is entered beyond the
limit of positions; one with no legs to submit keeps a position on paper only.

*Saving.* A row that no longer parses stops every later save at the guard on closed
positions, which then only mirrors. A virtual position in such a row is skipped by the load
(`engine/strategy_tracker.rs:777`) and deleted by the next save (`engine/state.rs:453`).

*Resolutions.* The events of a feed resolution are cleared after each one unless nothing is
open, so the legs of a position meet only by accident; a resolution the feed reports pays a
position out without the check for real fills that the poll makes. `resolve_by_ws_events`
in the tick finds positions and closes none, though the tick then settles the virtual
ones, tells the feed and notifies.

*Exits.* A sale is booked when it is reported as matched (`engine/fill_confirmation.rs:91`).
If it fails on chain later, the handler marks the leg as rejected (`orchestrator.rs:3863`) and
leaves shares, capital and ledger as they were booked, although live exits are there to book
"proceeds from actual fills" (`orchestrator.rs:3963`). `wait_for_matched_fills` tells reports
by asset only, so the late report of a purchase, or a second report of an earlier sale, is
booked as a sale. The poll sees only sizes that grow and so confirms no
sale; where the books were behind the wallet it takes the difference for one.

*Orders.* The rate limiter is asked per request and not per order. When all legs are
refused the list of results may be shorter than the legs, and the rest is cut off.
`cancel_all_orders` returns early with nothing tracked as pending. A batch whose answer was
lost is submitted again leg by leg. `cleanup_old_orders`, `timed_out_orders`,
`evaluate_arb_fills` and `wait_for_confirmed_fills` have no caller in the program.

*Feed.* A task that drains its commands while the pool sends writes the same set, with
what the pool had applied to it already (`engine/ws_pool.rs:526`), so an asset can end up on
no connection: an old subscribe that is drained puts back assets which were unsubscribed
since, beyond the capacity, and so it may between the count and the insert of a new one
(`engine/ws_pool.rs:191`, `202`); a consolidation then moves some other asset to the next
connection, with an unsubscribe left in the channel of the first; the next consolidation
moves it back, and the drain of that unsubscribe takes it off. The program learns of it only
by silence. The
counters of subscriptions are not updated by consolidation and drains; connections emptied
by consolidation are never shut down. A restart starts Tier C before the positions are
loaded, and the first rescan subscribes everything to Tier B. A market id that takes the
place of a token in the exit hook leaves the tokens with Tier C. `buffer_new_market` has no
caller.

*Groups.* A scan cut short lets a group through that is not exhaustive whenever the freshness
check cannot tell: when the venue ignores the filter, and, with a filter that works, when the
group has as many markets as a page or more (`engine/gamma_freshness.rs:136`). The check is
skipped in shadow mode (`orchestrator.rs:2892`), also when the kill switch has set it and
orders still go out (run `killed`). A market listed between answer and order is missed. All
this although `orchestrator.rs:1360` and `engine/gamma_freshness.rs` call
the check at detection authoritative (`LiveCovers` is for groups below a page, with
the check made and the filter heeded). The validator lets
everything through when it cannot be asked.

*Virtual portfolios.* Rollbacks and resolutions at the start are not passed on: the tracker
is made later (`orchestrator.rs:1314`, `1456`); `ShadowsClose` shows that the polls make up
for it. A crash between the copy of a closed row and the next save loads the position
again and closes it twice; a copy between summary and positions changes capital.
`actual_profit_pct` is a percentage after a resolution and a ratio after an exit.
Forwarding is by constraint, and the poll asks for the markets of the first portfolio that
holds it: a portfolio that entered after the group grew may book a full loss while its
other market is open.

## 6. Not modelled

- The optimisation over `f64` prices (`engine/arb.rs`, `engine/eval.rs`, fill quality):
  what an opportunity is worth is an input. Rounding of `f64` money likewise: ticks.
- The token buckets of the rate limiter: wall-clock time; a request may be refused.
- Answers of the language model (resolution dates, postponements): a filter on entries.
- Signing, HTTP, parsing, the sports feed, dashboard, monitors, notifications, start-up:
  input, output and presentation.
- The sharded connections of the old feed in `engine/ws.rs`: the shipped configuration uses the tiered
  feed; its handlers of messages are in `EvalPipeline` and `StatePersistence`.
- The test harness `clob_test`, scripts, the archive of Python runners: other programs.
