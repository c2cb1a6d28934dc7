--------------------------- MODULE ShadowTracker ---------------------------
(***************************************************************************)
(* The virtual portfolios that watch the opportunities of the program      *)
(* (strategy_tracker.rs), fed and closed by the tick of the orchestrator   *)
(* beside the live positions, saved with them to the database in memory    *)
(* (state.rs) and mirrored to the disk by a thread of its own              *)
(* (orchestrator.rs, save_state).                                          *)
(*                                                                         *)
(* Amounts are whole units.  An exposure is in parts of a unit, so that a  *)
(* position divides evenly among its markets.  A purchase pays its         *)
(* expected profit whichever of its markets wins.  A closed row bears the  *)
(* number of the boot for its time.  Statistics, and the pruning of rows   *)
(* after 30 days, are left out.                                            *)
(***************************************************************************)
EXTENDS MarketGroups, Integers, SequencesExt, FiniteSetsExt, Functions

CONSTANTS
  Portfolios,      \* in the order of the tracker, a sequence
  InitialCapital,
  CapitalPct,      \* capital_per_trade_pct, in percent
  MaxSize,         \* max_position_size
  MinSize,         \* the floor of a trade
  MaxConcurrent,   \* max_concurrent_positions of each portfolio
  Parts,           \* parts in a unit of exposure
  MaxExposure,     \* max_exposure_per_market of each portfolio, in parts
  Sides,           \* of the opportunities: TRUE for a sale, FALSE for a purchase
  ProfitPct,       \* of an opportunity, in percent
  ExitPcts,        \* profits of a live exit, in percent
  Garbled,         \* entries, by portfolio and number, whose row does not parse when it is read
  MaxEntries,      \* bound: entries, shadow or live
  MaxSaves,        \* bound
  MaxBoots         \* bound

ASSUME TrackerAssumption ==
  /\ InitialCapital \in Nat /\ CapitalPct \in Nat /\ MaxSize \in Nat /\ MinSize \in Nat \ {0}
  /\ Parts \in Nat \ {0} /\ Sides \subseteq BOOLEAN /\ ProfitPct \in Nat
  /\ ExitPcts \subseteq {pct \in Int : pct >= -100} \* a sale loses at most what was paid
  /\ Garbled \subseteq ToSet(Portfolios) \X Nat
  /\ MaxEntries \in Nat /\ MaxSaves \in Nat /\ MaxBoots \in Nat

Names == ToSet(Portfolios)
ASSUME GatesAssumption ==
  /\ Portfolios \in Seq(Names)
  /\ MaxConcurrent \in [Names -> Nat] /\ MaxExposure \in [Names -> Nat]

VARIABLES
  cash,      \* current_capital of each portfolio
  open,      \* open_positions: by constraint
  exposure,  \* market_exposure, in parts
  live,      \* the markets of the live position in each group
  db,        \* the database in memory
  disk,      \* its mirror
  saving,    \* the writes of save_state still to do
  mirroring, \* the mirror thread runs
  entries,   \* entry_ts of the last entry
  reversed,  \* history: entries undone by a rollback
  boots,
  saves      \* begun so far

portfolio == <<cash, open, exposure>>
stored == <<db, disk, saving, mirroring>>
history == <<entries, reversed, boots, saves>>
vars == <<groupVars, portfolio, live, stored, history>>

Empty == [g \in {} |-> g]
\* The entries of f for the keys in S are those of g.
Updated(f, S, g) == [k \in DOMAIN f \cup S |-> IF k \in S THEN g[k] ELSE f[k]]
EmptyDb == [live |-> [g \in Groups |-> {}], cash |-> Empty,
            open |-> [p \in Names |-> Empty], rows |-> {}]

Init ==
  /\ GroupsInit
  /\ cash = [p \in Names |-> InitialCapital]
  /\ open = [p \in Names |-> Empty]
  /\ exposure = [p \in Names |-> [o \in Outcomes |-> 0]]
  /\ live = [g \in Groups |-> {}]
  /\ db = EmptyDb /\ disk = EmptyDb
  /\ saving = <<>> /\ mirroring = FALSE
  /\ entries = 0 /\ reversed = {} /\ boots = 0 /\ saves = 0

Held(p) == DOMAIN open[p]
Deployed(p) == SumFunction([g \in Held(p) |-> open[p][g].size])
Value(p) == cash[p] + Deployed(p)
\* What a position adds to the exposure of each of its markets.
Share(pos) == (pos.size * Parts) \div Cardinality(pos.markets)

\* The tick is not in the middle of a save.
Idle == saving = <<>>

-----------------------------------------------------------------------------
(* Entries.                                                                *)

\* Mutant: no position is too large.
MutTradeSize(p) == (Value(p) * CapitalPct) \div 100
TradeSize(p) == Min({(Value(p) * CapitalPct) \div 100, MaxSize})

NewPosition(p, g, sell) ==
  [id |-> entries + 1, size |-> TradeSize(p), markets |-> constraints[g].markets, sell |-> sell]

\* Thresholds of profit and of time are taken as passed.
PassesGates(p, g) ==
  /\ g \notin Held(p)
  /\ Cardinality(Held(p)) < MaxConcurrent[p]
  /\ TradeSize(p) >= MinSize /\ TradeSize(p) <= cash[p]
  /\ \A o \in constraints[g].markets :
       exposure[p][o] + Share(NewPosition(p, g, FALSE)) <= MaxExposure[p]

With(p, g, position) == Updated(open[p], {g}, [h \in {g} |-> position])
Without(p, g) == Restrict(open[p], Held(p) \ {g})
HoldersOf(g) == {p \in Names : g \in Held(p)}

Accepting(g) == {p \in Names : PassesGates(p, g)}

\* Every portfolio whose gates the opportunity passes enters it.
ShadowsEnter(g, sell) ==
  LET in == Accepting(g)
  IN /\ open' = [p \in Names |->
                  IF p \in in THEN With(p, g, NewPosition(p, g, sell)) ELSE open[p]]
     /\ cash' = [p \in Names |-> IF p \in in THEN cash[p] - TradeSize(p) ELSE cash[p]]
     /\ exposure' = [p \in Names |-> [o \in Outcomes |->
          IF p \in in /\ o \in constraints[g].markets
          THEN exposure[p][o] + Share(NewPosition(p, g, sell)) ELSE exposure[p][o]]]

\* The program is live neither in the constraint nor in one of its markets.
NotLive(g) == live[g] = {} /\ \A h \in Groups : live[h] \cap constraints[g].markets = {}

\* One opportunity of a tick.  The quality gates are asked for the shadows
\* and once more for the live entry, and may answer differently; the live
\* entry has its own gates (slots, capital, fills), taken as any choice.  The
\* step is at the answer of the freshness check: what the venue does until the
\* order goes out comes after it.
Opportunity(g, sell, shadows, lives) ==
  /\ Idle /\ entries < MaxEntries /\ Exhaustive(g)
  /\ shadows \/ lives
  /\ IF shadows THEN ShadowsEnter(g, sell) ELSE UNCHANGED portfolio
  /\ lives => NotLive(g) /\ Checked(g)
  /\ live' = IF lives THEN [live EXCEPT ![g] = constraints[g].markets] ELSE live
  /\ entries' = entries + 1
  /\ UNCHANGED <<groupVars, stored, reversed, boots, saves>>

-----------------------------------------------------------------------------
(* Closes.                                                                 *)

\* Mutant: the exposure of a closed position stays.
MutReleased(p, g) == exposure[p]
\* The exposure of p without its position in g.
Released(p, g) ==
  [o \in Outcomes |->
     IF o \in open[p][g].markets THEN Max({exposure[p][o] - Share(open[p][g]), 0})
     ELSE exposure[p][o]]

\* A row of strategy_closed_positions.
Row(p, g, profit) ==
  [who |-> p, id |-> open[p][g].id, profit |-> profit, boot |-> boots]

\* Mutant: the row is kept in memory only.
MutBooked(rows) == db
\* The rows of closed positions are inserted at once, not at the next save.
Booked(rows) == [db EXCEPT !.rows = @ \cup rows]

\* Every holder of g closes it with its profit.
Close(g, profit) ==
  /\ cash' = [p \in Names |->
       IF p \in HoldersOf(g) THEN cash[p] + open[p][g].size + profit[p] ELSE cash[p]]
  /\ open' = [p \in Names |-> Without(p, g)]
  /\ exposure' = [p \in Names |-> IF p \in HoldersOf(g) THEN Released(p, g) ELSE exposure[p]]
  /\ db' = Booked({Row(p, g, profit[p]) : p \in HoldersOf(g)})

Part(size, pct) == (size * pct) \div 100

\* A sale always makes its profit; a purchase loses all unless it holds the
\* winner.
Payoff(pos, winner) ==
  IF pos.sell \/ winner \cap pos.markets # {} THEN Part(pos.size, ProfitPct) ELSE -pos.size

Resolve(g, winner) ==
  Close(g, [p \in HoldersOf(g) |-> Payoff(open[p][g], winner)])

LiveCloses(g) == live' = [live EXCEPT ![g] = {}]

\* What the poll asks of a live position.
LiveSettled(g) == live[g] # {} /\ Resolved(live[g])

\* The poll closes a live position, and the shadows of its constraint with it.
LiveResolved(g) ==
  /\ Idle /\ LiveSettled(g)
  /\ LiveCloses(g) /\ Resolve(g, Winner(live[g]))
  /\ UNCHANGED <<groupVars, disk, saving, mirroring, history>>

\* resolve_by_ws_events: the events of all markets of a live position are in
\* the hands of the tick, and one of them has won.
LiveWon(g) == LiveSettled(g) /\ Winner(live[g]) # {}

\* The tick resolves the shadows, but nothing closes the live position itself,
\* which waits for the poll.
LiveAnnounced(g) ==
  /\ Idle /\ LiveWon(g)
  /\ Resolve(g, Winner(live[g]))
  /\ UNCHANGED <<groupVars, live, disk, saving, mirroring, history>>

\* A live position is sold in full: the shadows follow with its profit.
LiveExited(g, pct) ==
  /\ Idle /\ live[g] # {}
  /\ LiveCloses(g) /\ Close(g, [p \in HoldersOf(g) |-> Part(open[p][g].size, pct)])
  /\ UNCHANGED <<groupVars, disk, saving, mirroring, history>>

\* A live position goes and the shadows are not told: it is replaced, its
\* entry was refused, or the start of the program reconciled or resolved it
\* before the tracker existed.
LiveDropped(g) ==
  /\ Idle /\ live[g] # {}
  /\ LiveCloses(g)
  /\ UNCHANGED <<groupVars, portfolio, stored, history>>

Refund(p, g) == cash[p] + open[p][g].size

\* The entries of g are undone, and the database is told at once.
RollbackEntry(g) ==
  /\ cash' = [p \in Names |-> IF p \in HoldersOf(g) THEN Refund(p, g) ELSE cash[p]]
  /\ open' = [p \in Names |-> Without(p, g)]
  /\ exposure' = [p \in Names |-> IF p \in HoldersOf(g) THEN Released(p, g) ELSE exposure[p]]
  /\ db' = [db EXCEPT
       !.cash = Updated(@, HoldersOf(g), cash'),
       !.open = [p \in Names |-> IF p \in HoldersOf(g) THEN open'[p] ELSE @[p]]]
  /\ reversed' = reversed \cup {<<p, open[p][g].id>> : p \in HoldersOf(g)}

\* The periodic reconciliation finds that the venue does not have the live
\* position: it and its shadows never were.
RolledBack(g) ==
  /\ Idle /\ live[g] # {}
  /\ LiveCloses(g) /\ RollbackEntry(g)
  /\ UNCHANGED <<groupVars, disk, saving, mirroring, entries, boots, saves>>

\* Mutant: only the constraints the program is live in are polled.
MutShadowOnly(g) == live[g] # {}
\* The poll for the shadows alone.
ShadowOnly(g) == live[g] = {}

\* The markets of a constraint are those of the first portfolio that has it.
PollMarkets(g) ==
  LET first == Min({i \in DOMAIN Portfolios : g \in Held(Portfolios[i])})
  IN open[Portfolios[first]][g].markets

ShadowResolved(g) ==
  /\ Idle /\ HoldersOf(g) # {} /\ ShadowOnly(g) /\ Resolved(PollMarkets(g))
  /\ Resolve(g, Winner(PollMarkets(g)))
  /\ UNCHANGED <<groupVars, live, disk, saving, mirroring, history>>

-----------------------------------------------------------------------------
(* Saving and loading.                                                     *)

Writes == FlattenSeq([i \in DOMAIN Portfolios |->
            <<<<"summary", Portfolios[i]>>, <<"positions", Portfolios[i]>>>>])

Save ==
  /\ Idle /\ saves < MaxSaves /\ saves' = saves + 1
  /\ db' = [db EXCEPT !.live = live]
  /\ saving' = Writes
  /\ UNCHANGED <<groupVars, portfolio, live, disk, mirroring, entries, reversed, boots>>

WithSummary(p) == [db EXCEPT !.cash = Updated(@, {p}, cash)]
WithPositions(p) == [db EXCEPT !.open[p] = open[p]]

\* Each write has the database for itself.  The last one starts the mirror
\* thread, unless it still runs.
Write ==
  /\ ~Idle
  /\ LET kind == Head(saving)[1]
         p == Head(saving)[2]
     IN db' = IF kind = "summary" THEN WithSummary(p) ELSE WithPositions(p)
  /\ saving' = Tail(saving)
  /\ mirroring' = (mirroring \/ saving' = <<>>)
  /\ UNCHANGED <<groupVars, portfolio, live, disk, history>>

Mirror ==
  /\ mirroring
  /\ disk' = db /\ mirroring' = FALSE
  /\ UNCHANGED <<groupVars, portfolio, live, db, saving, history>>

Rebuilt(positions) ==
  [o \in Outcomes |->
     SumFunction([g \in DOMAIN positions |->
                    IF o \in positions[g].markets THEN Share(positions[g]) ELSE 0])]

LoadedCash(p) == IF p \in DOMAIN disk.cash THEN disk.cash[p] ELSE InitialCapital
\* The rows that parse; the next save deletes the others.
LoadedOpen(p) ==
  Restrict(disk.open[p], {g \in DOMAIN disk.open[p] : <<p, disk.open[p][g].id>> \notin Garbled})

LoadOrNew ==
  /\ cash' = [p \in Names |-> LoadedCash(p)]
  /\ open' = [p \in Names |-> LoadedOpen(p)]
  /\ exposure' = [p \in Names |-> Rebuilt(LoadedOpen(p))]

\* The process dies and starts again from the disk.  The scan at the start,
\* if it succeeds, is a Rescan.
Restart ==
  /\ boots < MaxBoots /\ boots' = boots + 1
  /\ db' = disk /\ live' = disk.live
  /\ constraints' = FromCache
  /\ LoadOrNew
  /\ saving' = <<>> /\ mirroring' = FALSE
  /\ UNCHANGED <<market, disk, entries, reversed, saves>>

-----------------------------------------------------------------------------
\* A save reads nothing of the venue, so the venue acts between the ticks.
\* After the last entry of the bound nothing reads what a scan brings.
Around == Idle /\ (Venue \/ (entries < MaxEntries /\ Rescan))

Next ==
  \/ Around /\ UNCHANGED <<portfolio, live, stored, history>>
  \/ \E g \in Groups, sell \in Sides, shadows, lives \in BOOLEAN :
       Opportunity(g, sell, shadows, lives)
  \/ \E g \in Groups : LiveResolved(g) \/ LiveAnnounced(g) \/ ShadowResolved(g)
  \/ \E g \in Groups : LiveDropped(g) \/ RolledBack(g)
  \/ \E g \in Groups, pct \in ExitPcts : LiveExited(g, pct)
  \/ Save \/ Write \/ Mirror \/ Restart

Spec == Init /\ [][Next]_vars

\* The resolution poll: what it finds settled it closes.
Polled(g) == LiveResolved(g) \/ ShadowResolved(g)

\* A save comes to its end, and the poll comes back to every group.
FairSpec ==
  /\ Spec /\ WF_vars(Write)
  /\ \A g \in Groups : SF_vars(Polled(g))

-----------------------------------------------------------------------------
(* Properties.                                                             *)

PositionsOf(p) == {open[p][g] : g \in Held(p)}

TypeOK ==
  /\ GroupsTypeOK
  /\ cash \in [Names -> Nat]
  /\ DOMAIN open = Names
  /\ \A p \in Names : Held(p) \subseteq Groups /\ PositionsOf(p) \subseteq
       [id : 1..entries, size : MinSize..MaxSize, markets : SUBSET Outcomes, sell : BOOLEAN]
  /\ exposure \in [Names -> [Outcomes -> Nat]]
  /\ live \in [Groups -> SUBSET Outcomes]
  /\ saving \in Seq({"summary", "positions"} \X Names)
  /\ mirroring \in BOOLEAN /\ entries \in 0..MaxEntries
  /\ saves \in 0..MaxSaves /\ boots \in 0..MaxBoots
  /\ reversed \subseteq Names \X (1..entries)

\* The exposure of a market is what the open positions of the portfolio put
\* into it, through every way a position closes and through a restart:
\* otherwise gate 6 refuses markets for money that is no longer there.
ExposureMatches ==
  \A p \in Names, o \in Outcomes :
    LET g == GroupOf[o]
    IN exposure[p][o] =
         IF g \in Held(p) /\ o \in open[p][g].markets THEN Share(open[p][g]) ELSE 0

\* The entries of p that a database knows of, as open or as closed.
Known(d, p) == {d.open[p][g].id : g \in DOMAIN d.open[p]} \cup {r.id : r \in {q \in d.rows : q.who = p}}

\* A virtual entry that has reached the disk never vanishes from it, whatever
\* the mirror thread catches of a save and wherever the program dies: it
\* stays open there or has a closed row, unless it was rolled back or its row
\* does not parse.
KeptOrClosed ==
  [][\A p \in Names : \A n \in Known(disk, p) :
       n \in Known(disk', p) \/ <<p, n>> \in reversed \cup Garbled]_disk

\* A live entry holds every market of its group that could still win when the
\* freshness check was answered, although scans are cut short, groups grow
\* after the scan and markets come without tokens: as long as the check is
\* made, the venue heeds its filter and the group is smaller than a page.
LiveCovers ==
  [][\A g \in Groups :
       /\ boots' = boots /\ live[g] = {} /\ live'[g] # {}
       /\ Checks /\ FilterWorks /\ CurrentSize(g) < PageLimit
       => OutcomesOf(g) \cap OpenMarkets \subseteq live'[g]]_live

\* The virtual positions in a group that is decided are closed in the end, by
\* one poll or the other: also when the live position beside them was dropped
\* without a word, was entered again, never was, or came back or went with a
\* restart.
ShadowsClose == \A g \in Groups : Decided(g) ~> HoldersOf(g) = {}
=============================================================================
