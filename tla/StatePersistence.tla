-------------------------- MODULE StatePersistence --------------------------
(***************************************************************************)
(* How the state of the engine gets to disk and back                       *)
(*   Orchestrator::save_state, load_state, run                             *)
(*                                  (rust_supervisor/src/orchestrator.rs)  *)
(*   StateDB                        (rust_engine/src/state.rs)             *)
(*   CachedSqliteDB                 (rust_engine/src/cached_db.rs)         *)
(* The orchestrator's thread copies the engine's state into an in-memory   *)
(* database in several steps, each under the database's lock; a background *)
(* thread copies that database to disk, also under the lock, whenever it   *)
(* gets there.  A feed thread may close a resolved position in the middle  *)
(* of a save (handle_resolved, rust_engine/src/ws.rs); nothing else        *)
(* changes the engine then.  The process may die at any time, and a        *)
(* restart loads the disk.                                                 *)
(*                                                                         *)
(* The state is abstracted to what can get lost or come apart: the cash of *)
(* the manager, its open and closed positions, the ledger's cash.  A       *)
(* position costs 1, is sold or redeemed for 2, a rollback refunds the 1.  *)
(* The ledger never hears of a redemption.                                 *)
(***************************************************************************)
EXTENDS Integers, SequencesExt

CONSTANTS
  Pids,
  Start,        \* the configured initial capital
  Unreadable,   \* positions whose stored row does not parse after a restart
  MaxBoots      \* bound: starts of the process

ASSUME StateAssumption ==
  Start \in Nat /\ Unreadable \subseteq Pids /\ MaxBoots \in Nat \ {0}

VARIABLES
  live,      \* the engine: manager, ledger and auto_rolled_back
  snap,      \* the positions save_state read under the manager's lock
  db,        \* the in-memory database
  disk,      \* the file; none reads as a fresh state
  pc,        \* where save_state is
  mirror,    \* the background thread
  stopping,  \* the loop has ended: the next save is the last
  used,      \* positions ever entered
  redeemed,  \* history: the positions closed by their resolution
  fed,       \* history: where the feed hit the last save
  torn,      \* history: the file was copied in the middle of a save
  tainted,   \* history: a restart loaded a torn file or lost a row
  failed,    \* history: a copy failed since the last save began
  boots

stores  == <<db, disk>>
history == <<used, redeemed, fed, torn, tainted, failed>>
vars    == <<live, snap, stores, pc, mirror, stopping, history, boots>>

Fresh == [cash |-> Start, open |-> {}, closed |-> {}, ledger |-> Start]

\* load_open and load_by_status: the rows of one status, those that parse.
Readable(rows) == rows \ Unreadable

\* The engine that load_state makes of an image, closed positions in any order.
Loaded(image, order) ==
  [cash |-> image.cash, open |-> Readable(image.open),
   closed |-> order, ledger |-> image.ledger, rolledBack |-> {}]
Image(e) ==
  [cash |-> e.cash, open |-> e.open, closed |-> ToSet(e.closed), ledger |-> e.ledger]

Init ==
  /\ live = Loaded(Fresh, <<>>) /\ snap = live
  /\ db = Fresh /\ disk = Fresh
  /\ pc = "idle" /\ mirror = "idle" /\ stopping = FALSE
  /\ used = {} /\ redeemed = {} /\ fed = "none" /\ torn = FALSE /\ tainted = FALSE
  /\ failed = FALSE /\ boots = 1

-----------------------------------------------------------------------------
\* What happens to positions between saves

Running == pc = "idle" /\ ~stopping

\* Mutant: without a look at the capital.
MutEnter(p) ==
  /\ Running /\ p \notin used
  /\ live' = [live EXCEPT !.cash = @ - 1, !.ledger = @ - 1, !.open = @ \cup {p}]
  /\ used' = used \cup {p}
  /\ UNCHANGED <<snap, stores, pc, mirror, stopping, redeemed, fed, torn, tainted,
                 failed, boots>>
Enter(p) ==
  /\ Running /\ p \notin used /\ live.cash > 0
  /\ live' = [live EXCEPT !.cash = @ - 1, !.ledger = @ - 1, !.open = @ \cup {p}]
  /\ used' = used \cup {p}
  /\ UNCHANGED <<snap, stores, pc, mirror, stopping, redeemed, fed, torn, tainted,
                 failed, boots>>

\* An exit that sells everything.
Sell(p) ==
  /\ Running /\ p \in live.open
  /\ live' = [live EXCEPT !.cash = @ + 2, !.ledger = @ + 2,
                          !.open = @ \ {p}, !.closed = Append(@, p)]
  /\ UNCHANGED <<snap, stores, pc, mirror, stopping, history, boots>>

\* close_on_resolution: the manager is credited, the ledger is not.
Redeem(p) ==
  /\ p \in live.open
  /\ live' = [live EXCEPT !.cash = @ + 2, !.open = @ \ {p}, !.closed = Append(@, p)]
  /\ redeemed' = redeemed \cup {p}
  /\ UNCHANGED <<snap, stores, pc, mirror, stopping, used, torn, tainted, failed, boots>>

\* check_api_resolutions.
PollCloses(p) == Running /\ Redeem(p) /\ UNCHANGED fed

\* handle_resolved: as the poll, at any point of a save.
FeedCloses(p) ==
  /\ pc # "stopped" /\ Redeem(p)
  /\ fed' = IF pc = "snapshot" THEN "cut"
            ELSE IF pc # "idle" /\ fed = "none" THEN "late"
            ELSE fed

\* apply_reconciliation_inner, for a phantom.
RollBack(p) ==
  /\ Running /\ p \in live.open
  /\ live' = [live EXCEPT !.cash = @ + 1, !.ledger = @ + 1, !.open = @ \ {p},
                          !.rolledBack = @ \cup {p}]
  /\ UNCHANGED <<snap, stores, pc, mirror, stopping, history, boots>>

-----------------------------------------------------------------------------
\* save_state

\* Mutant: nobody waits for the thread.
MutBegins == pc = "idle"
\* The last save waits for the background thread.
Begins == pc = "idle" /\ (stopping => mirror = "idle")

WithScalars(d, e) == [d EXCEPT !.cash = e.cash]

SaveScalars ==
  /\ Begins
  /\ db' = WithScalars(db, live)
  /\ pc' = "snapshot" /\ failed' = FALSE /\ fed' = "none"
  /\ UNCHANGED <<live, snap, disk, mirror, stopping, used, redeemed, torn, tainted,
                 boots>>

\* The open and the closed positions, under one lock.
TakeSnapshot ==
  /\ pc = "snapshot" /\ pc' = "guard"
  /\ snap' = live
  /\ UNCHANGED <<live, stores, mirror, stopping, history, boots>>

\* Why a stored open position may be gone from an engine that has none open.
AccountedFor(e, p) == p \in ToSet(e.closed) \cup e.rolledBack

\* Nothing open here, something open there, and no reason for it: give up.
StateGuard(e, d) ==
  e.open = {} /\ \E p \in d.open : ~AccountedFor(e, p)

Return == IF stopping THEN "stopped" ELSE "idle"

Guard ==
  /\ pc = "guard"
  /\ pc' = IF StateGuard(snap, db) THEN Return ELSE "stale"
  /\ UNCHANGED <<live, snap, stores, mirror, stopping, history, boots>>

Stale(e, d) == d.open \ e.open

WithoutPosition(d, p) == [d EXCEPT !.open = @ \ {p}]

DeleteStale ==
  /\ pc = "stale" /\ Stale(snap, db) # {}
  /\ \E p \in Stale(snap, db) : db' = WithoutPosition(db, p)
  /\ UNCHANGED <<live, snap, disk, pc, mirror, stopping, history, boots>>

\* Rows are keyed by position: writing one as open or closed replaces it.
SaveOpen ==
  /\ pc = "stale" /\ Stale(snap, db) = {}
  /\ db' = [db EXCEPT !.open = @ \cup snap.open, !.closed = @ \ snap.open]
  /\ pc' = "closed"
  /\ UNCHANGED <<live, snap, disk, mirror, stopping, history, boots>>

\* closed_rows_data[db_closed..]
Unsaved(e, d) == {e.closed[i] : i \in (Cardinality(d.closed) + 1)..Len(e.closed)}

\* Mutant: no more closed positions than stored.
MutClosedGuard(e, d) == Len(e.closed) <= Cardinality(d.closed)
\* Fewer closed positions than stored: mirror at once and give up.
ClosedGuard(e, d) == Len(e.closed) < Cardinality(d.closed)

SaveClosed ==
  /\ pc = "closed" /\ ~ClosedGuard(snap, db)
  /\ db' = [db EXCEPT !.closed = @ \cup Unsaved(snap, db),
                     !.open   = @ \ Unsaved(snap, db)]
  /\ pc' = "ledger"
  /\ UNCHANGED <<live, snap, disk, mirror, stopping, history, boots>>

\* The database holds the state of several moments.
MidSave == pc \in {"snapshot", "guard", "stale", "closed", "ledger"} \/ fed = "cut"

MirrorNow ==
  /\ pc = "closed" /\ ClosedGuard(snap, db)
  /\ disk' = db /\ torn' = (fed = "cut")
  /\ pc' = Return
  /\ UNCHANGED <<live, snap, db, mirror, stopping, used, redeemed, fed, tainted,
                 failed, boots>>

WithCheckpoint(d, e) == [d EXCEPT !.ledger = e.ledger]

\* The ledger is read here; the feed never writes it.
SaveLedger ==
  /\ pc = "ledger"
  /\ db' = WithCheckpoint(db, live)
  /\ pc' = "mirror"
  /\ UNCHANGED <<live, snap, disk, mirror, stopping, history, boots>>

\* Mutant: without an earlier mirror there is no first one.
MutSpawns == mirror = "copied"
\* A mirror that still runs is not followed by another.
Spawns == mirror = "idle"

StartMirror ==
  /\ pc = "mirror"
  /\ mirror' = IF Spawns THEN "started" ELSE mirror
  /\ pc' = Return
  /\ UNCHANGED <<live, snap, stores, stopping, history, boots>>

-----------------------------------------------------------------------------
\* The background thread

Copy ==
  /\ mirror = "started" /\ mirror' = "copied"
  /\ disk' = db /\ torn' = MidSave
  /\ UNCHANGED <<live, snap, db, pc, stopping, used, redeemed, fed, tainted, failed,
                 boots>>

\* The file cannot be opened or written: a warning, and it stays as it was.
CopyFails ==
  /\ failed' = TRUE
  /\ \/ mirror = "started" /\ mirror' = "copied" /\ UNCHANGED pc
     \/ pc = "closed" /\ ClosedGuard(snap, db) /\ pc' = Return /\ UNCHANGED mirror
  /\ UNCHANGED <<live, snap, stores, stopping, used, redeemed, fed, torn, tainted, boots>>

\* The other databases are copied before the thread ends.
Finish ==
  /\ mirror = "copied" /\ mirror' = "idle"
  /\ UNCHANGED <<live, snap, stores, pc, stopping, history, boots>>

-----------------------------------------------------------------------------
\* The process

Shutdown ==
  /\ Running /\ boots < MaxBoots
  /\ stopping' = TRUE
  /\ UNCHANGED <<live, snap, stores, pc, mirror, history, boots>>

\* Started again after the last save, or after a crash anywhere.
Stopped == pc = "stopped" /\ mirror = "idle"

\* load_from_disk: the file as a whole, tables it lacks are made.
FromDisk == disk

Boot ==
  /\ boots < MaxBoots /\ boots' = boots + 1
  /\ db' = FromDisk
  /\ \E order \in SetToSeqs(Readable(db'.closed)) : live' = Loaded(db', order)
  /\ snap' = live'
  /\ pc' = "idle" /\ mirror' = "idle" /\ stopping' = FALSE
  /\ failed' = FALSE /\ fed' = "none"
  /\ tainted' = (tainted \/ torn \/ (disk.open \cup disk.closed) \cap Unreadable # {})
  /\ redeemed' = redeemed \cap disk.closed
  /\ UNCHANGED <<disk, used, torn>>

SaveStep ==
  SaveScalars \/ TakeSnapshot \/ Guard \/ DeleteStale \/ SaveOpen \/ SaveClosed \/ MirrorNow
    \/ SaveLedger \/ StartMirror

Next ==
  \/ \E p \in Pids : Enter(p) \/ Sell(p) \/ RollBack(p)
  \/ \E p \in Pids : PollCloses(p) \/ FeedCloses(p)
  \/ SaveStep
  \/ Copy \/ CopyFails \/ Finish
  \/ Shutdown \/ Boot

Spec == Init /\ [][Next]_vars

\* The loop comes round to the next step of a save, the thread runs, and the
\* disk does not refuse every copy for ever.
FairSpec == Spec /\ WF_vars(SaveStep) /\ SF_vars(Copy) /\ SF_vars(MirrorNow)
            /\ WF_vars(Finish)

-----------------------------------------------------------------------------
ImageType ==
  [cash: Nat, open: SUBSET Pids, closed: SUBSET Pids, ledger: Int]

EngineOK(e) ==
  /\ e.cash \in Nat /\ e.ledger \in Int
  /\ e.open \subseteq Pids /\ e.rolledBack \subseteq Pids
  /\ e.closed \in Seq(Pids) /\ e.open \cap ToSet(e.closed) = {}

TypeOK ==
  /\ EngineOK(live) /\ EngineOK(snap)
  /\ db \in ImageType /\ disk \in ImageType
  /\ pc \in {"idle", "snapshot", "guard", "stale", "closed", "ledger", "mirror",
             "stopped"}
  /\ mirror \in {"idle", "started", "copied"}
  /\ fed \in {"none", "cut", "late"}
  /\ {stopping, torn, tainted, failed} \subseteq BOOLEAN
  /\ used \subseteq Pids /\ redeemed \subseteq Pids /\ boots \in 1..MaxBoots

\* A file that was not copied in the middle of a save is the state of one
\* moment: cash, stakes and closed positions add up, and the ledger lacks
\* the redemptions and nothing else.
Conserved(image) ==
  /\ image.cash + Cardinality(image.open) = Start + Cardinality(image.closed)
  /\ image.ledger = image.cash - 2 * Cardinality(image.closed \cap redeemed)
SnapshotConsistent == ~torn /\ ~tainted => Conserved(disk)

\* An orderly shutdown loses nothing unless the disk refuses the last copy or
\* the feed comes in between: "do a final sync save" (run).
ShutdownKeepsAll ==
  Stopped /\ ~tainted /\ ~failed /\ fed = "none" => disk = Image(live)

\* A position that stays open gets to the file, unless the process is stopped
\* and the disk refuses the last copy.
Stored ==
  \A p \in Pids :
    p \in live.open ~> \/ p \in disk.open \/ p \notin live.open
                       \/ Stopped /\ failed
=============================================================================
