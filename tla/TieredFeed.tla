----------------------------- MODULE TieredFeed -----------------------------
(***************************************************************************)
(* Which assets each tier of the feed is asked for: Tier B for the         *)
(* constraints a scan found, Tier C for the positions that are open        *)
(* (rust_engine/src/ws_tiered.rs, ws_tier_b.rs, ws_tier_c.rs and the hooks *)
(* of the orchestrator).                                                   *)
(*                                                                         *)
(* All calls come from the orchestrator's thread, so a call is one step;   *)
(* what happens between a pool and its connections is in WsPool.  Here a   *)
(* pool is the sequence of the sets that its connections track.  An asset  *)
(* is a token; a market has an id of its own, and tracking such an id      *)
(* feeds nothing.                                                          *)
(***************************************************************************)
EXTENDS Catalogue, Pools

CONSTANTS
  Lists,      \* per constraint: the lists of assets a scan may find for it
  MarketIds,  \* per constraint: the ids of its markets, as positions keep them
  ConnsB,     \* tier_b_max_connections
  Threshold,  \* tier_b_hysteresis_scans
  Consolidation, \* tier_b_consolidation_threshold
  MaxHeld,    \* bound: positions open at a time
  MaxBoots    \* bound: starts of the process

Ids == Tokens \cup UNION {MarketIds[c] : c \in Constraints}

\* A market is in one constraint, its group (detect.rs); a constraint has assets.
ASSUME ListsAssumption ==
  /\ Lists \in [Constraints -> SUBSET ((SUBSET Tokens) \ {{}})]
  /\ \A c, d \in Constraints : c # d => (UNION Lists[c]) \cap (UNION Lists[d]) = {}
ASSUME IdsAssumption ==
  \A c \in Constraints : IsFiniteSet(MarketIds[c]) /\ MarketIds[c] \cap Tokens = {}
ASSUME TiersAssumption ==
  /\ ConnsB \in Nat \ {0} /\ Threshold \in Nat \ {0} /\ Consolidation \in Nat
  /\ MaxBoots \in Nat \ {0}

NotHot == {}

VARIABLES
  b,         \* Tier B: the set of each connection
  c1,        \* Tier C: the set of its connection
  hot,       \* hot_constraints: the list recorded for each, or NotHot
  removal,   \* removal_candidates: scans it was missing from
  promoted,  \* promoted_to_c
  posAssets, \* position_assets of Tier C
  found,     \* last_constraint_to_assets: the best lists of the last scan
  held,      \* constraints with an open position
  boots,
  lacking,   \* history: ids refused by a full tier when last asked for
  absent     \* history: scans in a row that did not find a constraint

feed == <<b, c1, lacking>>
tierVars == <<b, c1, hot, removal, promoted, posAssets, found, held, boots, lacking, absent>>

-----------------------------------------------------------------------------
(* Pools.                                                                  *)

Tracked(pool) == UNION ToSet(pool)
FreeOn(pool, i) == IF Cardinality(pool[i]) < Cap THEN Cap - Cardinality(pool[i]) ELSE 0

\* start: a connection per chunk, at most max; one when there is nothing.
Started(list, max) ==
  [i \in 1..Max({1, Min({NumChunks(Len(list)), max})}) |-> Chunk(list, i)]

\* Mutant: new connections are spawned beyond the limit.
MutSubscribed(pool, list, max) ==
  pool \o [k \in 1..NumChunks(Len(list)) |-> Chunk(list, k)]

\* subscribe: fill the connections in order, then spawn others up to max.
Subscribed(pool, list, max) ==
  LET n == Len(pool)
      before(i) == SumFunctionOnSet([j \in 1..n |-> FreeOn(pool, j)], 1..(i - 1))
      filled == [i \in 1..n |-> pool[i] \cup
                   ToSet(SubSeq(list, before(i) + 1, Min({before(i + 1), Len(list)})))]
      rest == SubSeq(list, before(n + 1) + 1, Len(list))
  IN filled \o [k \in 1..Min({max - n, NumChunks(Len(rest))}) |-> Chunk(rest, k)]

Unsubscribed(pool, ids) == [i \in DOMAIN pool |-> pool[i] \ ids]

\* The pools after a subscription of ids to one of them, in any order.
ToB(ids) == {Subscribed(b, list, ConnsB) : list \in SetToSeqs(ids)}
ToC(ids) == {Subscribed(<<c1>>, list, 1)[1] : list \in SetToSeqs(ids)}
Refused(ids, tracked) == (lacking \ ids) \cup (ids \ tracked)

-----------------------------------------------------------------------------
Missing(c, scan) == IF c \in DOMAIN scan THEN 0 ELSE Min({absent[c] + 1, Threshold})

\* What a scan may find.
Scans == UNION {{s \in [S -> SUBSET Tokens] : \A c \in S : s[c] \in Lists[c]} : S \in SUBSET Constraints}

AssetsOf(scan) == UNION {scan[c] : c \in DOMAIN scan}

Unmonitored == [c \in Constraints |-> NotHot]
NoneCold == [c \in Constraints |-> 0]
AbsentFrom(scan) == [c \in Constraints |-> IF c \in DOMAIN scan THEN 0 ELSE Threshold]

\* A start of the process: the tiers start before the state is loaded, so
\* Tier C without position assets, and Tier B with all assets of the scan but
\* without a hot constraint.
TiersInit ==
  /\ \E scan \in Scans : \E list \in SetToSeqs(AssetsOf(scan)) :
       /\ b = Started(list, ConnsB)
       /\ found = scan
       /\ absent = AbsentFrom(scan)
       /\ lacking = ToSet(list) \ Tracked(b)
  /\ c1 = {} /\ promoted = {} /\ posAssets = {}
  /\ hot = Unmonitored /\ removal = NoneCold
  /\ held = {} /\ boots = 1

\* The state with the open positions survives, the subscriptions do not.
Restart ==
  /\ boots < MaxBoots /\ boots' = boots + 1
  /\ \E scan \in Scans : \E list \in SetToSeqs(AssetsOf(scan)) :
       /\ b' = Started(list, ConnsB)
       /\ found' = scan
       /\ absent' = AbsentFrom(scan)
       /\ lacking' = ToSet(list) \ Tracked(b')
  /\ c1' = {} /\ promoted' = {} /\ posAssets' = {}
  /\ hot' = Unmonitored /\ removal' = NoneCold
  /\ UNCHANGED held

\* Mutant: a constraint that comes back keeps its count.
MutCounted(scan) ==
  [c \in Constraints |-> IF hot[c] # NotHot /\ c \notin DOMAIN scan THEN removal[c] + 1
                         ELSE IF hot[c] = NotHot THEN 0 ELSE removal[c]]

\* removal_candidates after a scan.
Counted(scan) ==
  [c \in Constraints |->
     IF hot[c] # NotHot /\ c \notin DOMAIN scan THEN removal[c] + 1 ELSE 0]

\* The constraints that were missing long enough.
Cooled(scan) == {c \in Constraints : Counted(scan)[c] >= Threshold}

\* update_hot_constraints: a new constraint is recorded with its list even if
\* the pool has no room for it; the list of one that stays is not looked at.
Rescan(scan) ==
  LET new == {c \in DOMAIN scan : hot[c] = NotHot}
      add == (UNION {scan[c] : c \in new}) \ promoted
      drop == (UNION {hot[c] : c \in Cooled(scan)}) \ promoted
  IN /\ \E pool \in ToB(add) :
          /\ b' = Unsubscribed(pool, drop)
          /\ lacking' = Refused(add, Tracked(pool)) \ drop
     /\ hot' = [c \in Constraints |-> IF c \in new THEN scan[c]
                                      ELSE IF c \in Cooled(scan) THEN NotHot ELSE hot[c]]
     /\ removal' = [c \in Constraints |-> IF c \in Cooled(scan) THEN 0 ELSE Counted(scan)[c]]
     /\ found' = scan
     /\ absent' = [c \in Constraints |-> Missing(c, scan)]
     /\ UNCHANGED <<c1, promoted, posAssets, held, boots>>

\* add_position_assets of Tier C.
AddPositionAssets(ids) ==
  /\ posAssets' = posAssets \cup ids
  /\ c1' \in ToC(ids)

\* promote_to_c of Tier B.
PromoteToC(ids) ==
  /\ promoted' = promoted \cup ids
  /\ b' = Unsubscribed(b, ids)

\* Mutant: the assets are taken off Tier B and not subscribed on Tier C.
MutOnEntry(ids) ==
  /\ PromoteToC(ids)
  /\ UNCHANGED <<c1, posAssets, lacking>>

\* on_position_entry: on Tier C first, then off Tier B, whether or not Tier C
\* had room.
OnEntry(ids) ==
  /\ AddPositionAssets(ids)
  /\ PromoteToC(ids)
  /\ lacking' = Refused(ids, c1')

\* demote_from_c of Tier B: they are subscribed if the constraint is monitored.
DemoteFromC(ids, c) ==
  /\ promoted' = promoted \ ids
  /\ IF hot[c] = NotHot THEN UNCHANGED <<b, lacking>>
     ELSE b' \in ToB(ids) /\ lacking' = Refused(ids, Tracked(b') \cup c1)

\* remove_position_assets of Tier C: only what it had as such.
RemovePositionAssets(ids) ==
  /\ posAssets' = posAssets \ ids
  /\ c1' = c1 \ (ids \cap posAssets)

\* on_position_exit.  The ids are the keys of the position's markets.
OnExit(c) ==
  /\ IF c \in DOMAIN found THEN DemoteFromC(MarketIds[c], c)
     ELSE UNCHANGED <<promoted, b, lacking>>
  /\ RemovePositionAssets(MarketIds[c])

\* The assets of a loaded constraint.  All that a scan finds are loaded; Tier B
\* hears of the best of them only, so one it did not hear of may be entered.
LoadedLists(c) == IF c \in DOMAIN found THEN {found[c]} ELSE Lists[c]

\* An opportunity of a loaded constraint is entered.
Enter(c) ==
  /\ c \notin held /\ Cardinality(held) < MaxHeld
  /\ held' = held \cup {c}
  /\ \E ids \in LoadedLists(c) : OnEntry(ids)
  /\ UNCHANGED <<hot, removal, found, boots, absent>>

\* A proactive exit in full.
ExitWhole(c) ==
  /\ c \in held /\ held' = held \ {c}
  /\ OnExit(c)
  /\ UNCHANGED <<hot, removal, found, boots, absent>>

\* The tick has the resolution events of a position: it tells the feed, but
\* nothing closes the position yet.
Announced(c) ==
  /\ c \in held
  /\ OnExit(c)
  /\ UNCHANGED <<hot, removal, found, held, boots, absent>>

\* A rollback, the reconciler or the resolution poll closes a position: the
\* feed is not told.
CloseUntold(c) ==
  /\ c \in held /\ held' = held \ {c}
  /\ UNCHANGED <<feed, hot, removal, promoted, posAssets, found, boots, absent>>

\* A replacement: the exit is told to the feed, also when it sold only a part
\* of w; the entry of c is not.
ReplaceHeld(c, w) ==
  /\ c \notin held /\ w \in held
  /\ \E whole, enters \in BOOLEAN :
       LET rest == IF whole THEN held \ {w} ELSE held
       IN held' = (IF enters /\ Cardinality(rest) < MaxHeld THEN rest \cup {c} ELSE rest)
  /\ OnExit(w)
  /\ UNCHANGED <<hot, removal, found, boots, absent>>

\* maybe_consolidate, once an hour, of Tier B.
Consolidate ==
  LET n == Len(b)
      total == SumFunctionOnSet([i \in 1..n |-> Cardinality(b[i])], 1..n)
      needed == Max({1, NumChunks(total)})
  IN /\ n > 1 /\ needed < n /\ total < (n - 1) * Consolidation
     /\ \E order \in [1..n -> UNION {SetToSeqs(b[i]) : i \in 1..n}] :
          /\ \A i \in 1..n : order[i] \in SetToSeqs(b[i])
          /\ b' = [i \in 1..n |-> IF i <= needed THEN Chunk(FlattenSeq(order), i) ELSE {}]
     /\ UNCHANGED <<c1, hot, removal, promoted, posAssets, found, held, boots, lacking, absent>>

TiersNext ==
  \/ \E scan \in Scans : Rescan(scan)
  \/ \E c \in Constraints : Enter(c) \/ ExitWhole(c) \/ Announced(c) \/ CloseUntold(c)
  \/ \E c, w \in Constraints : ReplaceHeld(c, w)
  \/ Consolidate
  \/ Restart

TiersSpec == TiersInit /\ [][TiersNext]_tierVars

-----------------------------------------------------------------------------
TiersTypeOK ==
  /\ b \in Seq(SUBSET Ids) /\ Len(b) \in 1..ConnsB
  /\ \A i \in DOMAIN b : Cardinality(b[i]) <= Cap
  /\ c1 \subseteq Ids /\ Cardinality(c1) <= Cap
  /\ hot \in [Constraints -> SUBSET Tokens]
  /\ removal \in [Constraints -> 0..(Threshold - 1)]
  /\ promoted \subseteq Ids /\ posAssets \subseteq Ids
  /\ found \in Scans /\ held \subseteq Constraints /\ boots \in 1..MaxBoots
  /\ lacking \subseteq Ids /\ absent \in [Constraints -> 0..Threshold]

Fed == Tracked(b) \cup c1

\* Every asset of a constraint that is being monitored is fed by one tier or
\* the other, unless a tier was full when it was asked for: over entries,
\* exits, replacements, rescans and consolidations no asset falls between the
\* tiers (ws_tiered.rs, "overlap > gap").
HotCovered == \A c \in Constraints : hot[c] \subseteq Fed \cup lacking

\* Tier B lets go of an asset only for Tier C, or when its constraint was
\* missing from so many scans in a row (ws_tier_b.rs, "constraints that
\* disappear must stay cold").
ColdNeverEarly ==
  [][boots' = boots =>
       \A a \in (Tracked(b) \cap Tokens) \ Tracked(b') :
         \/ a \in promoted'
         \/ \E c \in Constraints : a \in hot[c] /\ absent'[c] >= Threshold]_tierVars
=============================================================================
