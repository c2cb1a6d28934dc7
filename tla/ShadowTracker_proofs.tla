------------------------- MODULE ShadowTracker_proofs -------------------------
(***************************************************************************)
(* Theorems about ShadowTracker, for any portfolios and gates, any groups, *)
(* any finite set of markets, any profits and any number of entries and    *)
(* restarts.                                                               *)
(***************************************************************************)
EXTENDS ShadowTracker, FoldTheorems

-----------------------------------------------------------------------------
(* What every part of the state looks like.                                *)

DbFields == {"live", "cash", "open", "rows"}
DbShape(d) == DOMAIN d = DbFields /\ DOMAIN d.open = Names /\ DOMAIN d.live = Groups

Shape ==
  /\ DOMAIN open = Names /\ DOMAIN live = Groups
  /\ DbShape(db) /\ DbShape(disk)

\* Nothing is opened: what remains of the positions f in h is as it was.
Shrinks(f, h) ==
  /\ DOMAIN h = Names
  /\ \A p \in Names : DOMAIN h[p] \subseteq DOMAIN f[p]
                   /\ \A g \in DOMAIN h[p] : h[p][g] = f[p][g]

LEMMA WithoutIs ==
  ASSUME NEW p, NEW g
  PROVE  /\ DOMAIN Without(p, g) = Held(p) \ {g}
         /\ \A h \in Held(p) \ {g} : Without(p, g)[h] = open[p][h]
BY DEF Without, Restrict

\* The entries that are open, and those that have a row.
Ids(f) == {f[g].id : g \in DOMAIN f}
RowsOf(rows, p) == {r.id : r \in {q \in rows : q.who = p}}

LEMMA KnownIs ==
  ASSUME NEW d, NEW p
  PROVE  Known(d, p) = Ids(d.open[p]) \cup RowsOf(d.rows, p)
<1>1. {d.open[p][g].id : g \in DOMAIN d.open[p]} = Ids(d.open[p])
  BY DEF Ids
<1>2. {r.id : r \in {q \in d.rows : q.who = p}} = RowsOf(d.rows, p)
  BY DEF RowsOf
<1> QED BY <1>1, <1>2 DEF Known

LEMMA CloseIs ==
  ASSUME Shape, NEW g, NEW profit, Close(g, profit)
  PROVE  /\ Shrinks(open, open')
         /\ DbShape(db') /\ db'.live = db.live /\ db'.open = db.open
         /\ db.rows \subseteq db'.rows
         /\ \A p \in Names : Ids(open[p]) \subseteq Ids(open'[p]) \cup RowsOf(db'.rows, p)
<1> DEFINE new == {Row(p, g, profit[p]) : p \in HoldersOf(g)}
<1>1. open' = [p \in Names |-> Without(p, g)] /\ db' = Booked(new)
  BY DEF Close
<1>2. Shrinks(open, open')
  <2>1. DOMAIN open' = Names
    BY <1>1
  <2>2. \A p \in Names : open'[p] = Without(p, g)
    BY <1>1
  <2>3. \A p \in Names : DOMAIN open'[p] = DOMAIN open[p] \ {g}
    BY <2>2, WithoutIs DEF Held
  <2>4. ASSUME NEW p \in Names, NEW h \in DOMAIN open[p] \ {g}
        PROVE  open'[p][h] = open[p][h]
    <3>1. h \in Held(p) \ {g}
      BY DEF Held
    <3>2. Without(p, g)[h] = open[p][h]
      BY <3>1, WithoutIs
    <3> QED BY <2>2, <3>2
  <2> QED BY <2>1, <2>3, <2>4 DEF Shrinks
<1> HIDE DEF new
<1>3. DbShape(db') /\ db'.live = db.live /\ db'.open = db.open /\ db'.rows = db.rows \cup new
  <2>1. DOMAIN db = {"live", "cash", "open", "rows"} /\ DbShape(db)
    BY DEF Shape, DbShape, DbFields
  <2>2. db' = [db EXCEPT !.rows = @ \cup new]
    BY <1>1 DEF Booked
  <2> QED BY <2>1, <2>2 DEF DbShape, DbFields
<1>4. ASSUME NEW p \in Names, NEW h \in Held(p)
      PROVE  open[p][h].id \in Ids(open'[p]) \cup RowsOf(db'.rows, p)
  <2>1. CASE h = g
    <3>1. p \in HoldersOf(g)
      BY <2>1, <1>4 DEF HoldersOf
    <3>2. Row(p, g, profit[p]) \in new
      BY <3>1 DEF new
    <3>3. Row(p, g, profit[p]).who = p /\ Row(p, g, profit[p]).id = open[p][g].id
      BY DEF Row
    <3> QED BY <2>1, <3>2, <3>3, <1>3 DEF RowsOf
  <2>2. CASE h # g
    <3>1. open'[p] = Without(p, g)
      BY <1>1
    <3>2. h \in DOMAIN Without(p, g) /\ Without(p, g)[h] = open[p][h]
      BY <2>2, <1>4, WithoutIs
    <3>3. h \in DOMAIN open'[p] /\ open'[p][h].id = open[p][h].id
      BY <3>1, <3>2
    <3> QED BY <3>3 DEF Ids
  <2> QED BY <2>1, <2>2
<1>5. \A p \in Names : Ids(open[p]) \subseteq Ids(open'[p]) \cup RowsOf(db'.rows, p)
  <2> SUFFICES ASSUME NEW p \in Names, NEW n \in Ids(open[p])
               PROVE  n \in Ids(open'[p]) \cup RowsOf(db'.rows, p)
    OBVIOUS
  <2>1. PICK h \in Held(p) : n = open[p][h].id
    BY DEF Ids, Held
  <2>2. open[p][h].id \in Ids(open'[p]) \cup RowsOf(db'.rows, p)
    BY <1>4
  <2> QED BY <2>1, <2>2
<1>6. db.rows \subseteq db'.rows
  BY <1>3
<1> QED BY <1>2, <1>3, <1>5, <1>6

LEMMA RollbackIs ==
  ASSUME Shape, NEW g, RollbackEntry(g)
  PROVE  /\ Shrinks(open, open')
         /\ DbShape(db') /\ db'.live = db.live /\ db'.rows = db.rows
         /\ \A p \in Names : db'.open[p] = db.open[p] \/ db'.open[p] = open'[p]
         /\ reversed \subseteq reversed'
         /\ \A p \in Names : \A n \in Ids(open[p]) : n \in Ids(open'[p]) \/ <<p, n>> \in reversed'
         /\ \A p \in Names : p \notin HoldersOf(g) => Ids(open'[p]) = Ids(open[p])
                                                   /\ db'.open[p] = db.open[p]
         /\ \A p \in HoldersOf(g) : db'.open[p] = open'[p]
<1>1. /\ open' = [p \in Names |-> Without(p, g)]
      /\ reversed' = reversed \cup {<<p, open[p][g].id>> : p \in HoldersOf(g)}
  BY DEF RollbackEntry
<1>2. Shrinks(open, open')
  <2>1. DOMAIN open' = Names
    BY <1>1
  <2>2. \A p \in Names : open'[p] = Without(p, g)
    BY <1>1
  <2>3. \A p \in Names : DOMAIN open'[p] = DOMAIN open[p] \ {g}
    BY <2>2, WithoutIs DEF Held
  <2>4. ASSUME NEW p \in Names, NEW h \in DOMAIN open[p] \ {g}
        PROVE  open'[p][h] = open[p][h]
    <3>1. h \in Held(p) \ {g}
      BY DEF Held
    <3>2. Without(p, g)[h] = open[p][h]
      BY <3>1, WithoutIs
    <3> QED BY <2>2, <3>2
  <2> QED BY <2>1, <2>3, <2>4 DEF Shrinks
<1>3. /\ DbShape(db') /\ db'.live = db.live /\ db'.rows = db.rows
      /\ \A p \in Names : db'.open[p] = IF p \in HoldersOf(g) THEN open'[p] ELSE db.open[p]
  BY DEF RollbackEntry, Shape, DbShape, DbFields
<1>4. \A p \in Names : DOMAIN open'[p] = Held(p) \ {g}
        /\ \A h \in Held(p) \ {g} : open'[p][h] = open[p][h]
  BY <1>1, WithoutIs
<1>5. \A p \in Names : \A n \in Ids(open[p]) : n \in Ids(open'[p]) \/ <<p, n>> \in reversed'
  <2> SUFFICES ASSUME NEW p \in Names, NEW h \in Held(p)
               PROVE  open[p][h].id \in Ids(open'[p]) \/ <<p, open[p][h].id>> \in reversed'
    BY DEF Ids, Held
  <2>1. CASE h = g
    <3>1. p \in HoldersOf(g)
      BY <2>1 DEF HoldersOf
    <3> QED BY <1>1, <2>1, <3>1
  <2>2. CASE h # g
    <3>1. h \in DOMAIN open'[p] /\ open'[p][h] = open[p][h]
      BY <1>4, <2>2
    <3> QED BY <3>1 DEF Ids
  <2> QED BY <2>1, <2>2
<1>6. \A p \in Names : p \notin HoldersOf(g) => Ids(open'[p]) = Ids(open[p])
  <2> SUFFICES ASSUME NEW p \in Names, p \notin HoldersOf(g)
               PROVE  Ids(open'[p]) = Ids(open[p])
    OBVIOUS
  <2>1. g \notin Held(p)
    BY DEF HoldersOf
  <2>2. DOMAIN open'[p] = DOMAIN open[p] /\ \A h \in DOMAIN open[p] : open'[p][h] = open[p][h]
    BY <1>4, <2>1 DEF Held
  <2> QED BY <2>2 DEF Ids
<1>7. HoldersOf(g) \subseteq Names
  BY DEF HoldersOf
<1> QED BY <1>1, <1>2, <1>3, <1>5, <1>6, <1>7

\* A portfolio that enters g did not hold it.
LEMMA EnterIs ==
  ASSUME Shape, NEW g \in Groups, NEW sell, ShadowsEnter(g, sell)
  PROVE  /\ DOMAIN open' = Names
         /\ \A p \in Names :
              \/ open'[p] = open[p]
              \/ /\ DOMAIN open'[p] = Held(p) \cup {g} /\ g \notin Held(p)
                 /\ open'[p][g] = NewPosition(p, g, sell)
                 /\ \A h \in Held(p) : open'[p][h] = open[p][h]
<1>1. open' = [p \in Names |->
         IF p \in Accepting(g) THEN With(p, g, NewPosition(p, g, sell)) ELSE open[p]]
  BY DEF ShadowsEnter
<1>2. \A p \in Accepting(g) : g \notin Held(p)
  BY DEF Accepting, PassesGates
<1>3. ASSUME NEW p \in Names, p \in Accepting(g)
      PROVE  /\ DOMAIN open'[p] = Held(p) \cup {g} /\ g \notin Held(p)
             /\ open'[p][g] = NewPosition(p, g, sell)
             /\ \A h \in Held(p) : open'[p][h] = open[p][h]
  <2>1. PICK pos : pos = NewPosition(p, g, sell)
    OBVIOUS
  <2>2. open'[p] = With(p, g, pos) /\ g \notin Held(p)
    BY <1>1, <1>2, <1>3, <2>1
  <2>3. /\ DOMAIN With(p, g, pos) = Held(p) \cup {g}
        /\ With(p, g, pos)[g] = pos
        /\ \A h \in Held(p) : With(p, g, pos)[h] = open[p][h]
    <3>1. With(p, g, pos) = [k \in Held(p) \cup {g} |-> IF k \in {g} THEN pos ELSE open[p][k]]
      BY DEF With, Updated, Held
    <3> QED BY <2>2, <3>1
  <2> QED BY <2>1, <2>2, <2>3
<1>4. \A p \in Names : p \notin Accepting(g) => open'[p] = open[p]
  BY <1>1
<1>5. DOMAIN open' = Names
  BY <1>1
<1> QED BY <1>3, <1>4, <1>5

-----------------------------------------------------------------------------
(* No entry is lost.                                                       *)

\* Rolled back, or of a row that does not parse.
Excused == reversed \cup Garbled

\* Every entry the database has as open is open in memory, or has a row, or is
\* excused.
Accounted ==
  \A p \in Names : \A n \in Ids(db.open[p]) :
    n \in Ids(open[p]) \/ n \in RowsOf(db.rows, p) \/ <<p, n>> \in Excused

\* Every entry the disk knows, the database knows, unless it is excused.
Mirrored ==
  \A p \in Names : \A n \in Known(disk, p) : n \in Known(db, p) \/ <<p, n>> \in Excused

KeptInv == Shape /\ Accounted /\ Mirrored

LEMMA EmptyDbShape == DbShape(EmptyDb) /\ \A p \in Names : Ids(EmptyDb.open[p]) = {}
BY DEF EmptyDb, DbShape, DbFields, Ids, Empty

LEMMA RowsGrow ==
  ASSUME NEW r, NEW s, r \subseteq s, NEW p PROVE RowsOf(r, p) \subseteq RowsOf(s, p)
BY DEF RowsOf

LEMMA InitKept == ASSUME Init PROVE KeptInv
<1>1. Shape
  BY EmptyDbShape DEF Init, Shape
<1>2. Accounted
  BY EmptyDbShape DEF Init, Accounted, Excused
<1>3. Mirrored
  BY DEF Init, Mirrored, Excused
<1> QED BY <1>1, <1>2, <1>3 DEF KeptInv

\* Nothing happens to positions and databases.
LEMMA SameKept ==
  ASSUME KeptInv, UNCHANGED <<open, db, disk, reversed>>, DOMAIN live' = DOMAIN live
  PROVE  KeptInv'
BY DEF KeptInv, Shape, Accounted, Mirrored, Excused

LEMMA EnterKept ==
  ASSUME KeptInv, NEW g \in Groups, NEW sell, ShadowsEnter(g, sell),
         UNCHANGED <<db, disk, reversed>>, DOMAIN live' = Groups
  PROVE  KeptInv'
<1>1. Shape
  BY DEF KeptInv
<1>2. \A p \in Names : Ids(open[p]) \subseteq Ids(open'[p])
  BY <1>1, EnterIs DEF Ids, Held
<1>3. Shape'
  BY <1>1, EnterIs DEF Shape
<1>4. Accounted' /\ Mirrored'
  BY <1>2 DEF KeptInv, Accounted, Mirrored, Excused
<1> QED BY <1>3, <1>4 DEF KeptInv

LEMMA CloseKept ==
  ASSUME KeptInv, NEW g, NEW profit, Close(g, profit),
         UNCHANGED <<disk, reversed>>, DOMAIN live' = Groups
  PROVE  KeptInv'
<1>1. Shape
  BY DEF KeptInv
<1>2. Shape'
  BY <1>1, CloseIs DEF Shape, Shrinks
<1>3. /\ db'.open = db.open /\ \A p \in Names : RowsOf(db.rows, p) \subseteq RowsOf(db'.rows, p)
      /\ \A p \in Names : Ids(open[p]) \subseteq Ids(open'[p]) \cup RowsOf(db'.rows, p)
  BY <1>1, CloseIs, RowsGrow
<1>4. Accounted'
  BY <1>3 DEF KeptInv, Accounted, Excused
<1>5. Mirrored'
  BY <1>3, KnownIs DEF KeptInv, Mirrored, Excused
<1> QED BY <1>2, <1>4, <1>5 DEF KeptInv

LEMMA RollbackKept ==
  ASSUME KeptInv, NEW g, RollbackEntry(g), UNCHANGED disk, DOMAIN live' = Groups
  PROVE  KeptInv'
<1>1. Shape
  BY DEF KeptInv
<1>2. Shape'
  BY <1>1, RollbackIs DEF Shape, Shrinks
<1>3. /\ db'.rows = db.rows /\ reversed \subseteq reversed'
      /\ \A p \in Names : db'.open[p] = open'[p]
                       \/ (db'.open[p] = db.open[p] /\ Ids(open'[p]) = Ids(open[p]))
      /\ \A p \in Names : \A n \in Ids(open[p]) : n \in Ids(open'[p]) \/ <<p, n>> \in reversed'
  BY <1>1, RollbackIs
<1>4. Accounted'
  BY <1>3 DEF KeptInv, Accounted, Excused
<1>5. Mirrored'
  BY <1>3, KnownIs DEF KeptInv, Mirrored, Accounted, Excused
<1> QED BY <1>2, <1>4, <1>5 DEF KeptInv

LEMMA SaveKept == ASSUME KeptInv, Save PROVE KeptInv'
<1>1. DbShape(db') /\ db'.open = db.open /\ db'.rows = db.rows
  BY DEF KeptInv, Shape, DbShape, DbFields, Save
<1>2. UNCHANGED <<open, disk, reversed, live>>
  BY DEF Save, portfolio, history
<1> QED BY <1>1, <1>2, KnownIs DEF KeptInv, Shape, Accounted, Mirrored, Excused

\* A write of open positions drops from the database only what has a row.
LEMMA WriteKept == ASSUME KeptInv, Write PROVE KeptInv'
<1> DEFINE q == Head(saving)[2]
<1>1. UNCHANGED <<open, disk, reversed, live>>
  BY DEF Write, portfolio, history
<1>2. db' = WithSummary(q) \/ db' = WithPositions(q)
  BY DEF Write
<1> HIDE DEF q
<1>3. /\ DbShape(db') /\ db'.rows = db.rows
      /\ \A p \in Names : db'.open[p] = db.open[p] \/ db'.open[p] = open[p]
  BY <1>2 DEF KeptInv, Shape, DbShape, DbFields, WithSummary, WithPositions
<1>4. Accounted'
  BY <1>1, <1>3 DEF KeptInv, Accounted, Excused
<1>5. Mirrored'
  BY <1>1, <1>3, KnownIs DEF KeptInv, Mirrored, Accounted, Excused
<1> QED BY <1>1, <1>3, <1>4, <1>5 DEF KeptInv, Shape

LEMMA MirrorKept == ASSUME KeptInv, Mirror PROVE KeptInv'
BY DEF KeptInv, Shape, Accounted, Mirrored, Excused, Mirror, portfolio, history

\* What is loaded of the positions on disk.
LEMMA LoadedIs ==
  ASSUME NEW p
  PROVE  /\ DOMAIN LoadedOpen(p) \subseteq DOMAIN disk.open[p]
         /\ \A g \in DOMAIN LoadedOpen(p) : LoadedOpen(p)[g] = disk.open[p][g]
         /\ \A n \in Ids(disk.open[p]) : n \in Ids(LoadedOpen(p)) \/ <<p, n>> \in Garbled
<1> DEFINE f == disk.open[p]
           S == {g \in DOMAIN f : <<p, f[g].id>> \notin Garbled}
<1>1. LoadedOpen(p) = [g \in S |-> f[g]]
  BY DEF LoadedOpen, Restrict
<1>2. DOMAIN LoadedOpen(p) = S /\ \A g \in S : LoadedOpen(p)[g] = f[g]
  BY <1>1
<1>3. ASSUME NEW n \in Ids(f), <<p, n>> \notin Garbled PROVE n \in Ids(LoadedOpen(p))
  <2>1. PICK g \in DOMAIN f : n = f[g].id
    BY DEF Ids
  <2>2. g \in S
    BY <1>3, <2>1
  <2> QED BY <1>2, <2>1, <2>2 DEF Ids
<1> QED BY <1>2, <1>3

LEMMA RestartKept == ASSUME KeptInv, Restart PROVE KeptInv'
<1>1. db' = disk /\ disk' = disk /\ live' = disk.live /\ reversed' = reversed
      /\ DOMAIN open' = Names /\ \A p \in Names : open'[p] = LoadedOpen(p)
  BY DEF Restart, LoadOrNew
<1>2. Shape'
  BY <1>1 DEF KeptInv, Shape, DbShape
<1>3. Accounted'
  BY <1>1, LoadedIs DEF Accounted, Excused
<1>4. Mirrored'
  BY <1>1 DEF Mirrored
<1> QED BY <1>2, <1>3, <1>4 DEF KeptInv

LEMMA OpportunityKept ==
  ASSUME KeptInv, NEW g \in Groups, NEW sell, NEW shadows, NEW lives,
         Opportunity(g, sell, shadows, lives)
  PROVE  KeptInv'
<1>1. UNCHANGED <<db, disk, reversed>> /\ (ShadowsEnter(g, sell) \/ UNCHANGED open)
  BY DEF Opportunity, stored, portfolio
<1>2. DOMAIN live' = Groups /\ DOMAIN live = Groups
  BY DEF Opportunity, KeptInv, Shape
<1> QED BY <1>1, <1>2, EnterKept, SameKept

\* The steps that close positions of one group.
Closing(g) ==
  /\ \E profit : Close(g, profit)
  /\ live' = live \/ LiveCloses(g)
  /\ UNCHANGED <<groupVars, disk, saving, mirroring, history>>

LEMMA Closings ==
  ASSUME NEW g \in Groups
  PROVE  /\ LiveResolved(g) => Closing(g)
         /\ LiveAnnounced(g) => Closing(g)
         /\ ShadowResolved(g) => Closing(g)
         /\ \A pct \in ExitPcts : LiveExited(g, pct) => Closing(g)
BY DEF LiveResolved, LiveAnnounced, ShadowResolved, LiveExited, Resolve, Closing

LEMMA ClosingKept == ASSUME KeptInv, NEW g \in Groups, Closing(g) PROVE KeptInv'
<1>1. PICK profit : Close(g, profit)
  BY DEF Closing
<1>2. UNCHANGED <<disk, reversed>> /\ DOMAIN live' = Groups
  BY DEF Closing, LiveCloses, history, KeptInv, Shape
<1> QED BY <1>1, <1>2, CloseKept

LEMMA DroppedKept == ASSUME KeptInv, NEW g \in Groups, LiveDropped(g) PROVE KeptInv'
BY SameKept DEF LiveDropped, LiveCloses, portfolio, stored, history

LEMMA RolledBackKept == ASSUME KeptInv, NEW g \in Groups, RolledBack(g) PROVE KeptInv'
BY RollbackKept DEF RolledBack, LiveCloses, KeptInv, Shape

LEMMA AroundKept ==
  ASSUME KeptInv, UNCHANGED <<portfolio, live, stored, history>> PROVE KeptInv'
BY SameKept DEF portfolio, stored, history

LEMMA NextKept == ASSUME KeptInv, [Next]_vars PROVE KeptInv'
<1>1. CASE UNCHANGED vars
  BY <1>1, AroundKept DEF vars, portfolio, stored, history
<1>2. CASE Next
  BY <1>2, AroundKept, OpportunityKept, Closings, ClosingKept, DroppedKept, RolledBackKept,
     SaveKept, WriteKept, MirrorKept, RestartKept DEF Next
<1> QED BY <1>1, <1>2

\* Only the mirror thread writes the disk.
LEMMA OnlyMirrorWrites ==
  ASSUME [Next]_vars PROVE disk' = disk \/ Mirror
BY DEF Next, vars, stored, Opportunity, LiveResolved, LiveAnnounced, ShadowResolved,
       LiveExited, LiveDropped, RolledBack, Save, Write, Restart

\* Every entry a database knows of is accounted for.
THEOREM ShadowInvariant == Spec => []KeptInv
BY InitKept, NextKept, PTL DEF Spec

\* A virtual entry that has reached the disk stays open there or has a closed
\* row, unless it was rolled back or its row does not parse.
THEOREM EntriesKept == Spec => KeptOrClosed
<1>1. ASSUME KeptInv, [Next]_vars
      PROVE  [\A p \in Names : \A n \in Known(disk, p) :
                n \in Known(disk', p) \/ <<p, n>> \in reversed \cup Garbled]_disk
  <2>1. CASE disk' = disk
    BY <2>1
  <2>2. CASE Mirror
    <3>1. disk' = db /\ KeptInv
      BY <1>1, <2>2 DEF Mirror
    <3>2. \A p \in Names : \A n \in Known(disk, p) : n \in Known(disk', p) \/ <<p, n>> \in Excused
      BY <3>1 DEF KeptInv, Mirrored
    <3> QED BY <3>2 DEF Excused
  <2> QED BY <1>1, <2>1, <2>2, OnlyMirrorWrites
<1> QED BY <1>1, ShadowInvariant, PTL DEF Spec, KeptOrClosed

-----------------------------------------------------------------------------
(* What is bought is listed.                                               *)

Listed(g) == {o \in OutcomesOf(g) : market[o] # "unlisted"}

\* Listings of live positions, and positions of a portfolio.
LiveListed(l) == \A g \in Groups : l[g] \subseteq Listed(g)
OpenListed(f) == \A g \in DOMAIN f : g \in Groups /\ f[g].markets \subseteq Listed(g)

\* Nothing stays open in a group that is decided.
MarketsInv ==
  /\ market \in [Outcomes -> {"unlisted", "open", "yes", "no"}]
  /\ \A g \in Groups : Decided(g) => \A o \in OutcomesOf(g) : market[o] # "open"

\* No detection, no position and no copy of one has a market that is not
\* listed in its group.
ListedInv ==
  /\ \A g \in Groups : constraints[g].markets \subseteq Listed(g)
  /\ LiveListed(live) /\ LiveListed(db.live) /\ LiveListed(disk.live)
  /\ \A p \in Names : OpenListed(open[p]) /\ OpenListed(db.open[p]) /\ OpenListed(disk.open[p])

ReachInv == KeptInv /\ MarketsInv /\ ListedInv /\ boots \in Nat

LEMMA InitReach == ASSUME Init PROVE ReachInv
<1>1. market \in [Outcomes -> {"unlisted", "open", "yes", "no"}]
  BY DEF Init, GroupsInit
<1>2. \A g \in Groups : ~Decided(g)
  BY DEF Init, GroupsInit, Decided, OutcomesOf
<1>3. \A g \in Groups : constraints[g].markets = {}
  BY DEF Init, GroupsInit, NoConstraint
<1>4. LiveListed(live) /\ LiveListed(EmptyDb.live)
  BY DEF Init, LiveListed, EmptyDb
<1>5. OpenListed(Empty)
  BY DEF OpenListed, Empty
<1>6. \A p \in Names : open[p] = Empty /\ EmptyDb.open[p] = Empty
  BY DEF Init, EmptyDb
<1>7. db = EmptyDb /\ disk = EmptyDb /\ boots \in Nat
  BY DEF Init
<1>8. ListedInv
  BY <1>3, <1>4, <1>5, <1>6, <1>7 DEF ListedInv
<1> QED BY <1>1, <1>2, <1>7, <1>8, InitKept DEF ReachInv, MarketsInv

LEMMA VenueMarkets ==
  ASSUME MarketsInv, Venue
  PROVE  MarketsInv' /\ \A g \in Groups : Listed(g) \subseteq Listed(g)'
<1>1. PICK o \in Outcomes : List(o) \/ Eliminate(o) \/ Decide(o)
  BY DEF Venue
<1>2. CASE List(o)
  <2>1. market' = [market EXCEPT ![o] = "open"] /\ market[o] = "unlisted" /\ ~Decided(GroupOf[o])
    BY <1>2 DEF List
  <2>2. market' \in [Outcomes -> {"unlisted", "open", "yes", "no"}]
    BY <2>1 DEF MarketsInv
  <2>3. ASSUME NEW g \in Groups, Decided(g)', NEW m \in OutcomesOf(g)
        PROVE  market'[m] # "open"
    <3>1. g # GroupOf[o] /\ Decided(g)
      BY <2>1, <2>3 DEF Decided, OutcomesOf, MarketsInv
    <3> QED BY <2>1, <2>3, <3>1 DEF OutcomesOf, MarketsInv
  <2>4. \A g \in Groups : Listed(g) \subseteq Listed(g)'
    BY <2>1 DEF Listed, OutcomesOf, MarketsInv
  <2> QED BY <2>2, <2>3, <2>4 DEF MarketsInv, OutcomesOf
<1>3. CASE Eliminate(o)
  <2>1. market' = [market EXCEPT ![o] = "no"]
    BY <1>3 DEF Eliminate
  <2>2. market' \in [Outcomes -> {"unlisted", "open", "yes", "no"}]
    BY <2>1 DEF MarketsInv
  <2>3. \A g \in Groups : Decided(g)' => Decided(g)
    BY <2>1 DEF Decided, OutcomesOf, MarketsInv
  <2>4. \A m \in Outcomes : market'[m] = "open" => market[m] = "open"
    BY <2>1 DEF MarketsInv
  <2>5. \A g \in Groups : Listed(g) \subseteq Listed(g)'
    BY <2>1 DEF Listed, OutcomesOf, MarketsInv
  <2> QED BY <2>2, <2>3, <2>4, <2>5 DEF MarketsInv, OutcomesOf
<1>4. CASE Decide(o)
  <2>1. market' = [m \in Outcomes |->
                     IF m = o THEN "yes"
                     ELSE IF GroupOf[m] = GroupOf[o] /\ market[m] = "open" THEN "no" ELSE market[m]]
    BY <1>4 DEF Decide
  <2>2. market' \in [Outcomes -> {"unlisted", "open", "yes", "no"}]
    BY <2>1 DEF MarketsInv
  <2>3. \A g \in Groups : Decided(g)' => Decided(g) \/ g = GroupOf[o]
    BY <2>1 DEF Decided, OutcomesOf
  <2>4. \A m \in Outcomes : market'[m] = "open" => market[m] = "open" /\ GroupOf[m] # GroupOf[o]
    BY <2>1
  <2>5. \A g \in Groups : Listed(g) \subseteq Listed(g)'
    BY <2>1 DEF Listed, OutcomesOf
  <2> QED BY <2>2, <2>3, <2>4, <2>5 DEF MarketsInv, OutcomesOf
<1> QED BY <1>1, <1>2, <1>3, <1>4

LEMMA VenueListed ==
  ASSUME ListedInv, \A g \in Groups : Listed(g) \subseteq Listed(g)',
         UNCHANGED <<constraints, live, db, disk, open>>
  PROVE  ListedInv'
BY DEF ListedInv, LiveListed, OpenListed

LEMMA SameMarkets ==
  ASSUME MarketsInv, UNCHANGED market
  PROVE  MarketsInv' /\ \A g : Listed(g)' = Listed(g)
BY DEF MarketsInv, Decided, OutcomesOf, Listed

LEMMA RescanListed ==
  ASSUME MarketsInv, ListedInv, Rescan, UNCHANGED <<live, db, disk, open>>
  PROVE  ListedInv'
<1>1. PICK seen \in Scans, bare \in Conversions, inBand \in SUBSET Groups :
         constraints' = Redetected(seen, bare, inBand)
  BY DEF Rescan
<1>2. market' = market
  BY DEF Rescan
<1>3. ASSUME NEW g \in Groups PROVE constraints'[g].markets \subseteq Listed(g)
  <2>1. constraints'[g] = Detected(g, seen, bare, inBand)
    BY <1>1 DEF Redetected
  <2>2. Detected(g, seen, bare, inBand).markets \subseteq seen \cap OutcomesOf(g)
    BY DEF Detected, NoConstraint
  <2>3. seen \cap OutcomesOf(g) \subseteq Listed(g)
    BY DEF Scans, OpenMarkets, Listed, OutcomesOf
  <2> QED BY <2>1, <2>2, <2>3
<1> QED BY <1>2, <1>3, SameMarkets DEF ListedInv, LiveListed, OpenListed

\* The positions shrink, in memory and in the database.
LEMMA ShrinkListed ==
  ASSUME Shape, MarketsInv, ListedInv, Shrinks(open, open'),
         \A p \in Names : db'.open[p] = db.open[p] \/ db'.open[p] = open'[p],
         db'.live = db.live, UNCHANGED <<groupVars, disk>>,
         NEW g \in Groups, live' = live \/ LiveCloses(g)
  PROVE  ListedInv'
<1>1. market' = market /\ constraints' = constraints
  BY DEF groupVars
<1>2. \A h : Listed(h)' = Listed(h)
  BY <1>1, SameMarkets
<1>3. \A h \in Groups : live'[h] \subseteq live[h]
  BY DEF LiveCloses, Shape
<1>4. \A p \in Names : OpenListed(open[p])'
  BY <1>2 DEF ListedInv, OpenListed, Shrinks
<1>5. \A p \in Names : OpenListed(db.open[p])'
  BY <1>2, <1>4 DEF ListedInv, OpenListed
<1> QED BY <1>1, <1>2, <1>3, <1>4, <1>5 DEF ListedInv, LiveListed, OpenListed

LEMMA ClosingListed ==
  ASSUME Shape, MarketsInv, ListedInv, NEW g \in Groups, Closing(g)
  PROVE  ListedInv'
<1>1. PICK profit : Close(g, profit)
  BY DEF Closing
<1>2. Shrinks(open, open') /\ db'.live = db.live /\ db'.open = db.open
  BY <1>1, CloseIs
<1>3. UNCHANGED <<groupVars, disk>> /\ (live' = live \/ LiveCloses(g))
  BY DEF Closing
<1> QED BY <1>2, <1>3, ShrinkListed

LEMMA RolledBackListed ==
  ASSUME Shape, MarketsInv, ListedInv, NEW g \in Groups, RolledBack(g)
  PROVE  ListedInv'
<1>1. RollbackEntry(g) /\ LiveCloses(g) /\ UNCHANGED <<groupVars, disk>>
  BY DEF RolledBack
<1>2. /\ Shrinks(open, open') /\ db'.live = db.live
      /\ \A p \in Names : db'.open[p] = db.open[p] \/ db'.open[p] = open'[p]
  BY <1>1, RollbackIs
<1> QED BY <1>1, <1>2, ShrinkListed

LEMMA DroppedListed ==
  ASSUME Shape, MarketsInv, ListedInv, NEW g \in Groups, LiveDropped(g)
  PROVE  ListedInv'
<1>1. LiveCloses(g) /\ UNCHANGED <<groupVars, disk, open, db>>
  BY DEF LiveDropped, portfolio, stored
<1>2. Shrinks(open, open')
  BY <1>1 DEF Shrinks, Shape
<1> QED BY <1>1, <1>2, ShrinkListed

LEMMA OpportunityListed ==
  ASSUME Shape, MarketsInv, ListedInv, NEW g \in Groups, NEW sell, NEW shadows, NEW lives,
         Opportunity(g, sell, shadows, lives)
  PROVE  ListedInv'
<1>1. /\ market' = market /\ constraints' = constraints /\ db' = db /\ disk' = disk
      /\ ShadowsEnter(g, sell) \/ UNCHANGED open
      /\ live' = IF lives THEN [live EXCEPT ![g] = constraints[g].markets] ELSE live
  BY DEF Opportunity, groupVars, portfolio, stored
<1>2. \A h : Listed(h)' = Listed(h)
  BY <1>1, SameMarkets
<1>3. constraints[g].markets \subseteq Listed(g)
  BY DEF ListedInv
<1>4. \A h \in Groups : live'[h] \subseteq Listed(h)
  BY <1>1, <1>3 DEF ListedInv, LiveListed, Shape
<1>5. \A p \in Names : \A h \in DOMAIN open'[p] :
        h \in Groups /\ open'[p][h].markets \subseteq Listed(h)
  <2>1. CASE UNCHANGED open
    BY <2>1 DEF ListedInv, OpenListed
  <2>2. CASE ShadowsEnter(g, sell)
    <3> SUFFICES ASSUME NEW p \in Names, NEW h \in DOMAIN open'[p]
                 PROVE  h \in Groups /\ open'[p][h].markets \subseteq Listed(h)
      OBVIOUS
    <3>1. OpenListed(open[p])
      BY DEF ListedInv
    <3>2. NewPosition(p, g, sell).markets = constraints[g].markets
      BY DEF NewPosition
    <3>3. \/ open'[p] = open[p]
          \/ /\ DOMAIN open'[p] = Held(p) \cup {g}
             /\ open'[p][g] = NewPosition(p, g, sell)
             /\ \A k \in Held(p) : open'[p][k] = open[p][k]
      BY <2>2, EnterIs
    <3> QED BY <1>3, <3>1, <3>2, <3>3 DEF OpenListed, Held
  <2> QED BY <1>1, <2>1, <2>2
<1> QED BY <1>1, <1>2, <1>4, <1>5 DEF ListedInv, LiveListed, OpenListed

LEMMA SavingListed ==
  ASSUME Shape, MarketsInv, ListedInv, Save \/ Write \/ Mirror
  PROVE  ListedInv'
<1>1. UNCHANGED <<market, constraints, live, open>>
  BY DEF Save, Write, Mirror, groupVars, portfolio
<1>2. \A h : Listed(h)' = Listed(h)
  BY <1>1, SameMarkets
<1>3. CASE Save
  <2>1. db'.open = db.open /\ db'.live = live /\ disk' = disk
    BY <1>3 DEF Save, Shape, DbShape, DbFields
  <2> QED BY <1>1, <1>2, <2>1 DEF ListedInv, LiveListed, OpenListed
<1>4. CASE Write
  <2> DEFINE q == Head(saving)[2]
  <2>1. db' = WithSummary(q) \/ db' = WithPositions(q)
    BY <1>4 DEF Write
  <2> HIDE DEF q
  <2>2. db'.live = db.live /\ \A p \in Names : db'.open[p] = db.open[p] \/ db'.open[p] = open[p]
    BY <2>1 DEF Shape, DbShape, DbFields, WithSummary, WithPositions
  <2>3. disk' = disk
    BY <1>4 DEF Write
  <2> QED BY <1>1, <1>2, <2>2, <2>3 DEF ListedInv, LiveListed, OpenListed
<1>5. CASE Mirror
  <2>1. disk' = db /\ db' = db
    BY <1>5 DEF Mirror
  <2> QED BY <1>1, <1>2, <2>1 DEF ListedInv, LiveListed, OpenListed
<1> QED BY <1>3, <1>4, <1>5

LEMMA RestartListed ==
  ASSUME MarketsInv, ListedInv, Restart
  PROVE  ListedInv'
<1>1. /\ market' = market /\ constraints' = constraints /\ disk' = disk
      /\ db' = disk /\ live' = disk.live /\ \A p \in Names : open'[p] = LoadedOpen(p)
  BY DEF Restart, FromCache, LoadOrNew
<1>2. \A h : Listed(h)' = Listed(h)
  BY <1>1, SameMarkets
<1>3. \A p \in Names : \A g \in DOMAIN LoadedOpen(p) :
        g \in DOMAIN disk.open[p] /\ LoadedOpen(p)[g] = disk.open[p][g]
  BY LoadedIs
<1> QED BY <1>1, <1>2, <1>3 DEF ListedInv, LiveListed, OpenListed

LEMMA AroundReach ==
  ASSUME MarketsInv, ListedInv, Around, UNCHANGED <<portfolio, live, stored, history>>
  PROVE  MarketsInv' /\ ListedInv'
<1>1. UNCHANGED <<live, db, disk, open>>
  BY DEF portfolio, stored
<1>2. CASE Venue
  <2>1. constraints' = constraints
    BY <1>2 DEF Venue, List, Eliminate, Decide
  <2> QED BY <1>1, <1>2, <2>1, VenueMarkets, VenueListed
<1>3. CASE Rescan
  BY <1>1, <1>3, RescanListed, SameMarkets DEF Rescan
<1> QED BY <1>2, <1>3 DEF Around

\* Only the venue changes the markets, and only a start the boots.
LEMMA OthersKeepMarkets ==
  ASSUME [Next]_vars, ~Around PROVE market' = market
BY DEF Next, vars, groupVars, Opportunity, LiveResolved, LiveAnnounced, ShadowResolved,
       LiveExited, LiveDropped, RolledBack, Save, Write, Mirror, Restart

LEMMA NextReach == ASSUME ReachInv, [Next]_vars PROVE ReachInv'
<1>1. KeptInv' /\ Shape
  BY NextKept DEF ReachInv, KeptInv
<1>2. boots' \in Nat
  <2>1. boots' = boots \/ boots' = boots + 1
    BY DEF Next, vars, history, Opportunity, LiveResolved, LiveAnnounced, ShadowResolved,
           LiveExited, LiveDropped, RolledBack, Save, Write, Mirror, Restart
  <2> QED BY <2>1 DEF ReachInv
<1>3. MarketsInv'
  <2>1. CASE market' = market
    BY <2>1, SameMarkets DEF ReachInv
  <2>2. CASE Around /\ UNCHANGED <<portfolio, live, stored, history>>
    BY <2>2, AroundReach DEF ReachInv
  <2> QED
    BY <2>1, <2>2 DEF Next, vars, groupVars, Opportunity, LiveResolved, LiveAnnounced,
       ShadowResolved, LiveExited, LiveDropped, RolledBack, Save, Write, Mirror, Restart
<1>4. ListedInv'
  <2>1. CASE UNCHANGED vars
    <3>1. UNCHANGED <<market, constraints, live, db, disk, open>>
      BY <2>1 DEF vars, groupVars, portfolio, stored
    <3> QED BY <3>1, SameMarkets DEF ReachInv, ListedInv, LiveListed, OpenListed
  <2>2. CASE Next
    BY <1>1, <2>2, AroundReach, OpportunityListed, Closings, ClosingListed, DroppedListed,
       RolledBackListed, SavingListed, RestartListed DEF ReachInv, Next
  <2> QED BY <2>1, <2>2
<1> QED BY <1>1, <1>2, <1>3, <1>4 DEF ReachInv

\* Whatever names markets, in memory or stored, names listed ones of its group.
THEOREM ReachInvariant == Spec => []ReachInv
BY InitReach, NextReach, PTL DEF Spec

LEMMA ListedSize ==
  ASSUME NEW g
  PROVE  IsFiniteSet(Listed(g)) /\ CurrentSize(g) = Cardinality(Listed(g)) /\ CurrentSize(g) \in Nat
<1>1. Listed(g) \subseteq Outcomes
  BY DEF Listed, OutcomesOf
<1>2. IsFiniteSet(Listed(g))
  BY <1>1, GroupsAssumption, FS_Subset
<1> QED BY <1>2, FS_CardinalityType DEF CurrentSize, Listed

\* A constraint that is exhaustive and fresh has every market of its group.
LEMMA FreshCovers ==
  ASSUME NEW g \in Groups, constraints[g].markets \subseteq Listed(g),
         constraints[g].markets # {}, Exhaustive(g), constraints[g].size = CurrentSize(g)
  PROVE  Listed(g) \subseteq constraints[g].markets
<1> DEFINE M == constraints[g].markets
<1>1. IsFiniteSet(Listed(g))
  BY ListedSize
<1>2. constraints[g].size = Cardinality(Listed(g))
  BY ListedSize
<1>3. Cardinality(Listed(g)) \in Nat /\ Cardinality(Listed(g)) # 0
  BY <1>1, FS_CardinalityType, FS_EmptySet
<1>4. Cardinality(M) >= Cardinality(Listed(g))
  BY <1>2, <1>3 DEF Exhaustive
<1>5. M = Listed(g)
  <2>1. M \in SUBSET Listed(g)
    OBVIOUS
  <2> HIDE DEF M
  <2>2. /\ IsFiniteSet(M) /\ Cardinality(M) <= Cardinality(Listed(g))
        /\ Cardinality(Listed(g)) = Cardinality(M) => Listed(g) = M
    BY <1>1, <2>1, FS_Subset
  <2>3. Cardinality(M) \in Nat
    BY <2>2, FS_CardinalityType
  <2> QED BY <1>3, <1>4, <2>2, <2>3
<1> QED BY <1>5

\* A live entry that was checked, with a filter that works and for a group
\* below the limit of a page, holds every market of its group that could still
\* win when the check was answered: for any scans, groups and limit.
THEOREM EntriesCover == Spec => LiveCovers
<1>1. ASSUME ReachInv, [Next]_vars
      PROVE  [\A g \in Groups :
                /\ boots' = boots /\ live[g] = {} /\ live'[g] # {}
                /\ Checks /\ FilterWorks /\ CurrentSize(g) < PageLimit
                => OutcomesOf(g) \cap OpenMarkets \subseteq live'[g]]_live
  <2> SUFFICES ASSUME NEW g \in Groups, boots' = boots, live[g] = {}, live'[g] # {},
                      Checks, FilterWorks, CurrentSize(g) < PageLimit
               PROVE  OutcomesOf(g) \cap OpenMarkets \subseteq live'[g]
    OBVIOUS
  <2>1. Shape /\ ListedInv /\ boots \in Nat
    BY <1>1 DEF ReachInv, KeptInv
  <2>2. ~Restart
    BY <2>1 DEF Restart
  <2>3. \A h \in Groups : ~LiveCloses(h)
    BY <2>1 DEF LiveCloses, Shape
  <2>4. live' # live
    OBVIOUS
  <2>5. PICK h \in Groups, sell, shadows, lives \in BOOLEAN : Opportunity(h, sell, shadows, lives)
    BY <1>1, <2>2, <2>3, <2>4, GroupsAssumption, TrackerAssumption
       DEF Next, vars, portfolio, LiveResolved, LiveAnnounced, ShadowResolved, LiveExited,
           LiveDropped, RolledBack, Save, Write, Mirror
  <2>6. lives /\ h = g /\ live'[g] = constraints[g].markets
    BY <2>1, <2>5 DEF Opportunity, Shape
  <2>7. Exhaustive(g) /\ constraints[g].size = CurrentSize(g)
    <3>1. Exhaustive(g) /\ Fresh(g)
      BY <2>5, <2>6 DEF Opportunity, Checked
    <3>2. CurrentSize(g) \in Nat /\ PageLimit \in Nat
      BY ListedSize, GroupsAssumption
    <3> QED BY <3>1, <3>2 DEF Fresh, FillsPage
  <2>8. Listed(g) \subseteq constraints[g].markets
    BY <2>1, <2>6, <2>7, FreshCovers DEF ListedInv
  <2> QED BY <2>6, <2>8 DEF Listed, OutcomesOf, OpenMarkets
<1> QED BY <1>1, ReachInvariant, PTL DEF Spec, LiveCovers

-----------------------------------------------------------------------------
(* The books of a portfolio.                                               *)

PositionType ==
  [id : 1..entries, size : MinSize..MaxSize, markets : SUBSET Outcomes, sell : BOOLEAN]

\* Positions, in memory or stored, that were entered with some market.
GoodOpen(f) ==
  /\ IsFiniteSet(DOMAIN f)
  /\ \A g \in DOMAIN f : g \in Groups /\ f[g] \in PositionType /\ f[g].markets # {}
GoodCash(c) == \A p \in DOMAIN c : c[p] \in Nat

CountersOK ==
  /\ entries \in 0..MaxEntries /\ saves \in 0..MaxSaves /\ boots \in 0..MaxBoots
  /\ mirroring \in BOOLEAN
  /\ saving \in Seq({"summary", "positions"} \X Names)

LivesOK ==
  /\ live \in [Groups -> SUBSET Outcomes]
  /\ db.live \in [Groups -> SUBSET Outcomes] /\ disk.live \in [Groups -> SUBSET Outcomes]

BooksOK ==
  /\ cash \in [Names -> Nat] /\ GoodCash(db.cash) /\ GoodCash(disk.cash)
  /\ \A p \in Names : GoodOpen(open[p]) /\ GoodOpen(db.open[p]) /\ GoodOpen(disk.open[p])
  /\ exposure \in [Names -> [Outcomes -> Nat]]
  /\ reversed \subseteq Names \X (1..entries)

BookInv == GroupsTypeOK /\ CountersOK /\ LivesOK /\ BooksOK /\ ExposureMatches

-----------------------------------------------------------------------------
(* Amounts.                                                                *)

LEMMA DivNat ==
  ASSUME NEW a \in Nat, NEW b \in Nat \ {0} PROVE a \div b \in Nat
OBVIOUS

LEMMA ProductNat == ASSUME NEW a \in Nat, NEW b \in Nat PROVE a * b \in Nat
OBVIOUS

\* Of a position with a market, the share of each is a number.
LEMMA ShareNat ==
  ASSUME NEW pos, pos.size \in Nat, pos.markets \subseteq Outcomes, pos.markets # {}
  PROVE  Share(pos) \in Nat
<1>1. Cardinality(pos.markets) \in Nat \ {0}
  BY GroupsAssumption, FS_Subset, FS_EmptySet, FS_CardinalityType
<1>2. pos.size * Parts \in Nat
  BY TrackerAssumption, ProductNat
<1> QED BY <1>1, <1>2, DivNat DEF Share

\* A part of at least -100 percent takes at most all.
LEMMA PartBounds ==
  ASSUME NEW size \in Nat, NEW pct \in Int, pct >= -100
  PROVE  Part(size, pct) \in Int /\ size + Part(size, pct) \in Nat
<1>1. size * pct \in Int /\ size * pct >= size * (-100)
  <2>1. size * (pct + 100) \in Nat
    BY ProductNat
  <2>2. size * (pct + 100) = size * pct + size * 100
    OBVIOUS
  <2> QED BY <2>1, <2>2
<1> DEFINE x == size * pct
<1>2. x \in Int /\ x >= -100 * size
  BY <1>1
<1> HIDE DEF x
<1>3. x \div 100 \in Int /\ x \div 100 >= -size
  BY <1>2
<1> QED BY <1>3 DEF Part, x

\* The size of a trade is a number that is not above the cap.
LEMMA TradeSizeIs ==
  ASSUME BooksOK, NEW p \in Names
  PROVE  TradeSize(p) \in Int /\ TradeSize(p) <= MaxSize
<1> DEFINE f == [g \in Held(p) |-> open[p][g].size]
<1>1. DOMAIN f = Held(p)
  OBVIOUS
<1>2. IsFiniteSet(Held(p)) /\ \A g \in Held(p) : f[g] \in Int
  BY TrackerAssumption DEF BooksOK, GoodOpen, Held, PositionType
<1>3. Deployed(p) = SumFunctionOnSet(f, Held(p))
  BY <1>1 DEF Deployed, SumFunction
<1> HIDE DEF f
<1>4. Deployed(p) \in Int
  BY <1>2, <1>3, SumType
<1>5. Value(p) * CapitalPct \in Int
  BY <1>4, TrackerAssumption DEF Value, BooksOK
<1>6. PICK a \in Int : a = (Value(p) * CapitalPct) \div 100
  BY <1>5
<1>7. MaxSize \in Int
  BY TrackerAssumption
<1>8. Min({a, MaxSize}) \in Int /\ Min({a, MaxSize}) <= MaxSize
  BY <1>7, MinOfTwo
<1> QED BY <1>6, <1>8 DEF TradeSize

-----------------------------------------------------------------------------
(* The exposure of a market.                                               *)

\* What the positions f put into market o.
Put(f, o) ==
  IF GroupOf[o] \in DOMAIN f /\ o \in f[GroupOf[o]].markets THEN Share(f[GroupOf[o]]) ELSE 0

\* The property, in these terms.
LEMMA MatchesIs == ExposureMatches <=> \A p \in Names, o \in Outcomes : exposure[p][o] = Put(open[p], o)
BY DEF ExposureMatches, Put, Held

\* A market is in the positions of its own group alone.
LEMMA OwnGroup ==
  ASSUME NEW f, OpenListed(f), NEW g \in DOMAIN f, NEW o \in f[g].markets
  PROVE  GroupOf[o] = g
BY DEF OpenListed, Listed, OutcomesOf

LEMMA PutSame ==
  ASSUME NEW f, NEW h, NEW o, GroupOf[o] \in DOMAIN f <=> GroupOf[o] \in DOMAIN h,
         GroupOf[o] \in DOMAIN f => h[GroupOf[o]] = f[GroupOf[o]]
  PROVE  Put(h, o) = Put(f, o)
BY DEF Put

\* Positions with a size and with markets.
Sized(f) ==
  \A g \in DOMAIN f : f[g].size \in Nat /\ f[g].markets \subseteq Outcomes /\ f[g].markets # {}

LEMMA GoodSized ==
  ASSUME NEW f PROVE GoodOpen(f) => Sized(f)
BY TrackerAssumption DEF GoodOpen, Sized, PositionType

LEMMA PutNat ==
  ASSUME NEW f, Sized(f), NEW o \in Outcomes PROVE Put(f, o) \in Nat
<1>1. CASE GroupOf[o] \in DOMAIN f
  BY <1>1, ShareNat DEF Put, Sized
<1>2. CASE GroupOf[o] \notin DOMAIN f
  BY <1>2 DEF Put
<1> QED BY <1>1, <1>2

\* Leaving g takes out of the exposure what entering it put in.
LEMMA ReleasedMatches ==
  ASSUME BooksOK, ExposureMatches, ListedInv, NEW g,
         open' = [p \in Names |-> Without(p, g)],
         exposure' = [p \in Names |-> IF p \in HoldersOf(g) THEN Released(p, g) ELSE exposure[p]]
  PROVE  exposure' \in [Names -> [Outcomes -> Nat]] /\ ExposureMatches'
<1>1. ASSUME NEW p \in Names, NEW o \in Outcomes
      PROVE  exposure'[p][o] = Put(open'[p], o) /\ exposure'[p][o] \in Nat
  <2>1. open'[p] = Without(p, g)
    OBVIOUS
  <2>2. /\ DOMAIN open'[p] = Held(p) \ {g}
        /\ \A h \in Held(p) \ {g} : open'[p][h] = open[p][h]
    BY <2>1, WithoutIs
  <2>3. exposure[p][o] = Put(open[p], o) /\ GoodOpen(open[p]) /\ OpenListed(open[p])
    BY MatchesIs DEF BooksOK, ListedInv
  <2>4. Put(open[p], o) \in Nat
    BY <2>3, GoodSized, PutNat
  <2>5. CASE p \notin HoldersOf(g)
    <3>1. DOMAIN open'[p] = DOMAIN open[p]
      BY <2>2, <2>5 DEF HoldersOf, Held
    <3>2. Put(open'[p], o) = Put(open[p], o)
      BY <2>2, <3>1, PutSame DEF Held
    <3> QED BY <2>3, <2>4, <2>5, <3>2
  <2>6. CASE p \in HoldersOf(g)
    <3>1. exposure'[p] = Released(p, g) /\ g \in DOMAIN open[p]
      BY <2>6 DEF HoldersOf, Held
    <3>2. CASE o \in open[p][g].markets
      <4>1. GroupOf[o] = g
        BY <2>3, <3>1, <3>2, OwnGroup
      <4>2. Put(open'[p], o) = 0 /\ Put(open[p], o) = Share(open[p][g])
        BY <2>2, <3>1, <3>2, <4>1 DEF Put
      <4>3. exposure'[p][o] = Max({exposure[p][o] - Share(open[p][g]), 0})
        BY <3>1, <3>2 DEF Released
      <4>4. exposure[p][o] - Share(open[p][g]) = 0
        BY <2>3, <2>4, <4>2
      <4>5. Max({0, 0}) = 0
        BY MaxOfTwo
      <4> QED BY <4>2, <4>3, <4>4, <4>5
    <3>3. CASE o \notin open[p][g].markets
      <4>1. exposure'[p][o] = exposure[p][o]
        BY <3>1, <3>3 DEF Released
      <4>2. CASE GroupOf[o] = g
        <5>1. Put(open'[p], o) = 0 /\ Put(open[p], o) = 0
          BY <2>2, <3>3, <4>2 DEF Put
        <5> QED BY <2>3, <4>1, <5>1
      <4>3. CASE GroupOf[o] # g
        <5>1. Put(open'[p], o) = Put(open[p], o)
          BY <2>2, <4>3, PutSame DEF Held
        <5> QED BY <2>3, <2>4, <4>1, <5>1
      <4> QED BY <4>2, <4>3
    <3> QED BY <3>2, <3>3
  <2> QED BY <2>5, <2>6
<1>2. exposure' \in [Names -> [Outcomes -> Nat]]
  <2>1. \A p \in Names : DOMAIN exposure'[p] = Outcomes
    BY DEF Released, BooksOK
  <2>2. \A p \in Names : exposure'[p] = [o \in Outcomes |-> exposure'[p][o]]
    BY DEF Released, BooksOK
  <2>3. \A p \in Names : exposure'[p] \in [Outcomes -> Nat]
    BY <1>1, <2>2
  <2> QED BY <2>3
<1>3. ExposureMatches'
  <2>1. \A p \in Names, o \in Outcomes : exposure'[p][o] = Put(open'[p], o)
    BY <1>1
  <2> QED BY <2>1 DEF ExposureMatches, Put, Held
<1> QED BY <1>2, <1>3

\* A restart adds the exposure up from the positions: each market has one at
\* most that counts.
LEMMA RebuiltIs ==
  ASSUME NEW f, GoodOpen(f), OpenListed(f), NEW o \in Outcomes
  PROVE  Rebuilt(f)[o] = Put(f, o)
<1> DEFINE h == [g \in DOMAIN f |-> IF o \in f[g].markets THEN Share(f[g]) ELSE 0]
<1>1. Rebuilt(f)[o] = SumFunctionOnSet(h, DOMAIN f)
  <2>1. DOMAIN h = DOMAIN f
    OBVIOUS
  <2> QED BY <2>1 DEF Rebuilt, SumFunction
<1>2. \A g \in DOMAIN f : h[g] = IF o \in f[g].markets THEN Share(f[g]) ELSE 0
  OBVIOUS
<1> HIDE DEF h
<1>3. IsFiniteSet(DOMAIN f)
  BY DEF GoodOpen
<1>4. \A g \in DOMAIN f : Share(f[g]) \in Nat
  <2> SUFFICES ASSUME NEW g \in DOMAIN f PROVE Share(f[g]) \in Nat
    OBVIOUS
  <2>1. f[g].size \in Nat /\ f[g].markets \subseteq Outcomes /\ f[g].markets # {}
    BY TrackerAssumption DEF GoodOpen, PositionType
  <2> QED BY <2>1, ShareNat
<1>5. \A g \in DOMAIN f : h[g] \in Int
  BY <1>2, <1>4
<1>6. \A g \in DOMAIN f : g # GroupOf[o] => h[g] = 0
  BY <1>2, OwnGroup
<1>7. CASE GroupOf[o] \in DOMAIN f
  <2>1. SumFunctionOnSet(h, DOMAIN f) = h[GroupOf[o]]
    BY <1>3, <1>5, <1>6, <1>7, SumSingle
  <2> QED BY <1>1, <1>2, <1>7, <2>1 DEF Put
<1>8. CASE GroupOf[o] \notin DOMAIN f
  <2>1. SumFunctionOnSet(h, DOMAIN f) = 0
    BY <1>3, <1>6, <1>8, SumZero
  <2> QED BY <1>1, <1>8, <2>1 DEF Put
<1> QED BY <1>7, <1>8

\* A constraint that passes the guard of the evaluation has markets.
LEMMA ExhaustiveHas ==
  ASSUME GroupsTypeOK, NEW g \in Groups, Exhaustive(g)
  PROVE  constraints[g].markets # {}
<1> SUFFICES ASSUME constraints[g].markets = {} PROVE FALSE
  OBVIOUS
<1>1. constraints[g] \in [markets : SUBSET Outcomes, size : Nat]
  BY DEF GroupsTypeOK
<1>2. constraints[g].size = 0
  BY <1>1, FS_EmptySet DEF Exhaustive
<1>3. constraints[g] = [markets |-> {}, size |-> 0]
  BY <1>1, <1>2
<1> QED BY <1>3 DEF Exhaustive, NoConstraint

\* What is entered is a good position, and is paid for.
LEMMA EnteredIs ==
  ASSUME BookInv, NEW g \in Groups, NEW sell \in BOOLEAN, Exhaustive(g), entries < MaxEntries,
         entries' = entries + 1, NEW p \in Accepting(g)
  PROVE  /\ NewPosition(p, g, sell) \in PositionType'
         /\ NewPosition(p, g, sell).markets = constraints[g].markets
         /\ cash[p] - TradeSize(p) \in Nat
<1>1. p \in Names /\ TradeSize(p) >= MinSize /\ TradeSize(p) <= cash[p]
  BY DEF Accepting, PassesGates
<1>2. TradeSize(p) \in MinSize..MaxSize /\ TradeSize(p) \in Nat /\ cash[p] \in Nat
  BY <1>1, TradeSizeIs, TrackerAssumption DEF BookInv, BooksOK
<1>3. entries + 1 \in 1..(entries + 1) /\ constraints[g].markets \subseteq Outcomes
  BY DEF BookInv, CountersOK, GroupsTypeOK
<1>4. NewPosition(p, g, sell) \in PositionType'
  BY <1>2, <1>3 DEF NewPosition, PositionType
<1> QED BY <1>1, <1>2, <1>4 DEF NewPosition

LEMMA TypeGrows ==
  ASSUME entries \in Nat, entries' \in Nat, entries <= entries', NEW f, GoodOpen(f)
  PROVE  GoodOpen(f)'
BY DEF GoodOpen, PositionType

LEMMA EnterBooks ==
  ASSUME BookInv, Shape, ListedInv, NEW g \in Groups, NEW sell \in BOOLEAN, Exhaustive(g),
         entries < MaxEntries, entries' = entries + 1, ShadowsEnter(g, sell)
  PROVE  /\ cash' \in [Names -> Nat] /\ \A p \in Names : GoodOpen(open[p])'
         /\ exposure' \in [Names -> [Outcomes -> Nat]] /\ ExposureMatches'
<1>1. \A p \in Accepting(g) :
        /\ NewPosition(p, g, sell) \in PositionType'
        /\ NewPosition(p, g, sell).markets = constraints[g].markets
        /\ cash[p] - TradeSize(p) \in Nat
  BY EnteredIs
<1>2. cash' \in [Names -> Nat]
  BY <1>1 DEF ShadowsEnter, BookInv, BooksOK
<1>3. \A p \in Names : p \notin Accepting(g) => open'[p] = open[p]
  BY DEF ShadowsEnter
<1>4. ASSUME NEW p \in Accepting(g)
      PROVE  /\ DOMAIN open'[p] = Held(p) \cup {g} /\ g \notin Held(p)
             /\ open'[p][g] = NewPosition(p, g, sell)
             /\ \A h \in Held(p) : open'[p][h] = open[p][h]
  <2>1. PICK pos : pos = NewPosition(p, g, sell)
    OBVIOUS
  <2>2. p \in Names /\ g \notin Held(p)
    BY DEF Accepting, PassesGates
  <2>3. open'[p] = With(p, g, pos)
    BY <2>1, <2>2 DEF ShadowsEnter
  <2>4. With(p, g, pos) = [k \in Held(p) \cup {g} |-> IF k \in {g} THEN pos ELSE open[p][k]]
    BY DEF With, Updated, Held
  <2> QED BY <2>1, <2>2, <2>3, <2>4
<1>5. ASSUME NEW p \in Names PROVE GoodOpen(open[p])' /\ Sized(open'[p])
  <2>1. GoodOpen(open[p])
    BY DEF BookInv, BooksOK
  <2>2. entries \in Nat /\ entries' \in Nat /\ entries <= entries'
    BY DEF BookInv, CountersOK
  <2>3. CASE p \notin Accepting(g)
    <3>1. open'[p] = open[p]
      BY <1>3, <2>3
    <3>2. GoodOpen(open[p])'
      BY <2>1, <2>2, <3>1, TypeGrows DEF GoodOpen
    <3> QED BY <2>1, <3>1, <3>2, GoodSized
  <2>4. CASE p \in Accepting(g)
    <3>1. IsFiniteSet(DOMAIN open'[p])
      BY <1>4, <2>1, <2>4, FS_AddElement DEF GoodOpen, Held
    <3>2. open'[p][g] \in PositionType' /\ open'[p][g].markets # {}
      BY <1>1, <1>4, <2>4, ExhaustiveHas DEF BookInv
    <3>3. \A h \in Held(p) : h \in Groups /\ open'[p][h] \in PositionType' /\ open'[p][h].markets # {}
      BY <1>4, <2>1, <2>2, <2>4 DEF GoodOpen, Held, PositionType
    <3>4. GoodOpen(open[p])'
      BY <1>4, <2>4, <3>1, <3>2, <3>3 DEF GoodOpen
    <3>5. Sized(open'[p])
      BY <3>4, TrackerAssumption DEF GoodOpen, Sized, PositionType
    <3> QED BY <3>4, <3>5
  <2> QED BY <2>3, <2>4
<1>6. ASSUME NEW p \in Names, NEW o \in Outcomes
      PROVE  exposure'[p][o] = Put(open'[p], o)
  <2>1. exposure[p][o] = Put(open[p], o)
    BY MatchesIs DEF BookInv
  <2>2. CASE p \notin Accepting(g)
    <3>1. exposure'[p][o] = exposure[p][o]
      BY <2>2 DEF ShadowsEnter
    <3> QED BY <1>3, <2>1, <2>2, <3>1
  <2>3. CASE p \in Accepting(g) /\ o \in constraints[g].markets
    <3>1. GroupOf[o] = g
      BY <2>3 DEF ListedInv, Listed, OutcomesOf
    <3>2. exposure[p][o] = 0
      BY <1>4, <2>1, <2>3, <3>1 DEF Put, Held
    <3>3. exposure'[p][o] = exposure[p][o] + Share(NewPosition(p, g, sell))
      BY <2>3 DEF ShadowsEnter
    <3>4. Put(open'[p], o) = Share(NewPosition(p, g, sell))
      BY <1>1, <1>4, <2>3, <3>1 DEF Put
    <3>5. Put(open'[p], o) \in Nat
      BY <1>5, PutNat
    <3> QED BY <3>2, <3>3, <3>4, <3>5
  <2>4. CASE p \in Accepting(g) /\ o \notin constraints[g].markets
    <3>1. exposure'[p][o] = exposure[p][o]
      BY <2>4 DEF ShadowsEnter
    <3>2. CASE GroupOf[o] = g
      <4>1. Put(open[p], o) = 0 /\ Put(open'[p], o) = 0
        BY <1>1, <1>4, <2>4, <3>2 DEF Put, Held
      <4> QED BY <2>1, <3>1, <4>1
    <3>3. CASE GroupOf[o] # g
      <4>1. Put(open'[p], o) = Put(open[p], o)
        BY <1>4, <2>4, <3>3, PutSame DEF Held
      <4> QED BY <2>1, <3>1, <4>1
    <3> QED BY <3>2, <3>3
  <2> QED BY <2>2, <2>3, <2>4
<1>7. exposure' \in [Names -> [Outcomes -> Nat]]
  <2>1. exposure' = [p \in Names |-> [o \in Outcomes |-> exposure'[p][o]]]
    BY DEF ShadowsEnter
  <2>2. \A p \in Names, o \in Outcomes : exposure'[p][o] \in Nat
    BY <1>5, <1>6, PutNat
  <2> QED BY <2>1, <2>2
<1>8. ExposureMatches'
  BY <1>6 DEF ExposureMatches, Put, Held
<1> QED BY <1>2, <1>5, <1>7, <1>8

-----------------------------------------------------------------------------
(* Every step keeps the books.                                             *)

LEMMA ShrinksGood ==
  ASSUME NEW f, NEW h, GoodOpen(f), DOMAIN h \subseteq DOMAIN f, \A g \in DOMAIN h : h[g] = f[g]
  PROVE  GoodOpen(h)
<1>1. IsFiniteSet(DOMAIN h)
  BY FS_Subset DEF GoodOpen
<1> QED BY <1>1 DEF GoodOpen

\* What a closed position pays is at least nothing.
Paying(g, profit) ==
  \A p \in HoldersOf(g) : profit[p] \in Int /\ open[p][g].size + profit[p] \in Nat

LEMMA HolderSize ==
  ASSUME BooksOK, NEW g, NEW p \in HoldersOf(g) PROVE p \in Names /\ open[p][g].size \in Nat
<1>1. p \in Names /\ g \in DOMAIN open[p] /\ GoodOpen(open[p])
  BY DEF HoldersOf, Held, BooksOK
<1> QED BY <1>1, GoodSized DEF Sized

LEMMA ResolvePays ==
  ASSUME BooksOK, NEW g, NEW winner, Resolve(g, winner)
  PROVE  \E profit : Close(g, profit) /\ Paying(g, profit)
<1> DEFINE f == [p \in HoldersOf(g) |-> Payoff(open[p][g], winner)]
<1>1. Close(g, f)
  BY DEF Resolve
<1>2. ASSUME NEW p \in HoldersOf(g) PROVE f[p] \in Int /\ open[p][g].size + f[p] \in Nat
  <2>1. open[p][g].size \in Nat
    BY HolderSize
  <2>2. ProfitPct \in Int /\ ProfitPct >= -100
    BY TrackerAssumption
  <2>3. /\ Part(open[p][g].size, ProfitPct) \in Int
        /\ open[p][g].size + Part(open[p][g].size, ProfitPct) \in Nat
    BY <2>1, <2>2, PartBounds
  <2>4. -(open[p][g].size) \in Int /\ open[p][g].size + -(open[p][g].size) = 0
    BY <2>1
  <2> QED BY <2>3, <2>4 DEF Payoff
<1> HIDE DEF f
<1> QED BY <1>1, <1>2 DEF Paying

LEMMA ClosingPays ==
  ASSUME BooksOK, NEW g \in Groups,
         \/ LiveResolved(g) \/ LiveAnnounced(g) \/ ShadowResolved(g)
         \/ \E pct \in ExitPcts : LiveExited(g, pct)
  PROVE  \E profit : Close(g, profit) /\ Paying(g, profit)
<1>1. CASE LiveResolved(g) \/ LiveAnnounced(g) \/ ShadowResolved(g)
  <2>1. \E winner : Resolve(g, winner)
    BY <1>1 DEF LiveResolved, LiveAnnounced, ShadowResolved
  <2> QED BY <2>1, ResolvePays
<1>2. ASSUME NEW pct \in ExitPcts, LiveExited(g, pct)
      PROVE  \E profit : Close(g, profit) /\ Paying(g, profit)
  <2> DEFINE f == [p \in HoldersOf(g) |-> Part(open[p][g].size, pct)]
  <2>1. Close(g, f)
    BY <1>2 DEF LiveExited
  <2>2. pct \in Int /\ pct >= -100
    BY TrackerAssumption
  <2>3. \A p \in HoldersOf(g) : f[p] \in Int /\ open[p][g].size + f[p] \in Nat
    BY <2>2, HolderSize, PartBounds
  <2> HIDE DEF f
  <2> QED BY <2>1, <2>3 DEF Paying
<1> QED BY <1>1, <1>2

LEMMA CloseBooks ==
  ASSUME BookInv, Shape, ListedInv, NEW g, NEW profit, Close(g, profit), Paying(g, profit),
         UNCHANGED <<disk, reversed, entries>>
  PROVE  BooksOK' /\ ExposureMatches' /\ db'.live = db.live
<1>1. Shrinks(open, open') /\ db'.live = db.live /\ db'.open = db.open
  BY CloseIs
<1>2. db'.cash = db.cash
  BY DEF Close, Booked, Shape, DbShape, DbFields
<1>3. cash' \in [Names -> Nat]
  <2>1. cash' = [p \in Names |->
          IF p \in HoldersOf(g) THEN cash[p] + open[p][g].size + profit[p] ELSE cash[p]]
    BY DEF Close
  <2>2. ASSUME NEW p \in HoldersOf(g)
        PROVE  cash[p] + open[p][g].size + profit[p] \in Nat
    <3>1. p \in Names /\ open[p][g].size \in Nat /\ cash[p] \in Nat
      BY HolderSize DEF BookInv, BooksOK
    <3>2. profit[p] \in Int /\ open[p][g].size + profit[p] \in Nat
      BY DEF Paying
    <3> QED BY <3>1, <3>2
  <2>3. \A p \in Names : cash[p] \in Nat
    BY DEF BookInv, BooksOK
  <2> QED BY <2>1, <2>2, <2>3
<1>4. exposure' \in [Names -> [Outcomes -> Nat]] /\ ExposureMatches'
  BY ReleasedMatches DEF Close, BookInv
<1>5. \A p \in Names : GoodOpen(open'[p])
  BY <1>1, ShrinksGood DEF Shrinks, BookInv, BooksOK
<1> QED BY <1>1, <1>2, <1>3, <1>4, <1>5 DEF BookInv, BooksOK, GoodOpen, GoodCash, PositionType

LEMMA RollbackBooks ==
  ASSUME BookInv, Shape, ListedInv, NEW g, RollbackEntry(g), UNCHANGED <<disk, entries>>
  PROVE  BooksOK' /\ ExposureMatches' /\ db'.live = db.live
<1>1. /\ Shrinks(open, open') /\ db'.live = db.live
      /\ \A p \in Names : db'.open[p] = db.open[p] \/ db'.open[p] = open'[p]
  BY RollbackIs
<1>2. ASSUME NEW p \in HoldersOf(g)
      PROVE  p \in Names /\ Refund(p, g) \in Nat /\ <<p, open[p][g].id>> \in Names \X (1..entries)
  <2>1. p \in Names /\ g \in DOMAIN open[p] /\ GoodOpen(open[p]) /\ cash[p] \in Nat
    BY DEF HoldersOf, Held, BookInv, BooksOK
  <2>2. open[p][g].size \in Nat /\ open[p][g].id \in 1..entries
    BY <2>1, TrackerAssumption DEF GoodOpen, PositionType
  <2> QED BY <2>1, <2>2 DEF Refund
<1>3. cash' \in [Names -> Nat]
  BY <1>2 DEF RollbackEntry, BookInv, BooksOK
<1>4. GoodCash(db'.cash)
  <2>1. db'.cash = Updated(db.cash, HoldersOf(g), cash')
    BY DEF RollbackEntry, Shape, DbShape, DbFields
  <2>2. GoodCash(db.cash) /\ HoldersOf(g) \subseteq Names
    BY DEF BookInv, BooksOK, HoldersOf
  <2> QED BY <1>3, <2>1, <2>2 DEF GoodCash, Updated
<1>5. exposure' \in [Names -> [Outcomes -> Nat]] /\ ExposureMatches'
  BY ReleasedMatches DEF RollbackEntry, BookInv
<1>6. \A p \in Names : GoodOpen(open'[p]) /\ GoodOpen(db'.open[p])
  BY <1>1, ShrinksGood DEF Shrinks, BookInv, BooksOK
<1>7. reversed' \subseteq Names \X (1..entries)
  <2>1. reversed' = reversed \cup {<<p, open[p][g].id>> : p \in HoldersOf(g)}
    BY DEF RollbackEntry
  <2> QED BY <1>2, <2>1 DEF BookInv, BooksOK
<1> QED BY <1>1, <1>3, <1>4, <1>5, <1>6, <1>7 DEF BookInv, BooksOK, GoodOpen, GoodCash, PositionType

LEMMA RestartBooks ==
  ASSUME BookInv, ListedInv, Restart
  PROVE  BooksOK' /\ ExposureMatches'
<1>1. /\ db' = disk /\ disk' = disk /\ entries' = entries /\ reversed' = reversed
      /\ cash' = [p \in Names |-> LoadedCash(p)]
      /\ open' = [p \in Names |-> LoadedOpen(p)]
      /\ exposure' = [p \in Names |-> Rebuilt(LoadedOpen(p))]
  BY DEF Restart, LoadOrNew
<1>2. cash' \in [Names -> Nat]
  <2>1. \A p \in Names : LoadedCash(p) \in Nat
    BY TrackerAssumption DEF LoadedCash, BookInv, BooksOK, GoodCash
  <2> QED BY <1>1, <2>1
<1>3. \A p \in Names : GoodOpen(LoadedOpen(p)) /\ OpenListed(LoadedOpen(p)) /\ Sized(LoadedOpen(p))
  <2>1. ASSUME NEW p \in Names PROVE GoodOpen(LoadedOpen(p)) /\ OpenListed(LoadedOpen(p))
    <3>1. GoodOpen(disk.open[p]) /\ OpenListed(disk.open[p])
      BY DEF BookInv, BooksOK, ListedInv
    <3>2. IsFiniteSet(DOMAIN LoadedOpen(p))
      BY <3>1, LoadedIs, FS_Subset DEF GoodOpen
    <3> QED BY <3>1, <3>2, LoadedIs DEF GoodOpen, OpenListed
  <2> QED BY <2>1, GoodSized
<1>4. \A p \in Names, o \in Outcomes :
        exposure'[p][o] = Put(LoadedOpen(p), o) /\ exposure'[p][o] \in Nat
  BY <1>1, <1>3, RebuiltIs, PutNat
<1>5. exposure' \in [Names -> [Outcomes -> Nat]]
  <2>1. \A p \in Names : Rebuilt(LoadedOpen(p)) = [o \in Outcomes |-> Rebuilt(LoadedOpen(p))[o]]
    BY DEF Rebuilt
  <2>2. \A p \in Names : Rebuilt(LoadedOpen(p)) \in [Outcomes -> Nat]
    BY <1>1, <1>4, <2>1
  <2> QED BY <1>1, <2>2
<1>6. ExposureMatches'
  <2>1. \A p \in Names, o \in Outcomes : exposure'[p][o] = Put(open'[p], o)
    BY <1>1, <1>4
  <2> QED BY <2>1 DEF ExposureMatches, Put, Held
<1>7. \A p \in Names : GoodOpen(open'[p])
  BY <1>1, <1>3
<1> QED BY <1>1, <1>2, <1>5, <1>6, <1>7 DEF BookInv, BooksOK, GoodOpen, GoodCash, PositionType

LEMMA SavingBooks ==
  ASSUME BookInv, Shape, Save \/ Write \/ Mirror
  PROVE  BooksOK' /\ ExposureMatches' /\ LivesOK'
<1>1. /\ UNCHANGED <<cash, open, exposure, live, entries, reversed>>
      /\ \A p \in Names : GoodOpen(open[p]) /\ GoodOpen(db.open[p]) /\ GoodOpen(disk.open[p])
      /\ cash \in [Names -> Nat] /\ GoodCash(db.cash) /\ GoodCash(disk.cash)
  BY DEF Save, Write, Mirror, portfolio, history, BookInv, BooksOK
<1>2. GoodCash(db'.cash) /\ (\A p \in Names : GoodOpen(db'.open[p]))
      /\ (db'.live = db.live \/ db'.live = live)
  <2>1. CASE Save
    BY <1>1, <2>1 DEF Save, Shape, DbShape, DbFields
  <2>2. CASE Mirror
    BY <1>1, <2>2 DEF Mirror
  <2>3. CASE Write
    <3> DEFINE q == Head(saving)[2]
    <3>1. db' = WithSummary(q) \/ db' = WithPositions(q)
      BY <2>3 DEF Write
    <3>2. q \in Names
      BY <2>3 DEF Write, Idle, BookInv, CountersOK
    <3> HIDE DEF q
    <3>3. \A p \in Names : db'.open[p] = db.open[p] \/ db'.open[p] = open[p]
      BY <3>1 DEF Shape, DbShape, DbFields, WithSummary, WithPositions
    <3>4. db'.cash = db.cash \/ db'.cash = Updated(db.cash, {q}, cash)
      BY <3>1 DEF Shape, DbShape, DbFields, WithSummary, WithPositions
    <3>5. cash[q] \in Nat
      BY <1>1, <3>2
    <3>6. GoodCash(db'.cash)
      BY <1>1, <3>4, <3>5 DEF GoodCash, Updated
    <3>7. db'.live = db.live
      BY <3>1 DEF Shape, DbShape, DbFields, WithSummary, WithPositions
    <3> QED BY <1>1, <3>3, <3>6, <3>7
  <2> QED BY <2>1, <2>2, <2>3
<1>3. /\ GoodCash(disk'.cash) /\ \A p \in Names : GoodOpen(disk'.open[p])
      /\ disk'.live = disk.live \/ disk'.live = db.live
  <2>1. disk' = disk \/ disk' = db
    BY DEF Save, Write, Mirror
  <2> QED BY <1>1, <2>1
<1>4. ExposureMatches'
  BY <1>1 DEF ExposureMatches, Held, BookInv
<1>5. BooksOK'
  BY <1>1, <1>2, <1>3 DEF BookInv, BooksOK, GoodOpen, GoodCash, PositionType
<1>6. LivesOK'
  BY <1>1, <1>2, <1>3 DEF BookInv, LivesOK
<1> QED BY <1>4, <1>5, <1>6

\* The portfolios and what is stored of them stay as they are.
LEMMA SameBooks ==
  ASSUME BookInv, UNCHANGED <<cash, open, exposure, db, disk, reversed>>,
         entries' \in Nat, entries <= entries'
  PROVE  BooksOK' /\ ExposureMatches'
<1>1. entries \in Nat
  BY DEF BookInv, CountersOK
<1>2. \A p \in Names :
        GoodOpen(open[p])' /\ GoodOpen(db.open[p])' /\ GoodOpen(disk.open[p])'
  BY <1>1, TypeGrows DEF BookInv, BooksOK, GoodOpen
<1>3. reversed' \subseteq Names \X (1..entries')
  BY <1>1 DEF BookInv, BooksOK
<1> QED BY <1>2, <1>3 DEF BookInv, BooksOK, GoodCash, ExposureMatches, Held

LEMMA OpportunityBooks ==
  ASSUME BookInv, Shape, ListedInv, NEW g \in Groups, NEW sell \in BOOLEAN,
         NEW shadows \in BOOLEAN, NEW lives \in BOOLEAN, Opportunity(g, sell, shadows, lives)
  PROVE  BooksOK' /\ ExposureMatches' /\ LivesOK'
<1>1. /\ entries' = entries + 1 /\ entries < MaxEntries /\ Exhaustive(g)
      /\ UNCHANGED <<db, disk, reversed>> /\ entries \in Nat
      /\ live' = IF lives THEN [live EXCEPT ![g] = constraints[g].markets] ELSE live
  BY DEF Opportunity, stored, BookInv, CountersOK
<1>2. LivesOK'
  <2>1. constraints[g].markets \subseteq Outcomes
    BY DEF BookInv, GroupsTypeOK
  <2> QED BY <1>1, <2>1 DEF BookInv, LivesOK
<1>3. CASE UNCHANGED portfolio
  <2>1. UNCHANGED <<cash, open, exposure>>
    BY <1>3 DEF portfolio
  <2> QED BY <1>1, <1>2, <2>1, SameBooks
<1>4. CASE ShadowsEnter(g, sell)
  <2>1. /\ cash' \in [Names -> Nat] /\ \A p \in Names : GoodOpen(open[p])'
        /\ exposure' \in [Names -> [Outcomes -> Nat]] /\ ExposureMatches'
    BY <1>1, <1>4, EnterBooks
  <2>2. \A p \in Names : GoodOpen(db.open[p])' /\ GoodOpen(disk.open[p])'
    <3>1. db' = db /\ disk' = disk /\ entries' \in Nat /\ entries <= entries'
      BY <1>1
    <3>2. \A p \in Names : GoodOpen(db.open[p]) /\ GoodOpen(disk.open[p])
      BY DEF BookInv, BooksOK
    <3> QED BY <1>1, <3>1, <3>2, TypeGrows DEF GoodOpen
  <2>3. reversed' \subseteq Names \X (1..entries')
    BY <1>1 DEF BookInv, BooksOK
  <2> QED BY <1>1, <1>2, <2>1, <2>2, <2>3 DEF BookInv, BooksOK, GoodCash
<1> QED BY <1>3, <1>4 DEF Opportunity

\* The writes of a save.
LEMMA WritesType == Writes \in Seq({"summary", "positions"} \X Names)
<1> DEFINE W == {"summary", "positions"} \X Names
           each == [i \in DOMAIN Portfolios |->
                     <<<<"summary", Portfolios[i]>>, <<"positions", Portfolios[i]>>>>]
<1>1. Portfolios \in Seq(Names)
  BY GatesAssumption
<1>2. \A i \in DOMAIN Portfolios :
        <<<<"summary", Portfolios[i]>>, <<"positions", Portfolios[i]>>>> \in Seq(W)
  BY <1>1
<1>3. each \in Seq(Seq(W))
  <2>1. DOMAIN Portfolios = 1..Len(Portfolios) /\ Len(Portfolios) \in Nat
    BY <1>1
  <2> HIDE DEF W
  <2> QED BY <1>2, <2>1
<1> HIDE DEF W, each
<1>4. FlattenSeq(each) \in Seq(W)
  BY <1>3, FlattenMembers
<1> QED BY <1>4 DEF Writes, each, W

LEMMA CountersKept == ASSUME CountersOK, [Next]_vars PROVE CountersOK'
<1>1. CASE UNCHANGED vars
  BY <1>1 DEF CountersOK, vars, stored, history
<1>2. CASE Around /\ UNCHANGED <<portfolio, live, stored, history>>
  BY <1>2 DEF CountersOK, stored, history
<1>3. ASSUME NEW g \in Groups, NEW sell, NEW shadows, NEW lives,
             Opportunity(g, sell, shadows, lives)
      PROVE  CountersOK'
  <2>1. entries' = entries + 1 /\ entries < MaxEntries
        /\ UNCHANGED <<saving, mirroring, boots, saves>>
    BY <1>3 DEF Opportunity, stored
  <2> QED BY <2>1, TrackerAssumption DEF CountersOK
<1>4. ASSUME NEW g \in Groups, Closing(g) \/ LiveDropped(g) \/ RolledBack(g)
      PROVE  CountersOK'
  BY <1>4 DEF Closing, LiveDropped, RolledBack, CountersOK, stored, history
<1>5. CASE Save
  <2>1. /\ saving' = Writes /\ mirroring' = mirroring /\ UNCHANGED <<entries, boots>>
        /\ saves < MaxSaves /\ saves' = saves + 1
    BY <1>5 DEF Save
  <2>2. saves' \in 0..MaxSaves
    BY <2>1, TrackerAssumption DEF CountersOK
  <2> QED BY <2>1, <2>2, WritesType DEF CountersOK
<1>6. CASE Write
  <2>1. saving # <<>> /\ saving' = Tail(saving) /\ mirroring' \in BOOLEAN /\ UNCHANGED history
    BY <1>6 DEF Write, Idle, CountersOK
  <2> QED BY <2>1 DEF CountersOK, history
<1>7. CASE Mirror
  BY <1>7 DEF Mirror, CountersOK, history
<1>8. CASE Restart
  <2>1. /\ boots < MaxBoots /\ boots' = boots + 1 /\ UNCHANGED <<entries, saves>>
        /\ saving' = <<>> /\ mirroring' = FALSE
    BY <1>8 DEF Restart
  <2>2. boots' \in 0..MaxBoots
    BY <2>1, TrackerAssumption DEF CountersOK
  <2>3. saving' \in Seq({"summary", "positions"} \X Names)
    BY <2>1
  <2> QED BY <2>1, <2>2, <2>3 DEF CountersOK
<1> QED BY <1>1, <1>2, <1>3, <1>4, <1>5, <1>6, <1>7, <1>8, Closings DEF Next

LEMMA GroupsKept == ASSUME GroupsTypeOK, MarketsInv', [Next]_vars PROVE GroupsTypeOK'
<1>1. market' \in [Outcomes -> {"unlisted", "open", "yes", "no"}]
  BY DEF MarketsInv
<1>2. CASE Rescan
  <2>1. PICK seen \in Scans, bare \in Conversions, inBand \in SUBSET Groups :
           constraints' = Redetected(seen, bare, inBand)
    BY <1>2 DEF Rescan
  <2>2. ASSUME NEW g \in Groups
        PROVE  Detected(g, seen, bare, inBand) \in [markets : SUBSET Outcomes, size : Nat]
    <3>1. seen \cap OutcomesOf(g) \subseteq Outcomes
      BY DEF OutcomesOf
    <3>2. Cardinality(seen \cap OutcomesOf(g)) \in Nat
      BY <3>1, GroupsAssumption, FS_Subset, FS_CardinalityType
    <3> QED BY <3>1, <3>2 DEF Detected, NoConstraint
  <2> QED BY <1>1, <2>1, <2>2 DEF Redetected, GroupsTypeOK
<1>3. CASE constraints' = constraints
  BY <1>1, <1>3 DEF GroupsTypeOK
<1>4. Rescan \/ constraints' = constraints
  BY DEF Next, vars, groupVars, Around, Venue, List, Eliminate, Decide, Opportunity, LiveResolved,
     LiveAnnounced, ShadowResolved, LiveExited, LiveDropped, RolledBack, Save, Write, Mirror,
     Restart, FromCache
<1> QED BY <1>2, <1>3, <1>4

LEMMA InitBooks == ASSUME Init PROVE BookInv
<1>1. GroupsTypeOK
  BY DEF Init, GroupsInit, GroupsTypeOK, NoConstraint
<1>2. CountersOK
  <2>1. entries = 0 /\ boots = 0 /\ saves = 0 /\ mirroring = FALSE /\ saving = <<>>
    BY DEF Init
  <2>2. saving \in Seq({"summary", "positions"} \X Names)
    BY <2>1
  <2>3. mirroring \in BOOLEAN
    BY <2>1
  <2>4. MaxEntries \in Nat /\ MaxSaves \in Nat /\ MaxBoots \in Nat
    BY TrackerAssumption
  <2>5. entries \in 0..MaxEntries /\ saves \in 0..MaxSaves /\ boots \in 0..MaxBoots
    BY <2>1, <2>4
  <2> QED BY <2>2, <2>3, <2>5 DEF CountersOK
<1>3. /\ db = EmptyDb /\ disk = EmptyDb /\ \A p \in Names : open[p] = Empty
      /\ DOMAIN Empty = {} /\ \A p \in Names : EmptyDb.open[p] = Empty
      /\ EmptyDb.cash = Empty /\ EmptyDb.live = [g \in Groups |-> {}]
  BY DEF Init, Empty, EmptyDb
<1>4. LivesOK
  BY <1>3 DEF Init, LivesOK
<1>5. GoodOpen(Empty) /\ GoodCash(Empty)
  BY <1>3, FS_EmptySet DEF GoodOpen, GoodCash
<1>6. BooksOK
  BY <1>3, <1>5, TrackerAssumption DEF Init, BooksOK
<1>7. ExposureMatches
  BY <1>3, GroupsAssumption DEF Init, ExposureMatches, Held
<1> QED BY <1>1, <1>2, <1>4, <1>6, <1>7 DEF BookInv

LEMMA NextBooks ==
  ASSUME BookInv, Shape, ListedInv, MarketsInv', [Next]_vars
  PROVE  BookInv'
<1>1. GroupsTypeOK' /\ CountersOK'
  BY GroupsKept, CountersKept DEF BookInv
<1>2. entries \in Nat /\ entries' \in Nat
  BY <1>1 DEF CountersOK, BookInv
<1>3. CASE UNCHANGED vars
  <2>1. UNCHANGED <<cash, open, exposure, live, db, disk, reversed, entries>>
    BY <1>3 DEF vars, portfolio, stored, history
  <2> QED BY <1>1, <1>2, <2>1, SameBooks DEF BookInv, LivesOK
<1>4. CASE Around /\ UNCHANGED <<portfolio, live, stored, history>>
  <2>1. UNCHANGED <<cash, open, exposure, live, db, disk, reversed, entries>>
    BY <1>4 DEF portfolio, stored, history
  <2> QED BY <1>1, <1>2, <2>1, SameBooks DEF BookInv, LivesOK
<1>5. ASSUME NEW g \in Groups, NEW sell \in Sides, NEW shadows \in BOOLEAN,
             NEW lives \in BOOLEAN, Opportunity(g, sell, shadows, lives)
      PROVE  BookInv'
  <2>1. sell \in BOOLEAN
    BY TrackerAssumption
  <2> QED BY <1>1, <1>5, <2>1, OpportunityBooks DEF BookInv
<1>6. ASSUME NEW g \in Groups,
             \/ LiveResolved(g) \/ LiveAnnounced(g) \/ ShadowResolved(g)
             \/ \E pct \in ExitPcts : LiveExited(g, pct)
      PROVE  BookInv'
  <2>1. PICK profit : Close(g, profit) /\ Paying(g, profit)
    BY <1>6, ClosingPays DEF BookInv
  <2>2. UNCHANGED <<disk, reversed, entries>> /\ (live' = live \/ LiveCloses(g))
    BY <1>6 DEF LiveResolved, LiveAnnounced, ShadowResolved, LiveExited, history
  <2>3. BooksOK' /\ ExposureMatches' /\ db'.live = db.live
    BY <2>1, <2>2, CloseBooks
  <2>4. LivesOK'
    BY <2>2, <2>3 DEF LivesOK, BookInv, LiveCloses
  <2> QED BY <1>1, <2>3, <2>4 DEF BookInv
<1>7. ASSUME NEW g \in Groups, LiveDropped(g) PROVE BookInv'
  <2>1. UNCHANGED <<cash, open, exposure, db, disk, reversed, entries>> /\ LiveCloses(g)
    BY <1>7 DEF LiveDropped, portfolio, stored, history
  <2>2. LivesOK'
    BY <2>1 DEF LivesOK, BookInv, LiveCloses
  <2> QED BY <1>1, <1>2, <2>1, <2>2, SameBooks DEF BookInv
<1>8. ASSUME NEW g \in Groups, RolledBack(g) PROVE BookInv'
  <2>1. RollbackEntry(g) /\ UNCHANGED <<disk, entries>> /\ LiveCloses(g)
    BY <1>8 DEF RolledBack
  <2>2. BooksOK' /\ ExposureMatches' /\ db'.live = db.live
    BY <2>1, RollbackBooks
  <2>3. LivesOK'
    BY <2>1, <2>2 DEF LivesOK, BookInv, LiveCloses
  <2> QED BY <1>1, <2>2, <2>3 DEF BookInv
<1>9. CASE Save \/ Write \/ Mirror
  BY <1>1, <1>9, SavingBooks DEF BookInv
<1>10. CASE Restart
  <2>1. LivesOK'
    BY <1>10 DEF Restart, LivesOK, BookInv
  <2> QED BY <1>1, <1>10, <2>1, RestartBooks DEF BookInv
<1> QED BY <1>3, <1>4, <1>5, <1>6, <1>7, <1>8, <1>9, <1>10 DEF Next

\* The books of every portfolio add up, also those that are stored.
THEOREM BookInvariant == Spec => []BookInv
<1>1. ASSUME ReachInv, ReachInv', BookInv, [Next]_vars PROVE BookInv'
  BY <1>1, NextBooks DEF ReachInv, KeptInv
<1> QED BY <1>1, InitBooks, ReachInvariant, PTL DEF Spec

\* The exposure of a market is what the open positions of the portfolio put
\* into it, through every way a position closes and through a restart.
THEOREM ExposureKept == Spec => []ExposureMatches
<1>1. BookInv => ExposureMatches
  BY DEF BookInv
<1> QED BY <1>1, BookInvariant, PTL

\* Cash and exposures are never negative, and no position is outside the
\* bounds of a trade.
THEOREM TrackerTyped == Spec => []TypeOK
<1>1. ASSUME BookInv, ReachInv PROVE TypeOK
  <2>1. ASSUME NEW p \in Names PROVE Held(p) \subseteq Groups /\ PositionsOf(p) \subseteq PositionType
    BY <1>1 DEF BookInv, BooksOK, GoodOpen, Held, PositionsOf
  <2>2. DOMAIN open = Names
    BY <1>1 DEF ReachInv, KeptInv, Shape
  <2> QED BY <1>1, <2>1, <2>2 DEF BookInv, BooksOK, CountersOK, LivesOK, PositionType, TypeOK
<1> QED BY <1>1, BookInvariant, ReachInvariant, PTL
=============================================================================
