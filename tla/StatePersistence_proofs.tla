----------------------- MODULE StatePersistence_proofs -----------------------
(***************************************************************************)
(* Theorems about StatePersistence, for any set of positions, any capital, *)
(* any unreadable rows and any number of starts.                           *)
(***************************************************************************)
EXTENDS StatePersistence, FiniteSetTheorems, TLAPS

-----------------------------------------------------------------------------
(* What holds of every state, tainted or not.                              *)

EngineType ==
  [cash: Nat, open: SUBSET Pids, closed: Seq(Pids), ledger: Int,
   rolledBack: SUBSET Pids]

Distinct(s) == \A i, j \in 1..Len(s) : s[i] = s[j] => i = j

\* A position is open or closed, never both, and closed once.
GoodEngine(e) ==
  /\ e \in EngineType
  /\ IsFiniteSet(e.open)
  /\ Distinct(e.closed) /\ e.open \cap ToSet(e.closed) = {}
  /\ e.open \subseteq used /\ ToSet(e.closed) \subseteq used

GoodImage(d) ==
  /\ d \in ImageType
  /\ IsFiniteSet(d.open) /\ IsFiniteSet(d.closed)
  /\ d.open \cap d.closed = {}
  /\ d.open \subseteq used /\ d.closed \subseteq used

Control ==
  /\ pc \in {"idle", "snapshot", "guard", "stale", "closed", "ledger", "mirror",
             "stopped"}
  /\ mirror \in {"idle", "started", "copied"}
  /\ fed \in {"none", "cut", "late"}
  /\ stopping \in BOOLEAN /\ torn \in BOOLEAN
  /\ tainted \in BOOLEAN /\ failed \in BOOLEAN
  /\ used \subseteq Pids /\ redeemed \subseteq Pids /\ boots \in 1..MaxBoots

Shape ==
  /\ GoodEngine(live) /\ GoodEngine(snap)
  /\ GoodImage(db) /\ GoodImage(disk)
  /\ Control

-----------------------------------------------------------------------------
(* What holds as long as no restart loaded a torn file or lost a row.      *)

FirstOf(s, k) == {s[i] : i \in 1..k}

IsStartOf(s, t) == Len(s) <= Len(t) /\ \A i \in 1..Len(s) : s[i] = t[i]

\* The rows of closed positions are the oldest ones.
OldestStored(d, e) == \E k \in 0..Len(e.closed) : d.closed = FirstOf(e.closed, k)

\* Whatever is stored as open is known to the engine.
OpenKnown(d, e) == d.open \subseteq e.open \cup (ToSet(e.closed) \cup e.rolledBack)

\* As Conserved, of the engine.
Balanced(e) ==
  /\ e.cash + Cardinality(e.open) = Start + Len(e.closed)
  /\ e.ledger = e.cash - 2 * Cardinality(ToSet(e.closed) \cap redeemed)

LiveInv ==
  /\ Balanced(live) /\ redeemed \subseteq ToSet(live.closed)
  /\ OldestStored(db, live) /\ OpenKnown(db, live)
  /\ disk.closed \subseteq ToSet(live.closed)

\* The feed may have closed positions since the snapshot.
SnapInv ==
  /\ Balanced(snap) /\ IsStartOf(snap.closed, live.closed)
  /\ snap.open \subseteq live.open \cup ToSet(live.closed)
  /\ snap.ledger = live.ledger
  /\ OldestStored(db, snap) /\ OpenKnown(db, snap)
  /\ fed # "cut" => db.cash = snap.cash
  /\ fed = "none" => live = snap
  /\ pc \in {"closed", "ledger", "mirror"} => db.open = snap.open
  /\ pc \in {"ledger", "mirror"} => db.closed = ToSet(snap.closed)
  /\ pc = "mirror" => db.ledger = snap.ledger

Saving == {"guard", "stale", "closed", "ledger", "mirror"}

SaveInv ==
  /\ pc = "snapshot" /\ fed # "cut" => db.cash = live.cash
  /\ pc \in Saving => SnapInv
  /\ pc \in {"idle", "mirror", "stopped"} /\ fed # "cut" => Conserved(db)
  /\ ~torn => Conserved(disk)

ShutdownInv ==
  /\ pc = "stopped" => stopping
  /\ stopping /\ pc \notin {"idle", "stopped"} => mirror = "idle"
  /\ pc = "stopped" /\ fed = "none" =>
        db = Image(live) /\ (mirror = "started" \/ failed \/ disk = db)

IInv == Shape /\ (~tainted => LiveInv /\ SaveInv /\ ShutdownInv)

-----------------------------------------------------------------------------
(* Sequences of positions.                                                 *)

LEMMA AllOfIt ==
  ASSUME NEW s \in Seq(Pids)
  PROVE  ToSet(s) = FirstOf(s, Len(s)) /\ ToSet(s) \subseteq Pids
BY DEF ToSet, FirstOf

LEMMA CountFirst ==
  ASSUME NEW s \in Seq(Pids), Distinct(s), NEW k \in 0..Len(s)
  PROVE  IsFiniteSet(FirstOf(s, k)) /\ Cardinality(FirstOf(s, k)) = k
<1> DEFINE f == [i \in 1..k |-> s[i]]
<1>1. k \in Nat
  OBVIOUS
<1>2. f \in [1..k -> FirstOf(s, k)]
  BY DEF FirstOf
<1>3. \A i, j \in 1..k : f[i] = f[j] => i = j
  BY DEF Distinct
<1>4. \A x \in FirstOf(s, k) : \E i \in 1..k : f[i] = x
  BY DEF FirstOf
<1>5. f \in Bijection(1..k, FirstOf(s, k))
  <2>1. IsInjective(f)
    BY <1>3 DEF IsInjective
  <2> HIDE DEF f
  <2> QED BY <1>2, <1>4, <2>1 DEF Bijection, Injection, Surjection
<1>6. ExistsBijection(1..k, FirstOf(s, k))
  BY <1>5 DEF ExistsBijection
<1> QED BY <1>1, <1>6, FS_NatBijection, FS_CountingElements

LEMMA CountAll ==
  ASSUME NEW s \in Seq(Pids), Distinct(s)
  PROVE  IsFiniteSet(ToSet(s)) /\ Cardinality(ToSet(s)) = Len(s)
BY AllOfIt, CountFirst

LEMMA AppendNew ==
  ASSUME NEW s \in Seq(Pids), NEW p \in Pids
  PROVE  /\ Append(s, p) \in Seq(Pids) /\ Len(Append(s, p)) = Len(s) + 1
         /\ IsStartOf(s, Append(s, p))
         /\ ToSet(Append(s, p)) = ToSet(s) \cup {p}
         /\ Distinct(s) /\ p \notin ToSet(s) => Distinct(Append(s, p))
<1> DEFINE t == Append(s, p)
<1>1. t \in Seq(Pids) /\ Len(t) = Len(s) + 1 /\ t[Len(s) + 1] = p
      /\ \A i \in 1..Len(s) : t[i] = s[i]
  OBVIOUS
<1> HIDE DEF t
<1>2. IsStartOf(s, t)
  BY <1>1 DEF IsStartOf
<1>3. ToSet(t) = ToSet(s) \cup {p}
  <2>1. 1..Len(t) = 1..Len(s) \cup {Len(s) + 1} /\ Len(s) \in Nat
    BY <1>1
  <2>2. DOMAIN t = 1..Len(t) /\ DOMAIN s = 1..Len(s)
    BY <1>1
  <2> QED BY <1>1, <2>1, <2>2 DEF ToSet
<1>4. ASSUME Distinct(s), p \notin ToSet(s)
      PROVE  Distinct(t)
  <2>1. \A i \in 1..Len(s) : s[i] # p
    BY <1>4 DEF ToSet
  <2>2. Len(s) \in Nat
    OBVIOUS
  <2> QED BY <1>1, <1>4, <2>1, <2>2 DEF Distinct
<1> QED BY <1>1, <1>2, <1>3, <1>4 DEF t

\* What a sequence and the longer one start with.
LEMMA StartFirst ==
  ASSUME NEW s \in Seq(Pids), NEW t \in Seq(Pids), IsStartOf(s, t), NEW k \in 0..Len(s)
  PROVE  k \in 0..Len(t) /\ FirstOf(s, k) = FirstOf(t, k)
BY DEF IsStartOf, FirstOf

LEMMA StartContained ==
  ASSUME NEW s \in Seq(Pids), NEW t \in Seq(Pids), IsStartOf(s, t)
  PROVE  ToSet(s) \subseteq ToSet(t)
BY DEF IsStartOf, ToSet

LEMMA StartTransitive ==
  ASSUME NEW s \in Seq(Pids), NEW t \in Seq(Pids), NEW u \in Seq(Pids),
         IsStartOf(s, t), IsStartOf(t, u)
  PROVE  IsStartOf(s, u)
BY DEF IsStartOf

LEMMA StartOfItself ==
  ASSUME NEW s \in Seq(Pids)
  PROVE  IsStartOf(s, s)
BY DEF IsStartOf

\* Any order in which a restart gets the closed positions.
LEMMA SomeOrder ==
  ASSUME NEW S \in SUBSET Pids, IsFiniteSet(S), NEW s \in SetToSeqs(S)
  PROVE  s \in Seq(Pids) /\ Distinct(s) /\ ToSet(s) = S /\ Len(s) = Cardinality(S)
<1> DEFINE n == Cardinality(S)
<1>1. n \in Nat
  BY FS_CardinalityType
<1>2. s \in [1..n -> S] /\ \A i, j \in 1..n : i # j => s[i] # s[j]
  BY DEF SetToSeqs
<1>3. s \in Seq(Pids) /\ Len(s) = n
  BY <1>1, <1>2
<1>4. Distinct(s)
  BY <1>2, <1>3 DEF Distinct
<1>5. ToSet(s) \subseteq S
  BY <1>2, <1>3 DEF ToSet
<1>6. Cardinality(ToSet(s)) = Cardinality(S)
  BY <1>3, <1>4, CountAll
<1>7. ToSet(s) = S
  BY <1>5, <1>6, FS_Subset
<1> QED BY <1>3, <1>4, <1>7

-----------------------------------------------------------------------------
(* What the steps do to the engine and to the images, field by field.      *)

LEMMA EnterFields ==
  ASSUME NEW p \in Pids, Shape, Enter(p)
  PROVE  /\ live' \in EngineType
         /\ live'.cash = live.cash - 1 /\ live'.ledger = live.ledger - 1
         /\ live'.open = live.open \cup {p} /\ live'.closed = live.closed
         /\ live'.rolledBack = live.rolledBack
<1>1. live \in EngineType /\ live.cash > 0
  BY DEF Shape, GoodEngine, Enter
<1>2. live' = [cash |-> live.cash - 1, open |-> live.open \cup {p}, closed |-> live.closed,
              ledger |-> live.ledger - 1, rolledBack |-> live.rolledBack]
  BY <1>1 DEF Enter, EngineType
<1>3. live' \in EngineType
  BY <1>1, <1>2 DEF EngineType
<1> QED BY <1>2, <1>3

LEMMA SellFields ==
  ASSUME NEW p \in Pids, Shape, Sell(p)
  PROVE  /\ live' \in EngineType
         /\ live'.cash = live.cash + 2 /\ live'.ledger = live.ledger + 2
         /\ live'.open = live.open \ {p} /\ live'.closed = Append(live.closed, p)
         /\ live'.rolledBack = live.rolledBack
<1>1. live \in EngineType
  BY DEF Shape, GoodEngine
<1>2. live' = [cash |-> live.cash + 2, open |-> live.open \ {p}, closed |-> Append(live.closed, p),
              ledger |-> live.ledger + 2, rolledBack |-> live.rolledBack]
  BY <1>1 DEF Sell, EngineType
<1>3. live' \in EngineType
  BY <1>1, <1>2, AppendNew DEF EngineType
<1> QED BY <1>2, <1>3

LEMMA RedeemFields ==
  ASSUME NEW p \in Pids, Shape, Redeem(p)
  PROVE  /\ live' \in EngineType
         /\ live'.cash = live.cash + 2 /\ live'.ledger = live.ledger
         /\ live'.open = live.open \ {p} /\ live'.closed = Append(live.closed, p)
         /\ live'.rolledBack = live.rolledBack
<1>1. live \in EngineType
  BY DEF Shape, GoodEngine
<1>2. live' = [cash |-> live.cash + 2, open |-> live.open \ {p}, closed |-> Append(live.closed, p),
              ledger |-> live.ledger, rolledBack |-> live.rolledBack]
  BY <1>1 DEF Redeem, EngineType
<1>3. live' \in EngineType
  BY <1>1, <1>2, AppendNew DEF EngineType
<1> QED BY <1>2, <1>3

LEMMA RollBackFields ==
  ASSUME NEW p \in Pids, Shape, RollBack(p)
  PROVE  /\ live' \in EngineType
         /\ live'.cash = live.cash + 1 /\ live'.ledger = live.ledger + 1
         /\ live'.open = live.open \ {p} /\ live'.closed = live.closed
         /\ live'.rolledBack = live.rolledBack \cup {p}
<1>1. live \in EngineType
  BY DEF Shape, GoodEngine
<1>2. live' = [cash |-> live.cash + 1, open |-> live.open \ {p}, closed |-> live.closed,
              ledger |-> live.ledger + 1, rolledBack |-> live.rolledBack \cup {p}]
  BY <1>1 DEF RollBack, EngineType
<1>3. live' \in EngineType
  BY <1>1, <1>2 DEF EngineType
<1> QED BY <1>2, <1>3

\* A step that changes one field of the database.
LEMMA DbFields ==
  ASSUME Shape
  PROVE  /\ SaveScalars => /\ db' \in ImageType /\ db'.cash = live.cash
                           /\ db'.open = db.open /\ db'.closed = db.closed
                           /\ db'.ledger = db.ledger
         /\ DeleteStale => /\ db' \in ImageType /\ db'.cash = db.cash
                           /\ db'.open \subseteq db.open /\ db'.closed = db.closed
                           /\ db'.ledger = db.ledger
         /\ SaveOpen    => /\ db' \in ImageType /\ db'.cash = db.cash
                           /\ db'.open = db.open \cup snap.open
                           /\ db'.closed = db.closed \ snap.open
                           /\ db'.ledger = db.ledger
         /\ SaveLedger  => /\ db' \in ImageType /\ db'.cash = db.cash
                           /\ db'.open = db.open /\ db'.closed = db.closed
                           /\ db'.ledger = live.ledger
<1>1. live \in EngineType /\ snap \in EngineType /\ db \in ImageType
  BY DEF Shape, GoodEngine, GoodImage
<1>2. SaveScalars => /\ db' \in ImageType /\ db'.cash = live.cash
                     /\ db'.open = db.open /\ db'.closed = db.closed
                     /\ db'.ledger = db.ledger
  BY <1>1 DEF SaveScalars, WithScalars, EngineType, ImageType
<1>3. DeleteStale => /\ db' \in ImageType /\ db'.cash = db.cash
                     /\ db'.open \subseteq db.open /\ db'.closed = db.closed
                     /\ db'.ledger = db.ledger
  BY <1>1 DEF DeleteStale, WithoutPosition, ImageType
<1>4. SaveOpen => /\ db' \in ImageType /\ db'.cash = db.cash
                  /\ db'.open = db.open \cup snap.open
                  /\ db'.closed = db.closed \ snap.open
                  /\ db'.ledger = db.ledger
  BY <1>1 DEF SaveOpen, EngineType, ImageType
<1>5. SaveLedger => /\ db' \in ImageType /\ db'.cash = db.cash
                    /\ db'.open = db.open /\ db'.closed = db.closed
                    /\ db'.ledger = live.ledger
  BY <1>1 DEF SaveLedger, WithCheckpoint, EngineType, ImageType
<1> QED BY <1>2, <1>3, <1>4, <1>5

LEMMA SaveClosedFields ==
  ASSUME Shape, SaveClosed
  PROVE  /\ db' \in ImageType /\ db'.cash = db.cash /\ db'.ledger = db.ledger
         /\ db'.closed = db.closed \cup Unsaved(snap, db)
         /\ db'.open = db.open \ Unsaved(snap, db)
         /\ Unsaved(snap, db) \subseteq ToSet(snap.closed)
<1>1. snap \in EngineType /\ db \in ImageType /\ IsFiniteSet(db.closed)
  BY DEF Shape, GoodEngine, GoodImage
<1>2. Cardinality(db.closed) \in Nat
  BY <1>1, FS_CardinalityType
<1>3. snap.closed \in Seq(Pids)
  BY <1>1 DEF EngineType
<1>4. Unsaved(snap, db) \subseteq ToSet(snap.closed)
  BY <1>2, <1>3 DEF Unsaved, ToSet
<1>5. Unsaved(snap, db) \subseteq Pids
  BY <1>3, <1>4, AllOfIt
<1> QED BY <1>1, <1>4, <1>5 DEF SaveClosed, ImageType

\* What a restart makes of the file.
LEMMA BootFields ==
  ASSUME Shape, Boot
  PROVE  /\ live' \in EngineType /\ snap' = live' /\ db' = disk
         /\ live'.cash = disk.cash /\ live'.ledger = disk.ledger
         /\ live'.open = Readable(disk.open) /\ live'.rolledBack = {}
         /\ ToSet(live'.closed) = Readable(disk.closed) /\ Distinct(live'.closed)
         /\ Len(live'.closed) = Cardinality(Readable(disk.closed))
<1>1. disk \in ImageType /\ IsFiniteSet(disk.closed)
  BY DEF Shape, GoodImage
<1>2. PICK order \in SetToSeqs(Readable(disk.closed)) : live' = Loaded(disk, order)
  BY DEF Boot, FromDisk
<1>3. Readable(disk.closed) \in SUBSET Pids /\ IsFiniteSet(Readable(disk.closed))
  BY <1>1, FS_Difference DEF Readable, ImageType
<1>4. /\ order \in Seq(Pids) /\ Distinct(order)
      /\ ToSet(order) = Readable(disk.closed)
      /\ Len(order) = Cardinality(Readable(disk.closed))
  BY <1>3, SomeOrder
<1>5. Readable(disk.open) \subseteq Pids
  BY <1>1 DEF Readable, ImageType
<1>6. live' \in EngineType
  BY <1>1, <1>2, <1>4, <1>5 DEF Loaded, EngineType, ImageType
<1> QED BY <1>2, <1>4, <1>6 DEF Loaded, Boot, FromDisk

-----------------------------------------------------------------------------
(* The shape of a state.                                                   *)

LEMMA InitShape == Init => Shape
<1> SUFFICES ASSUME Init PROVE Shape
  OBVIOUS
<1>1. Start \in Nat /\ MaxBoots \in Nat \ {0}
  BY StateAssumption
<1>2. live = [cash |-> Start, open |-> {}, closed |-> <<>>, ledger |-> Start,
              rolledBack |-> {}]
  BY DEF Init, Loaded, Fresh, Readable
<1>3. live \in EngineType
  BY <1>1, <1>2 DEF EngineType
<1>4. ToSet(<<>>) = {} /\ Distinct(<<>>) /\ IsFiniteSet({})
  BY FS_EmptySet DEF ToSet, Distinct
<1>5. GoodEngine(live)
  BY <1>2, <1>3, <1>4 DEF GoodEngine
<1>6. GoodImage(Fresh)
  BY <1>1, <1>4 DEF GoodImage, Fresh, ImageType
<1>7. Control
  <2>1. boots \in 1..MaxBoots
    BY <1>1 DEF Init
  <2>2. stopping \in BOOLEAN /\ torn \in BOOLEAN /\ tainted \in BOOLEAN /\ failed \in BOOLEAN
    BY Zenon DEF Init
  <2> QED BY <2>1, <2>2 DEF Control, Init
<1> QED BY <1>5, <1>6, <1>7 DEF Shape, Init

\* What a step leaves alone stays well-formed.
LEMMA UntouchedShape ==
  ASSUME Shape, used \subseteq used'
  PROVE  /\ live' = live => GoodEngine(live)'
         /\ snap' = snap => GoodEngine(snap)'
         /\ snap' = live => GoodEngine(snap)'
         /\ db' = db => GoodImage(db)'
         /\ disk' = disk => GoodImage(disk)'
         /\ disk' = db => GoodImage(disk)'
         /\ db' = disk => GoodImage(db)'
BY DEF Shape, GoodEngine, GoodImage

LEMMA EnterShape ==
  ASSUME NEW p \in Pids, Shape, Enter(p)
  PROVE  Shape'
<1>1. used \subseteq used' /\ p \in used' /\ p \notin used
  BY DEF Enter
<1>2. GoodEngine(live)'
  <2>1. IsFiniteSet(live'.open)
    BY EnterFields, FS_AddElement DEF Shape, GoodEngine
  <2> QED BY <1>1, <2>1, EnterFields DEF Shape, GoodEngine
<1>3. Control'
  BY DEF Shape, Control, Enter
<1> QED BY <1>1, <1>2, <1>3, UntouchedShape DEF Shape, Enter, stores

\* A position closes: what selling and redeeming have in common.
LEMMA ClosingGood ==
  ASSUME NEW p \in Pids, Shape, used' = used, p \in live.open,
         live' \in EngineType, live'.open = live.open \ {p},
         live'.closed = Append(live.closed, p)
  PROVE  /\ GoodEngine(live)' /\ p \notin ToSet(live.closed)
         /\ Len(live'.closed) = Len(live.closed) + 1
         /\ IsStartOf(live.closed, live'.closed)
         /\ ToSet(live'.closed) = ToSet(live.closed) \cup {p}
         /\ Cardinality(live'.open) = Cardinality(live.open) - 1
<1>1. /\ IsFiniteSet(live.open) /\ live.closed \in Seq(Pids) /\ Distinct(live.closed)
      /\ live.open \cap ToSet(live.closed) = {}
      /\ live.open \subseteq used /\ ToSet(live.closed) \subseteq used
  BY DEF Shape, GoodEngine, EngineType
<1>2. p \notin ToSet(live.closed) /\ p \in used
  BY <1>1
<1>3. /\ Len(live'.closed) = Len(live.closed) + 1
      /\ IsStartOf(live.closed, live'.closed)
      /\ ToSet(live'.closed) = ToSet(live.closed) \cup {p}
      /\ Distinct(live'.closed)
  BY <1>1, <1>2, AppendNew
<1>4. IsFiniteSet(live'.open) /\ Cardinality(live'.open) = Cardinality(live.open) - 1
  BY <1>1, FS_RemoveElement
<1>5. GoodEngine(live)'
  BY <1>1, <1>2, <1>3, <1>4 DEF GoodEngine
<1> QED BY <1>2, <1>3, <1>4, <1>5

LEMMA SellShape ==
  ASSUME NEW p \in Pids, Shape, Sell(p)
  PROVE  Shape'
<1>1. used' = used /\ p \in live.open
  BY DEF Sell, history
<1>2. GoodEngine(live)'
  BY <1>1, SellFields, ClosingGood
<1>3. Control'
  BY DEF Shape, Control, Sell, history
<1> QED BY <1>1, <1>2, <1>3, UntouchedShape DEF Shape, Sell, stores

LEMMA RedeemShape ==
  ASSUME NEW p \in Pids, Shape, Redeem(p), fed' \in {"none", "cut", "late"}
  PROVE  Shape'
<1>1. used' = used /\ p \in live.open
  BY DEF Redeem
<1>2. GoodEngine(live)'
  BY <1>1, RedeemFields, ClosingGood
<1>3. Control'
  BY DEF Shape, Control, Redeem
<1> QED BY <1>1, <1>2, <1>3, UntouchedShape DEF Shape, Redeem, stores

LEMMA RollBackShape ==
  ASSUME NEW p \in Pids, Shape, RollBack(p)
  PROVE  Shape' /\ Cardinality(live'.open) = Cardinality(live.open) - 1
<1>1. used' = used /\ p \in live.open
  BY DEF RollBack, history
<1>2. IsFiniteSet(live'.open) /\ Cardinality(live'.open) = Cardinality(live.open) - 1
  <2>1. IsFiniteSet(live.open) /\ live'.open = live.open \ {p}
    BY RollBackFields DEF Shape, GoodEngine
  <2> QED BY <1>1, <2>1, FS_RemoveElement
<1>3. GoodEngine(live)'
  BY <1>1, <1>2, RollBackFields DEF Shape, GoodEngine
<1>4. Control'
  BY DEF Shape, Control, RollBack, history
<1> QED BY <1>1, <1>2, <1>3, <1>4, UntouchedShape DEF Shape, RollBack, stores

\* A step of a save that writes the database.
LEMMA WriteShape ==
  ASSUME Shape, SaveScalars \/ DeleteStale \/ SaveOpen \/ SaveClosed \/ SaveLedger
  PROVE  Shape'
<1>1. live' = live /\ snap' = snap /\ disk' = disk /\ used' = used
  BY DEF SaveScalars, DeleteStale, SaveOpen, SaveClosed, SaveLedger, history
<1>2. Control'
  BY DEF Shape, Control, SaveScalars, DeleteStale, SaveOpen, SaveClosed, SaveLedger,
         Begins, history
<1>3. GoodImage(db)'
  <2>1. /\ IsFiniteSet(db.open) /\ IsFiniteSet(db.closed) /\ db.open \cap db.closed = {}
        /\ db.open \subseteq used /\ db.closed \subseteq used
        /\ IsFiniteSet(snap.open) /\ snap.open \subseteq used
        /\ snap.closed \in Seq(Pids) /\ Distinct(snap.closed)
        /\ ToSet(snap.closed) \subseteq used
    BY DEF Shape, GoodImage, GoodEngine, EngineType
  <2>2. CASE SaveScalars \/ SaveLedger
    BY <1>1, <2>1, <2>2, DbFields DEF GoodImage
  <2>3. CASE DeleteStale
    <3>1. IsFiniteSet(db'.open)
      BY <2>1, <2>3, DbFields, FS_Subset
    <3> QED BY <1>1, <2>1, <2>3, <3>1, DbFields DEF GoodImage
  <2>4. CASE SaveOpen
    <3>1. db'.open = db.open \cup snap.open /\ db'.closed = db.closed \ snap.open
      BY <2>4, DbFields
    <3>2. IsFiniteSet(db'.open) /\ IsFiniteSet(db'.closed)
      BY <2>1, <3>1, FS_Union, FS_Subset
    <3> QED BY <1>1, <2>1, <2>4, <3>2, DbFields DEF GoodImage
  <2>5. CASE SaveClosed
    <3>1. IsFiniteSet(ToSet(snap.closed))
      BY <2>1, CountAll
    <3>2. IsFiniteSet(Unsaved(snap, db))
      BY <2>5, <3>1, SaveClosedFields, FS_Subset
    <3>4. db'.open \subseteq db.open /\ db'.closed = db.closed \cup Unsaved(snap, db)
      BY <2>5, SaveClosedFields
    <3>3. IsFiniteSet(db'.closed)
      BY <2>1, <3>2, <3>4, FS_Union
    <3>5. IsFiniteSet(db'.open)
      BY <2>1, <3>4, FS_Subset
    <3> QED BY <1>1, <2>1, <2>5, <3>3, <3>5, SaveClosedFields DEF GoodImage
  <2> QED BY <2>2, <2>3, <2>4, <2>5
<1> QED BY <1>1, <1>2, <1>3, UntouchedShape DEF Shape

\* Every other step but a restart.
LEMMA QuietShape ==
  ASSUME Shape,
         TakeSnapshot \/ Guard \/ MirrorNow \/ StartMirror \/ Copy \/ CopyFails \/ Finish
           \/ Shutdown
  PROVE  Shape'
<1>1. /\ live' = live /\ used' = used /\ db' = db
      /\ snap' = snap \/ snap' = live
      /\ disk' = disk \/ disk' = db
  BY DEF TakeSnapshot, Guard, MirrorNow, StartMirror, Copy, CopyFails, Finish, Shutdown,
         history, stores
<1>2. Control'
  <2>1. CASE TakeSnapshot \/ Guard \/ MirrorNow \/ StartMirror
    BY <2>1 DEF Shape, Control, TakeSnapshot, Guard, MirrorNow, StartMirror, Return,
                history
  <2>2. CASE Copy \/ CopyFails \/ Finish \/ Shutdown
    BY <2>2 DEF Shape, Control, Copy, CopyFails, Finish, Shutdown, MidSave, Return,
                history
  <2> QED BY <2>1, <2>2
<1> QED BY <1>1, <1>2, UntouchedShape DEF Shape

LEMMA BootShape ==
  ASSUME Shape, Boot
  PROVE  Shape'
<1>1. used' = used /\ disk' = disk
  BY DEF Boot
<1>2. /\ IsFiniteSet(disk.open) /\ disk.open \cap disk.closed = {}
      /\ disk.open \subseteq used /\ disk.closed \subseteq used
  BY DEF Shape, GoodImage
<1>3. IsFiniteSet(Readable(disk.open))
  BY <1>2, FS_Difference DEF Readable
<1>4. GoodEngine(live)'
  BY <1>1, <1>2, <1>3, BootFields DEF GoodEngine, Readable
<1>5. GoodEngine(snap)'
  BY <1>4, BootFields DEF GoodEngine
<1>6. Control'
  <2>1. boots' \in 1..MaxBoots
    BY StateAssumption DEF Shape, Control, Boot
  <2>2. tainted' \in BOOLEAN
    BY Zenon DEF Boot
  <2>3. stopping' \in BOOLEAN /\ torn' \in BOOLEAN /\ failed' \in BOOLEAN
    BY DEF Shape, Control, Boot
  <2> QED BY <2>1, <2>2, <2>3 DEF Shape, Control, Boot
<1> QED BY <1>1, <1>4, <1>5, <1>6, BootFields, UntouchedShape DEF Shape

LEMMA StepShape ==
  ASSUME Shape, Next
  PROVE  Shape'
<1>1. ASSUME NEW p \in Pids, Enter(p) \/ Sell(p) \/ RollBack(p) PROVE Shape'
  BY <1>1, EnterShape, SellShape, RollBackShape
<1>2. ASSUME NEW p \in Pids, PollCloses(p) \/ FeedCloses(p) PROVE Shape'
  <2>1. Redeem(p)
    BY <1>2 DEF PollCloses, FeedCloses
  <2>2. fed' \in {"none", "cut", "late"}
    BY <1>2 DEF PollCloses, FeedCloses, Shape, Control
  <2> QED BY <2>1, <2>2, RedeemShape
<1>3. CASE SaveStep
  BY <1>3, WriteShape, QuietShape DEF SaveStep
<1>4. CASE Copy \/ CopyFails \/ Finish \/ Shutdown
  BY <1>4, QuietShape
<1>5. CASE Boot
  BY <1>5, BootShape
<1> QED BY <1>1, <1>2, <1>3, <1>4, <1>5 DEF Next

\* Every state of the engine, of the copy the save works on, of the database
\* and of the file has its type.
THEOREM StateTypeOK == Spec => []TypeOK
<1>1. Shape /\ UNCHANGED vars => Shape'
  BY DEF Shape, GoodEngine, GoodImage, Control, vars, stores, history
<1>2. Shape /\ [Next]_vars => Shape'
  BY <1>1, StepShape
<1>3. Shape => TypeOK
  BY DEF Shape, GoodEngine, GoodImage, Control, TypeOK, EngineOK, EngineType
<1> QED BY <1>2, <1>3, InitShape, PTL DEF Spec

-----------------------------------------------------------------------------
(* The untainted states.                                                   *)

Sound == Shape /\ LiveInv /\ SaveInv /\ ShutdownInv

LEMMA InitSound == Init => IInv
<1> SUFFICES ASSUME Init PROVE IInv
  OBVIOUS
<1>1. Shape
  BY InitShape
<1>2. Start \in Nat
  BY StateAssumption
<1>3. /\ live = [cash |-> Start, open |-> {}, closed |-> <<>>, ledger |-> Start,
                 rolledBack |-> {}]
      /\ db = Fresh /\ disk = Fresh
  BY DEF Init, Loaded, Fresh, Readable
<1>4. ToSet(<<>>) = {} /\ FirstOf(<<>>, 0) = {} /\ Cardinality({}) = 0 /\ Len(<<>>) = 0
  BY FS_EmptySet DEF ToSet, FirstOf
<1>5. Balanced(live)
  <2>1. Cardinality(ToSet(live.closed) \cap redeemed) = 0
    BY <1>3, <1>4 DEF Init
  <2> QED BY <1>2, <1>3, <1>4, <2>1 DEF Balanced
<1>6. Conserved(Fresh)
  <2>1. Cardinality(Fresh.closed \cap redeemed) = 0
    BY <1>4 DEF Init, Fresh
  <2> QED BY <1>2, <1>4, <2>1 DEF Conserved, Fresh
<1>7. LiveInv
  <2>1. OldestStored(db, live)
    BY <1>3, <1>4 DEF OldestStored, Fresh
  <2>2. OpenKnown(db, live) /\ redeemed \subseteq ToSet(live.closed)
        /\ disk.closed \subseteq ToSet(live.closed)
    BY <1>3 DEF OpenKnown, Fresh, Init
  <2> QED BY <1>5, <2>1, <2>2 DEF LiveInv
<1>8. SaveInv /\ ShutdownInv
  BY <1>3, <1>6 DEF SaveInv, ShutdownInv, Init, Saving
<1> QED BY <1>1, <1>7, <1>8 DEF IInv

\* Rows of closed positions are rows of positions the engine closed.
LEMMA StoredClosed ==
  ASSUME NEW d, NEW e, e.closed \in Seq(Pids), OldestStored(d, e)
  PROVE  d.closed \subseteq ToSet(e.closed)
BY DEF OldestStored, FirstOf, ToSet

LEMMA StoredClosedGrows ==
  ASSUME NEW d, NEW s \in Seq(Pids), NEW t \in Seq(Pids), IsStartOf(s, t),
         \E k \in 0..Len(s) : d.closed = FirstOf(s, k)
  PROVE  \E k \in 0..Len(t) : d.closed = FirstOf(t, k)
BY StartFirst

\* A redemption counts only where the position is stored as closed.
LEMMA ConservedKept ==
  ASSUME Sound, NEW p, p \notin ToSet(live.closed), db' = db, disk' = disk,
         redeemed' = redeemed \/ redeemed' = redeemed \cup {p}
  PROVE  /\ Conserved(db) => Conserved(db)'
         /\ Conserved(disk) => Conserved(disk)'
<1>1. db.closed \subseteq ToSet(live.closed) /\ disk.closed \subseteq ToSet(live.closed)
  BY StoredClosed DEF Sound, Shape, GoodEngine, EngineType, LiveInv
<1>2. /\ db'.closed \cap redeemed' = db.closed \cap redeemed
      /\ disk'.closed \cap redeemed' = disk.closed \cap redeemed
  BY <1>1
<1> QED BY <1>2 DEF Conserved

\* Nothing of a save is at stake between saves.
LEMMA IdleSafe ==
  ASSUME Sound, pc = "idle", pc' = "idle", torn' = torn, fed' = fed,
         disk' = disk, Conserved(db) => Conserved(db)', Conserved(disk) => Conserved(disk)'
  PROVE  SaveInv' /\ ShutdownInv'
BY DEF Sound, SaveInv, ShutdownInv, Saving

LEMMA EnterSafe ==
  ASSUME NEW p \in Pids, Sound, Enter(p)
  PROVE  LiveInv' /\ SaveInv' /\ ShutdownInv'
<1>1. /\ live.cash \in Nat /\ live.ledger \in Int /\ live.closed \in Seq(Pids)
      /\ IsFiniteSet(live.open) /\ p \notin live.open
      /\ ToSet(live.closed) \subseteq used /\ p \notin used
  BY DEF Sound, Shape, GoodEngine, EngineType, Enter
<1>2. /\ db' = db /\ disk' = disk /\ redeemed' = redeemed /\ torn' = torn /\ fed' = fed
      /\ pc = "idle" /\ pc' = "idle"
  BY DEF Enter, Running, stores
<1>3. /\ live'.cash = live.cash - 1 /\ live'.ledger = live.ledger - 1
      /\ live'.open = live.open \cup {p} /\ live'.closed = live.closed
      /\ live'.rolledBack = live.rolledBack
  BY EnterFields DEF Sound
<1>4. /\ Cardinality(live'.open) = Cardinality(live.open) + 1
      /\ Cardinality(live.open) \in Nat
  BY <1>1, <1>3, FS_AddElement, FS_CardinalityType
<1>5. Balanced(live)'
  <2>1. Balanced(live)
    BY DEF Sound, LiveInv
  <2>2. Cardinality(ToSet(live.closed) \cap redeemed) \in Nat
    BY <1>1, CountAll, FS_Intersection, FS_CardinalityType DEF Sound, Shape, GoodEngine
  <2> QED BY <1>1, <1>2, <1>3, <1>4, <2>1, <2>2 DEF Balanced
<1>6. LiveInv'
  BY <1>2, <1>3, <1>5 DEF Sound, LiveInv, OldestStored, OpenKnown
<1>7. (Conserved(db) => Conserved(db)') /\ (Conserved(disk) => Conserved(disk)')
  BY <1>1, <1>2, ConservedKept
<1> QED BY <1>2, <1>6, <1>7, IdleSafe

LEMMA RollBackSafe ==
  ASSUME NEW p \in Pids, Sound, RollBack(p)
  PROVE  LiveInv' /\ SaveInv' /\ ShutdownInv'
<1>1. /\ live.cash \in Nat /\ live.ledger \in Int /\ live.closed \in Seq(Pids)
      /\ IsFiniteSet(live.open) /\ live.open \cap ToSet(live.closed) = {}
      /\ p \in live.open
  BY DEF Sound, Shape, GoodEngine, EngineType, RollBack
<1>2. /\ db' = db /\ disk' = disk /\ redeemed' = redeemed /\ torn' = torn /\ fed' = fed
      /\ pc = "idle" /\ pc' = "idle"
  BY DEF RollBack, Running, stores, history
<1>3. /\ live'.cash = live.cash + 1 /\ live'.ledger = live.ledger + 1
      /\ live'.open = live.open \ {p} /\ live'.closed = live.closed
      /\ live'.rolledBack = live.rolledBack \cup {p}
  BY RollBackFields DEF Sound
<1>4. /\ Cardinality(live'.open) = Cardinality(live.open) - 1
      /\ Cardinality(live.open) \in Nat
  BY <1>1, <1>3, FS_RemoveElement, FS_CardinalityType
<1>5. Balanced(live)'
  <2>1. Balanced(live)
    BY DEF Sound, LiveInv
  <2>2. Cardinality(ToSet(live.closed) \cap redeemed) \in Nat
    BY <1>1, CountAll, FS_Intersection, FS_CardinalityType DEF Sound, Shape, GoodEngine
  <2>3. Len(live.closed) \in Nat /\ Start \in Nat
    BY <1>1, StateAssumption
  <2>4. /\ live.cash + Cardinality(live.open) = Start + Len(live.closed)
        /\ live.ledger = live.cash - 2 * Cardinality(ToSet(live.closed) \cap redeemed)
    BY <2>1 DEF Balanced
  <2>5. live'.cash + Cardinality(live'.open) = Start + Len(live.closed)
    <3>1. live'.cash = live.cash + 1 /\ live.cash \in Nat
      BY <1>1, <1>3
    <3>2. \A a, b \in Nat : (a + 1) + (b - 1) = a + b
      OBVIOUS
    <3> QED BY <1>4, <2>4, <3>1, <3>2
  <2>6. live'.ledger = live'.cash - 2 * Cardinality(ToSet(live.closed) \cap redeemed)
    BY <1>1, <1>3, <2>2, <2>4
  <2> QED BY <1>2, <1>3, <2>5, <2>6 DEF Balanced
<1>6. LiveInv'
  BY <1>2, <1>3, <1>5 DEF Sound, LiveInv, OldestStored, OpenKnown
<1>7. (Conserved(db) => Conserved(db)') /\ (Conserved(disk) => Conserved(disk)')
  BY <1>1, <1>2, ConservedKept
<1> QED BY <1>2, <1>6, <1>7, IdleSafe

\* Selling credits manager and ledger, redeeming the manager alone.
LEMMA ClosingSafe ==
  ASSUME NEW p \in Pids, Sound, Sell(p) \/ Redeem(p)
  PROVE  /\ LiveInv' /\ p \notin ToSet(live.closed) /\ live.closed \in Seq(Pids)
         /\ IsStartOf(live.closed, live'.closed) /\ live'.closed \in Seq(Pids)
         /\ ToSet(live'.closed) = ToSet(live.closed) \cup {p}
         /\ live'.open = live.open \ {p}
         /\ (Conserved(db) => Conserved(db)') /\ (Conserved(disk) => Conserved(disk)')
<1>1. /\ live.cash \in Nat /\ live.ledger \in Int /\ live.closed \in Seq(Pids)
      /\ Distinct(live.closed) /\ IsFiniteSet(live.open) /\ p \in live.open
      /\ redeemed \subseteq ToSet(live.closed)
  BY DEF Sound, Shape, GoodEngine, EngineType, Sell, Redeem, LiveInv
<1>2. db' = db /\ disk' = disk /\ used' = used
  BY DEF Sell, Redeem, stores, history
<1>3. /\ live' \in EngineType /\ live'.open = live.open \ {p}
      /\ live'.closed = Append(live.closed, p) /\ live'.rolledBack = live.rolledBack
      /\ live'.cash = live.cash + 2
  BY SellFields, RedeemFields DEF Sound
<1>4. /\ p \notin ToSet(live.closed)
      /\ Len(live'.closed) = Len(live.closed) + 1
      /\ IsStartOf(live.closed, live'.closed)
      /\ ToSet(live'.closed) = ToSet(live.closed) \cup {p}
      /\ Cardinality(live'.open) = Cardinality(live.open) - 1
  BY <1>1, <1>2, <1>3, ClosingGood DEF Sound
<1>5. /\ IsFiniteSet(redeemed) /\ Cardinality(redeemed) \in Nat
      /\ Cardinality(live.open) \in Nat
  BY <1>1, CountAll, FS_Subset, FS_CardinalityType
<1>6. /\ live.cash + Cardinality(live.open) = Start + Len(live.closed)
      /\ live.ledger = live.cash - 2 * Cardinality(redeemed)
  <2>1. ToSet(live.closed) \cap redeemed = redeemed
    BY <1>1
  <2> QED BY <2>1 DEF Sound, LiveInv, Balanced
<1>7. Balanced(live)'
  <2>1. live'.cash + Cardinality(live'.open) = Start + Len(live'.closed)
    <3>1. Len(live.closed) \in Nat
      BY <1>1
    <3>2. live'.cash = live.cash + 2 /\ live.cash \in Nat /\ Start \in Nat
      BY <1>1, <1>3, StateAssumption
    <3>3. live.cash + Cardinality(live.open) = Start + Len(live.closed)
      BY <1>6
    <3>4. Cardinality(live.open) \in Nat
      BY <1>5
    <3>5. (live.cash + 2) + (Cardinality(live.open) - 1) = Start + (Len(live.closed) + 1)
      BY <3>1, <3>2, <3>3, <3>4
    <3> QED BY <1>4, <3>2, <3>5
  <2>4. live'.cash = live.cash + 2 /\ live.cash \in Nat /\ live.ledger \in Int
    BY <1>1, <1>3
  <2>2. CASE Sell(p)
    <3>1. ToSet(live'.closed) \cap redeemed' = redeemed /\ live'.ledger = live.ledger + 2
      BY <1>1, <1>4, <2>2, SellFields DEF Sell, history, Sound
    <3>2. live'.ledger = live'.cash - 2 * Cardinality(redeemed)
      <4>1. \A a, b \in Int : a - b + 2 = (a + 2) - b
        OBVIOUS
      <4>2. 2 * Cardinality(redeemed) \in Int /\ live.cash \in Int
        BY <1>5, <2>4
      <4> QED BY <1>6, <2>4, <3>1, <4>1, <4>2
    <3> QED BY <2>1, <3>1, <3>2 DEF Balanced
  <2>3. CASE Redeem(p)
    <3>1. ToSet(live'.closed) \cap redeemed' = redeemed \cup {p}
          /\ live'.ledger = live.ledger /\ p \notin redeemed
      BY <1>1, <1>4, <2>3, RedeemFields DEF Redeem, Sound
    <3>2. Cardinality(redeemed \cup {p}) = Cardinality(redeemed) + 1
      BY <1>5, <3>1, FS_AddElement
    <3>3. live'.ledger = live'.cash - 2 * Cardinality(redeemed \cup {p})
      <4>1. \A a, n \in Nat : a - 2 * n = (a + 2) - 2 * (n + 1)
        OBVIOUS
      <4> QED BY <1>5, <1>6, <2>4, <3>1, <3>2, <4>1
    <3> QED BY <2>1, <3>1, <3>3 DEF Balanced
  <2> QED BY <2>2, <2>3
<1>8. redeemed' = redeemed \/ redeemed' = redeemed \cup {p}
  BY DEF Sell, Redeem, history
<1>9. live'.closed \in Seq(Pids)
  BY <1>3 DEF EngineType
<1>10. LiveInv'
  <2>1. redeemed' \subseteq ToSet(live'.closed)
    BY <1>1, <1>4, <1>8
  <2>2. OldestStored(db, live)'
    BY <1>1, <1>2, <1>4, <1>9, StoredClosedGrows DEF Sound, LiveInv, OldestStored
  <2>3. OpenKnown(db, live)'
    BY <1>2, <1>3, <1>4 DEF Sound, LiveInv, OpenKnown
  <2>4. disk'.closed \subseteq ToSet(live'.closed)
    BY <1>2, <1>4 DEF Sound, LiveInv
  <2> QED BY <1>7, <2>1, <2>2, <2>3, <2>4 DEF LiveInv
<1> QED BY <1>1, <1>2, <1>3, <1>4, <1>8, <1>9, <1>10, ConservedKept

LEMMA SellSafe ==
  ASSUME NEW p \in Pids, Sound, Sell(p)
  PROVE  LiveInv' /\ SaveInv' /\ ShutdownInv'
<1>1. /\ disk' = disk /\ torn' = torn /\ fed' = fed /\ pc = "idle" /\ pc' = "idle"
  BY DEF Sell, Running, stores, history
<1> QED BY <1>1, ClosingSafe, IdleSafe

\* A redemption in the middle of a save.
LEMMA FeedSafe ==
  ASSUME NEW p \in Pids, Sound, FeedCloses(p), pc # "idle"
  PROVE  LiveInv' /\ SaveInv' /\ ShutdownInv'
<1>1. Redeem(p)
  BY DEF FeedCloses
<1>2. /\ db' = db /\ disk' = disk /\ snap' = snap /\ pc' = pc /\ mirror' = mirror
      /\ stopping' = stopping /\ torn' = torn
      /\ redeemed' = redeemed \cup {p} /\ pc # "stopped"
  BY <1>1 DEF FeedCloses, Redeem, stores
<1>3. /\ LiveInv' /\ p \notin ToSet(live.closed) /\ live.closed \in Seq(Pids)
      /\ IsStartOf(live.closed, live'.closed) /\ live'.closed \in Seq(Pids)
      /\ ToSet(live'.closed) = ToSet(live.closed) \cup {p}
      /\ live'.open = live.open \ {p}
      /\ (Conserved(db) => Conserved(db)') /\ (Conserved(disk) => Conserved(disk)')
  BY <1>1, ClosingSafe
<1>4. live'.ledger = live.ledger
  BY <1>1, RedeemFields DEF Sound
<1>5. pc = "snapshot" => fed' = "cut"
  BY DEF FeedCloses
<1>6. ASSUME pc \in Saving PROVE SnapInv'
  <2>1. SnapInv
    BY <1>6 DEF Sound, SaveInv
  <2>2. snap.closed \in Seq(Pids) /\ ToSet(snap.closed) \subseteq ToSet(live.closed)
    BY <1>3, <2>1, StartContained DEF SnapInv, Sound, Shape, GoodEngine, EngineType
  <2>3. ToSet(snap.closed) \cap redeemed' = ToSet(snap.closed) \cap redeemed
    BY <1>2, <1>3, <2>2
  <2>4. Balanced(snap)'
    BY <1>2, <2>1, <2>3 DEF Balanced, SnapInv
  <2>5. IsStartOf(snap.closed, live'.closed)
    BY <1>3, <2>1, <2>2, StartTransitive DEF SnapInv
  <2>6. snap.open \subseteq live'.open \cup ToSet(live'.closed)
    BY <1>3, <2>1 DEF SnapInv
  <2>7. fed' # "none" /\ (fed' # "cut" => fed # "cut")
    <3>1. pc # "idle" /\ pc # "snapshot"
      BY <1>6 DEF Saving
    <3> QED BY <3>1 DEF FeedCloses
  <2> QED BY <1>2, <1>4, <2>1, <2>4, <2>5, <2>6, <2>7
          DEF SnapInv, OldestStored, OpenKnown
<1>7. SaveInv'
  <2>1. pc = "mirror" /\ fed' # "cut" => Conserved(db)'
    <3>1. pc = "mirror" /\ fed' # "cut" => fed # "cut"
      BY DEF FeedCloses
    <3> QED BY <1>3, <3>1 DEF Sound, SaveInv
  <2>2. ~torn => Conserved(disk)'
    BY <1>3 DEF Sound, SaveInv
  <2> QED BY <1>2, <1>5, <1>6, <2>1, <2>2 DEF SaveInv
<1>8. ShutdownInv'
  BY <1>2 DEF Sound, ShutdownInv
<1> QED BY <1>3, <1>7, <1>8

LEMMA RedeemSafe ==
  ASSUME NEW p \in Pids, Sound, PollCloses(p) \/ FeedCloses(p)
  PROVE  LiveInv' /\ SaveInv' /\ ShutdownInv'
<1>1. CASE pc = "idle"
  <2>1. Redeem(p) /\ fed' = fed
    BY <1>1 DEF PollCloses, FeedCloses
  <2>2. disk' = disk /\ torn' = torn /\ pc' = "idle"
    BY <1>1, <2>1 DEF Redeem, stores
  <2> QED BY <1>1, <2>1, <2>2, ClosingSafe, IdleSafe
<1>2. CASE pc # "idle"
  <2>1. FeedCloses(p)
    BY <1>2 DEF PollCloses, Running
  <2> QED BY <1>2, <2>1, FeedSafe
<1> QED BY <1>1, <1>2

-----------------------------------------------------------------------------
(* The save.                                                               *)

\* The two early returns of a save are for states a restart never makes.
LEMMA NoEarlyReturn ==
  ASSUME Sound, pc \in Saving
  PROVE  /\ ~StateGuard(snap, db) /\ ~ClosedGuard(snap, db)
         /\ snap.closed \in Seq(Pids)
         /\ \E k \in 0..Len(snap.closed) : /\ db.closed = FirstOf(snap.closed, k)
                                           /\ Cardinality(db.closed) = k
<1>1. SnapInv
  BY DEF Sound, SaveInv
<1>2. snap.closed \in Seq(Pids) /\ Distinct(snap.closed)
  BY DEF Sound, Shape, GoodEngine, EngineType
<1>3. PICK k \in 0..Len(snap.closed) : db.closed = FirstOf(snap.closed, k)
  BY <1>1 DEF SnapInv, OldestStored
<1>4. Cardinality(db.closed) = k
  BY <1>2, <1>3, CountFirst
<1>5. ~ClosedGuard(snap, db)
  BY <1>2, <1>4 DEF ClosedGuard
<1>6. ~StateGuard(snap, db)
  BY <1>1 DEF SnapInv, OpenKnown, StateGuard, AccountedFor
<1> QED BY <1>2, <1>3, <1>4, <1>5, <1>6

\* As long as the engine stays as it is, so do its balance and the file's.
LEMMA StillConserved ==
  ASSUME live' = live, redeemed' = redeemed
  PROVE  /\ Balanced(live) => Balanced(live)'
         /\ snap' = snap /\ Balanced(snap) => Balanced(snap)'
         /\ snap' = live /\ Balanced(live) => Balanced(snap)'
         /\ db' = db /\ Conserved(db) => Conserved(db)'
         /\ disk' = disk /\ Conserved(disk) => Conserved(disk)'
         /\ disk' = db /\ Conserved(db) => Conserved(disk)'
BY DEF Balanced, Conserved

LEMMA ScalarsSafe ==
  ASSUME Sound, SaveScalars
  PROVE  LiveInv' /\ SaveInv' /\ ShutdownInv'
<1>1. /\ live' = live /\ disk' = disk /\ redeemed' = redeemed /\ torn' = torn
      /\ pc' = "snapshot" /\ mirror' = mirror /\ stopping' = stopping
      /\ stopping => mirror = "idle"
  BY DEF SaveScalars, Begins
<1>2. db'.cash = live.cash /\ db'.open = db.open /\ db'.closed = db.closed
  BY DbFields DEF Sound
<1>3. LiveInv'
  BY <1>1, <1>2, StillConserved DEF Sound, LiveInv, OldestStored, OpenKnown
<1>4. SaveInv'
  BY <1>1, <1>2, StillConserved DEF Sound, SaveInv, Saving
<1> QED BY <1>1, <1>3, <1>4 DEF ShutdownInv

LEMMA SnapshotSafe ==
  ASSUME Sound, TakeSnapshot
  PROVE  LiveInv' /\ SaveInv' /\ ShutdownInv'
<1>1. /\ live' = live /\ snap' = live /\ db' = db /\ disk' = disk
      /\ redeemed' = redeemed /\ torn' = torn /\ fed' = fed
      /\ pc = "snapshot" /\ pc' = "guard" /\ mirror' = mirror /\ stopping' = stopping
  BY DEF TakeSnapshot, stores, history
<1>2. LiveInv'
  BY <1>1, StillConserved DEF Sound, LiveInv, OldestStored, OpenKnown
<1>3. IsStartOf(live.closed, live.closed)
  BY StartOfItself DEF Sound, Shape, GoodEngine, EngineType
<1>4. SnapInv'
  BY <1>1, <1>3, StillConserved
     DEF Sound, LiveInv, SaveInv, SnapInv, OldestStored, OpenKnown
<1>5. SaveInv'
  BY <1>1, <1>4, StillConserved DEF Sound, SaveInv
<1> QED BY <1>1, <1>2, <1>5 DEF Sound, ShutdownInv

\* What the steps of a save from its snapshot to its end share.
LEMMA SavingSafe ==
  ASSUME Sound, pc \in Saving, pc' \in Saving,
         live' = live, snap' = snap, disk' = disk, redeemed' = redeemed, torn' = torn,
         fed' = fed, mirror' = mirror, stopping' = stopping,
         db'.cash = db.cash, OldestStored(db', snap), OpenKnown(db', snap),
         pc' \in {"closed", "ledger", "mirror"} => db'.open = snap.open,
         pc' \in {"ledger", "mirror"} => db'.closed = ToSet(snap.closed),
         pc' = "mirror" => db'.ledger = snap.ledger,
         OpenKnown(db', live)
  PROVE  LiveInv' /\ SaveInv' /\ ShutdownInv'
<1>1. SnapInv /\ snap.closed \in Seq(Pids) /\ live.closed \in Seq(Pids)
      /\ Distinct(snap.closed)
  BY DEF Sound, SaveInv, Shape, GoodEngine, EngineType
<1>2. OldestStored(db', live)
  BY <1>1, StoredClosedGrows DEF OldestStored, SnapInv
<1>3. LiveInv'
  BY <1>2, StillConserved DEF Sound, LiveInv, OldestStored, OpenKnown
<1>4. SnapInv'
  BY <1>1, StillConserved DEF SnapInv, OldestStored, OpenKnown
<1>5. ASSUME pc' = "mirror", fed' # "cut" PROVE Conserved(db)'
  <2>1. /\ db'.cash = snap.cash /\ db'.open = snap.open
        /\ db'.closed = ToSet(snap.closed) /\ db'.ledger = snap.ledger
    BY <1>1, <1>5 DEF SnapInv
  <2>2. Cardinality(db'.closed) = Len(snap.closed)
    BY <1>1, <2>1, CountAll
  <2> QED BY <1>1, <2>1, <2>2 DEF SnapInv, Balanced, Conserved
<1>6. SaveInv'
  BY <1>4, <1>5, StillConserved DEF Sound, SaveInv, Saving
<1>7. ShutdownInv'
  BY DEF Sound, ShutdownInv, Saving
<1> QED BY <1>3, <1>6, <1>7

LEMMA GuardSafe ==
  ASSUME Sound, Guard
  PROVE  LiveInv' /\ SaveInv' /\ ShutdownInv'
<1>1. pc = "guard" /\ pc \in Saving
  BY DEF Guard, Saving
<1>2. pc' = "stale" /\ pc' \in Saving
  BY <1>1, NoEarlyReturn DEF Guard, Saving
<1>3. OldestStored(db, snap) /\ OpenKnown(db, snap) /\ OpenKnown(db, live)
  BY <1>1 DEF Sound, LiveInv, SaveInv, SnapInv
<1>4. /\ live' = live /\ snap' = snap /\ db' = db /\ disk' = disk
      /\ redeemed' = redeemed /\ torn' = torn /\ fed' = fed
      /\ mirror' = mirror /\ stopping' = stopping
  BY DEF Guard, stores, history
<1> QED BY <1>1, <1>2, <1>3, <1>4, SavingSafe

LEMMA StaleSafe ==
  ASSUME Sound, DeleteStale
  PROVE  LiveInv' /\ SaveInv' /\ ShutdownInv'
<1>1. pc = "stale" /\ pc' = "stale" /\ pc \in Saving /\ pc' \in Saving
  BY DEF DeleteStale, Saving
<1>2. /\ live' = live /\ snap' = snap /\ disk' = disk
      /\ redeemed' = redeemed /\ torn' = torn /\ fed' = fed
      /\ mirror' = mirror /\ stopping' = stopping
  BY DEF DeleteStale, history
<1>3. db'.cash = db.cash /\ db'.open \subseteq db.open /\ db'.closed = db.closed
  BY DbFields DEF Sound
<1>4. OldestStored(db, snap) /\ OpenKnown(db, snap) /\ OpenKnown(db, live)
  BY <1>1 DEF Sound, LiveInv, SaveInv, SnapInv
<1>5. OldestStored(db', snap) /\ OpenKnown(db', snap) /\ OpenKnown(db', live)
  BY <1>3, <1>4 DEF OldestStored, OpenKnown
<1> QED BY <1>1, <1>2, <1>3, <1>5, SavingSafe

LEMMA OpenSafe ==
  ASSUME Sound, SaveOpen
  PROVE  LiveInv' /\ SaveInv' /\ ShutdownInv'
<1>1. pc = "stale" /\ pc' = "closed" /\ pc \in Saving /\ pc' \in Saving
  BY DEF SaveOpen, Saving
<1>2. /\ live' = live /\ snap' = snap /\ disk' = disk
      /\ redeemed' = redeemed /\ torn' = torn /\ fed' = fed
      /\ mirror' = mirror /\ stopping' = stopping
  BY DEF SaveOpen, history
<1>3. SnapInv /\ snap.closed \in Seq(Pids) /\ snap.open \cap ToSet(snap.closed) = {}
  BY <1>1 DEF Sound, SaveInv, Shape, GoodEngine, EngineType
<1>4. db.closed \subseteq ToSet(snap.closed)
  BY <1>3, StoredClosed DEF SnapInv
<1>5. db'.cash = db.cash /\ db'.open = snap.open /\ db'.closed = db.closed
  BY <1>3, <1>4, DbFields DEF Sound, SaveOpen, Stale
<1>6. OldestStored(db', snap) /\ OpenKnown(db', snap) /\ OpenKnown(db', live)
  BY <1>3, <1>5 DEF SnapInv, OldestStored, OpenKnown
<1> QED BY <1>1, <1>2, <1>5, <1>6, SavingSafe

LEMMA ClosedSafe ==
  ASSUME Sound, SaveClosed
  PROVE  LiveInv' /\ SaveInv' /\ ShutdownInv'
<1>1. pc = "closed" /\ pc' = "ledger" /\ pc \in Saving /\ pc' \in Saving
  BY DEF SaveClosed, Saving
<1>2. /\ live' = live /\ snap' = snap /\ disk' = disk
      /\ redeemed' = redeemed /\ torn' = torn /\ fed' = fed
      /\ mirror' = mirror /\ stopping' = stopping
  BY DEF SaveClosed, history
<1>3. SnapInv /\ snap.closed \in Seq(Pids) /\ snap.open \cap ToSet(snap.closed) = {}
      /\ db.open = snap.open
  BY <1>1 DEF Sound, SaveInv, SnapInv, Shape, GoodEngine, EngineType
<1>4. PICK k \in 0..Len(snap.closed) : /\ db.closed = FirstOf(snap.closed, k)
                                       /\ Cardinality(db.closed) = k
  BY <1>1, NoEarlyReturn
<1>5. db.closed \cup Unsaved(snap, db) = ToSet(snap.closed)
  <2>1. Unsaved(snap, db) = {snap.closed[i] : i \in (k + 1)..Len(snap.closed)}
    BY <1>4 DEF Unsaved
  <2>2. 1..Len(snap.closed) = 1..k \cup (k + 1)..Len(snap.closed)
    OBVIOUS
  <2>3. ToSet(snap.closed) = {snap.closed[i] : i \in 1..Len(snap.closed)}
    BY <1>3 DEF ToSet
  <2> QED BY <1>4, <2>1, <2>2, <2>3 DEF FirstOf
<1>6. db'.cash = db.cash /\ db'.open = snap.open /\ db'.closed = ToSet(snap.closed)
  BY <1>3, <1>5, SaveClosedFields DEF Sound
<1>7. OldestStored(db', snap)
  <2>1. Len(snap.closed) \in 0..Len(snap.closed)
    BY <1>3
  <2> QED BY <1>3, <1>6, <2>1, AllOfIt DEF OldestStored
<1>8. OpenKnown(db', snap) /\ OpenKnown(db', live)
  BY <1>3, <1>6 DEF SnapInv, OpenKnown
<1> QED BY <1>1, <1>2, <1>6, <1>7, <1>8, SavingSafe

LEMMA LedgerSafe ==
  ASSUME Sound, SaveLedger
  PROVE  LiveInv' /\ SaveInv' /\ ShutdownInv'
<1>1. pc = "ledger" /\ pc' = "mirror" /\ pc \in Saving /\ pc' \in Saving
  BY DEF SaveLedger, Saving
<1>2. /\ live' = live /\ snap' = snap /\ disk' = disk
      /\ redeemed' = redeemed /\ torn' = torn /\ fed' = fed
      /\ mirror' = mirror /\ stopping' = stopping
  BY DEF SaveLedger, history
<1>3. SnapInv /\ OpenKnown(db, live)
  BY <1>1 DEF Sound, SaveInv, LiveInv
<1>4. /\ db'.cash = db.cash /\ db'.open = db.open /\ db'.closed = db.closed
      /\ db'.ledger = snap.ledger
  BY <1>3, DbFields DEF Sound, SnapInv
<1>5. OldestStored(db', snap) /\ OpenKnown(db', snap) /\ OpenKnown(db', live)
  BY <1>3, <1>4 DEF SnapInv, OldestStored, OpenKnown
<1>6. db'.open = snap.open /\ db'.closed = ToSet(snap.closed)
  BY <1>1, <1>3, <1>4 DEF SnapInv
<1> QED BY <1>1, <1>2, <1>4, <1>5, <1>6, SavingSafe

\* The save is over: the loop goes on, or the process waits for the thread.
LEMMA StartMirrorSafe ==
  ASSUME Sound, StartMirror
  PROVE  LiveInv' /\ SaveInv' /\ ShutdownInv'
<1>1. /\ live' = live /\ snap' = snap /\ db' = db /\ disk' = disk
      /\ redeemed' = redeemed /\ torn' = torn /\ fed' = fed /\ failed' = failed
      /\ stopping' = stopping /\ pc = "mirror" /\ pc \in Saving
  BY DEF StartMirror, stores, history, Saving
<1>2. pc' = IF stopping THEN "stopped" ELSE "idle"
  BY DEF StartMirror, Return
<1>3. LiveInv'
  BY <1>1, StillConserved DEF Sound, LiveInv, OldestStored, OpenKnown
<1>4. SaveInv'
  <2>1. fed # "cut" => Conserved(db)'
    BY <1>1, StillConserved DEF Sound, SaveInv
  <2>2. ~torn => Conserved(disk)'
    BY <1>1, StillConserved DEF Sound, SaveInv
  <2> QED BY <1>1, <1>2, <2>1, <2>2 DEF SaveInv, Saving
<1>5. ASSUME pc' = "stopped" PROVE stopping' /\ mirror' = "started"
  <2>1. stopping
    BY <1>2, <1>5
  <2>2. mirror = "idle"
    BY <1>1, <2>1 DEF Sound, ShutdownInv
  <2> QED BY <1>1, <2>1, <2>2 DEF StartMirror, Spawns
<1>6. ASSUME pc' = "stopped", fed' = "none" PROVE db' = Image(live')
  <2>1. SnapInv /\ live = snap
    BY <1>1, <1>6 DEF Sound, SaveInv, SnapInv
  <2>2. /\ db.cash = live.cash /\ db.open = live.open
        /\ db.closed = ToSet(live.closed) /\ db.ledger = live.ledger
    BY <1>1, <1>6, <2>1 DEF SnapInv
  <2>3. db \in ImageType
    BY DEF Sound, Shape, GoodImage
  <2> QED BY <1>1, <2>2, <2>3 DEF Image, ImageType
<1>7. ShutdownInv'
  BY <1>2, <1>5, <1>6 DEF ShutdownInv
<1> QED BY <1>3, <1>4, <1>7

LEMMA MirrorNowNever ==
  ASSUME Sound, MirrorNow
  PROVE  FALSE
BY NoEarlyReturn DEF MirrorNow, Saving

-----------------------------------------------------------------------------
(* The background thread and the process.                                  *)

LEMMA CopySafe ==
  ASSUME Sound, Copy
  PROVE  LiveInv' /\ SaveInv' /\ ShutdownInv'
<1>1. /\ live' = live /\ snap' = snap /\ db' = db /\ disk' = db
      /\ redeemed' = redeemed /\ torn' = MidSave /\ fed' = fed
      /\ stopping' = stopping /\ pc' = pc /\ mirror = "started"
  BY DEF Copy
<1>2. db.closed \subseteq ToSet(live.closed)
  BY StoredClosed DEF Sound, Shape, GoodEngine, EngineType, LiveInv
<1>3. LiveInv'
  BY <1>1, <1>2, StillConserved DEF Sound, LiveInv, OldestStored, OpenKnown
<1>4. ASSUME ~torn' PROVE Conserved(disk)'
  <2>1. pc \in {"idle", "mirror", "stopped"} /\ fed # "cut"
    BY <1>1, <1>4 DEF MidSave, Sound, Shape, Control
  <2> QED BY <1>1, <2>1, StillConserved DEF Sound, SaveInv
<1>5. pc \in Saving => SnapInv'
  BY <1>1, StillConserved DEF Sound, SaveInv, SnapInv, OldestStored, OpenKnown
<1>6. SaveInv'
  BY <1>1, <1>4, <1>5, StillConserved DEF Sound, SaveInv
<1>7. ShutdownInv'
  BY <1>1 DEF Sound, ShutdownInv
<1> QED BY <1>3, <1>6, <1>7

\* Steps that leave the engine and the images alone, outside the save.
LEMMA AsideSafe ==
  ASSUME Sound, CopyFails \/ Finish \/ Shutdown
  PROVE  LiveInv' /\ SaveInv' /\ ShutdownInv'
<1>1. pc' = pc
  BY NoEarlyReturn DEF CopyFails, Finish, Shutdown, Saving
<1>2. /\ live' = live /\ snap' = snap /\ db' = db /\ disk' = disk
      /\ redeemed' = redeemed /\ torn' = torn /\ fed' = fed
  BY DEF CopyFails, Finish, Shutdown, stores, history
<1>3. LiveInv'
  BY <1>2, StillConserved DEF Sound, LiveInv, OldestStored, OpenKnown
<1>4. pc \in Saving => SnapInv'
  BY <1>1, <1>2, StillConserved DEF Sound, SaveInv, SnapInv, OldestStored, OpenKnown
<1>5. SaveInv'
  BY <1>1, <1>2, <1>4, StillConserved DEF Sound, SaveInv
<1>6. ShutdownInv'
  <2>1. CASE CopyFails
    <3>1. failed' = TRUE /\ stopping' = stopping /\ mirror # "idle"
      BY <2>1, NoEarlyReturn DEF CopyFails, Saving
    <3> QED BY <1>1, <1>2, <3>1 DEF Sound, ShutdownInv
  <2>2. CASE Finish
    <3>1. mirror = "copied" /\ mirror' = "idle" /\ failed' = failed /\ stopping' = stopping
      BY <2>2 DEF Finish, history
    <3> QED BY <1>1, <1>2, <3>1 DEF Sound, ShutdownInv
  <2>3. CASE Shutdown
    BY <1>1, <2>3 DEF Shutdown, Running, ShutdownInv
  <2> QED BY <2>1, <2>2, <2>3
<1> QED BY <1>3, <1>5, <1>6

\* A restart from a whole file loads the state of one moment.
LEMMA BootSafe ==
  ASSUME Sound, Boot, ~tainted'
  PROVE  LiveInv' /\ SaveInv' /\ ShutdownInv'
<1>1. ~tainted /\ ~torn /\ (disk.open \cup disk.closed) \cap Unreadable = {}
  BY DEF Boot
<1>2. Conserved(disk)
  BY <1>1 DEF Sound, SaveInv
<1>3. /\ redeemed' = redeemed \cap disk.closed /\ disk' = disk /\ db' = disk
      /\ torn' = torn /\ fed' = "none" /\ pc' = "idle" /\ stopping' = FALSE
  BY DEF Boot, FromDisk
<1>4. /\ live'.cash = disk.cash /\ live'.ledger = disk.ledger
      /\ live'.open = disk.open /\ ToSet(live'.closed) = disk.closed
      /\ live'.closed \in Seq(Pids) /\ Distinct(live'.closed)
      /\ Len(live'.closed) = Cardinality(disk.closed)
  BY <1>1, BootFields DEF Readable, EngineType, Sound
<1>5. disk.closed \cap redeemed' = disk.closed \cap redeemed
  BY <1>3
<1>6. Balanced(live)'
  BY <1>2, <1>4, <1>5 DEF Conserved, Balanced
<1>7. OldestStored(db, live)'
  <2>1. Len(live'.closed) \in 0..Len(live'.closed)
    BY <1>4
  <2> QED BY <1>3, <1>4, <2>1, AllOfIt DEF OldestStored
<1>8. LiveInv'
  BY <1>3, <1>4, <1>6, <1>7 DEF LiveInv, OpenKnown
<1>9. Conserved(db)' /\ Conserved(disk)'
  BY <1>2, <1>3, <1>5 DEF Conserved
<1>10. SaveInv' /\ ShutdownInv'
  BY <1>3, <1>9 DEF SaveInv, ShutdownInv, Saving
<1> QED BY <1>8, <1>10

-----------------------------------------------------------------------------
(* The invariant and what it implies.                                      *)

LEMMA StepSound ==
  ASSUME IInv, Next
  PROVE  IInv'
<1>1. Shape'
  BY StepShape DEF IInv
<1>2. ASSUME ~tainted' PROVE LiveInv' /\ SaveInv' /\ ShutdownInv'
  <2>1. tainted => tainted'
    BY DEF Next, Enter, Sell, RollBack, PollCloses, FeedCloses, Redeem, SaveStep,
           SaveScalars, TakeSnapshot, Guard, DeleteStale, SaveOpen, SaveClosed,
           MirrorNow, SaveLedger, StartMirror, Copy, CopyFails, Finish, Shutdown,
           Boot, history
  <2>2. Sound
    BY <1>2, <2>1 DEF IInv, Sound
  <2>3. ASSUME NEW p \in Pids, Enter(p) \/ Sell(p) \/ RollBack(p)
        PROVE  LiveInv' /\ SaveInv' /\ ShutdownInv'
    BY <2>2, <2>3, EnterSafe, SellSafe, RollBackSafe
  <2>4. ASSUME NEW p \in Pids, PollCloses(p) \/ FeedCloses(p)
        PROVE  LiveInv' /\ SaveInv' /\ ShutdownInv'
    BY <2>2, <2>4, RedeemSafe
  <2>5. CASE SaveStep
    BY <2>2, <2>5, ScalarsSafe, SnapshotSafe, GuardSafe, StaleSafe, OpenSafe,
       ClosedSafe, MirrorNowNever, LedgerSafe, StartMirrorSafe DEF SaveStep
  <2>6. CASE Copy
    BY <2>2, <2>6, CopySafe
  <2>7. CASE CopyFails \/ Finish \/ Shutdown
    BY <2>2, <2>7, AsideSafe
  <2>8. CASE Boot
    BY <1>2, <2>2, <2>8, BootSafe
  <2> QED BY <2>3, <2>4, <2>5, <2>6, <2>7, <2>8 DEF Next
<1> QED BY <1>1, <1>2 DEF IInv

LEMMA StutterSound ==
  ASSUME IInv, UNCHANGED vars
  PROVE  IInv'
<1>1. Shape'
  BY DEF IInv, Shape, GoodEngine, GoodImage, Control, vars, stores, history
<1>2. /\ live' = live /\ snap' = snap /\ db' = db /\ disk' = disk /\ redeemed' = redeemed
      /\ torn' = torn /\ fed' = fed /\ pc' = pc /\ mirror' = mirror
      /\ stopping' = stopping /\ failed' = failed /\ tainted' = tainted
  BY DEF vars, stores, history
<1>3. LiveInv => LiveInv'
  BY <1>2, StillConserved DEF LiveInv, OldestStored, OpenKnown
<1>4. SnapInv => SnapInv'
  BY <1>2, StillConserved DEF SnapInv, OldestStored, OpenKnown
<1>5. SaveInv => SaveInv'
  BY <1>2, <1>4, StillConserved DEF SaveInv
<1>6. ShutdownInv => ShutdownInv'
  BY <1>2 DEF ShutdownInv
<1> QED BY <1>1, <1>2, <1>3, <1>5, <1>6 DEF IInv

\* The inductive invariant of the save, the background thread and restarts.
THEOREM SaveInvariant == Spec => []IInv
BY InitSound, StepSound, StutterSound, PTL DEF Spec

\* A file that was copied whole holds the state of one moment, whatever is
\* closed, saved, copied, stopped and restarted in whatever order.
THEOREM SnapshotHolds == Spec => []SnapshotConsistent
<1>1. IInv => SnapshotConsistent
  BY DEF IInv, SaveInv, SnapshotConsistent
<1> QED BY <1>1, SaveInvariant, PTL

\* After an orderly shutdown whose last copy the disk took and no feed cut
\* into, the file is the state of the engine.
THEOREM ShutdownHolds == Spec => []ShutdownKeepsAll
<1>1. IInv => ShutdownKeepsAll
  BY DEF IInv, ShutdownInv, ShutdownKeepsAll, Stopped
<1> QED BY <1>1, SaveInvariant, PTL
=============================================================================
