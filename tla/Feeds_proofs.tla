---------------------------- MODULE Feeds_proofs ----------------------------
(***************************************************************************)
(* Theorems about what the market data passes through: the pool of         *)
(* connections (WsPool), the tiers of the feed (TieredFeed) and the        *)
(* evaluation pipeline (EvalPipeline).  No module composes the three; they *)
(* are together here because they share the lemmas about lists, chunks and *)
(* sizes.                                                                  *)
(***************************************************************************)
EXTENDS WsPool, TieredFeed, EvalPipeline, FoldTheorems

-----------------------------------------------------------------------------
(* Chunks.                                                                 *)

\* NumChunks rounds up.
LEMMA ChunksRoundUp ==
  ASSUME NEW n \in Nat
  PROVE  /\ NumChunks(n) \in Nat /\ n <= NumChunks(n) * Cap
         /\ \A m \in Nat : n <= m * Cap => NumChunks(n) <= m
<1>0. Cap \in Nat /\ Cap >= 1
  BY CapAssumption
<1> DEFINE x == n + Cap - 1
           q == x \div Cap
<1>1. x \in Nat /\ q \in Nat /\ q * Cap <= x /\ x < (q + 1) * Cap
  BY <1>0
<1>2. NumChunks(n) = q
  BY DEF NumChunks
<1> HIDE DEF q
<1>3. (q + 1) * Cap = q * Cap + Cap /\ q * Cap \in Nat
  BY <1>0, <1>1
<1>4. n <= q * Cap
  BY <1>0, <1>1, <1>3
<1>5. ASSUME NEW m \in Nat, n <= m * Cap PROVE q <= m
  <2>1. SUFFICES ASSUME m + 1 <= q PROVE FALSE
    BY <1>1
  <2>2. (m + 1) * Cap <= q * Cap
    BY <1>0, <1>1, <2>1
  <2>3. (m + 1) * Cap = m * Cap + Cap /\ m * Cap \in Nat
    BY <1>0
  <2> QED BY <1>0, <1>1, <1>3, <1>5, <2>2, <2>3
<1> QED BY <1>1, <1>2, <1>4, <1>5

\* A chunk holds the elements of its places.
LEMMA ChunkPlaces ==
  ASSUME NEW S, NEW list \in Seq(S), NEW i \in Nat \ {0}
  PROVE  /\ Chunk(list, i) = {list[k] : k \in {p \in 1..Len(list) : (i - 1) * Cap < p /\ p <= i * Cap}}
         /\ Chunk(list, i) \subseteq ToSet(list)
         /\ IsFiniteSet(Chunk(list, i)) /\ Cardinality(Chunk(list, i)) <= Cap
<1>0. Cap \in Nat /\ Cap >= 1 /\ Len(list) \in Nat /\ DOMAIN list = 1..Len(list)
  BY CapAssumption
<1> DEFINE lo == (i - 1) * Cap
           end == i * Cap
           len == Len(list)
           hi == Min({end, len})
           sub == SubSeq(list, lo + 1, hi)
<1>1. lo \in Nat /\ end = lo + Cap /\ end \in Nat /\ len \in Nat
  BY <1>0
<1>2. hi = IF end <= len THEN end ELSE len
  <2> HIDE DEF end, len
  <2> QED BY <1>1, MinOfTwo
<1> HIDE DEF lo, hi, end, len
<1>3. hi \in Nat /\ hi <= len /\ hi <= lo + Cap
  BY <1>0, <1>1, <1>2
<1>4. sub = [k \in 1..(hi - lo) |-> list[lo + k]]
  <2>1. sub = [k \in 1..(hi - (lo + 1) + 1) |-> list[k + (lo + 1) - 1]]
    BY <1>1, <1>3
  <2> QED BY <2>1, <1>1, <1>3
<1>5. sub \in Seq(S) /\ Len(sub) <= Cap
  <2>1. SubSeq(list, lo + 1, hi) \in Seq(S)
    BY <1>1, <1>3 DEF len
  <2>2. Len(sub) = IF lo + 1 <= hi THEN hi - lo ELSE 0
    BY <1>1, <1>3
  <2> HIDE DEF sub
  <2> QED BY <2>1, <2>2, <1>0, <1>1, <1>3 DEF sub
<1>6. Chunk(list, i) = ToSet(sub)
  BY DEF Chunk, lo, hi, end, len
<1> DEFINE places == {p \in 1..len : lo < p /\ p <= end}
<1>7. places = (lo + 1)..hi
  BY <1>0, <1>1, <1>2, <1>3
<1>8. ToSet(sub) = {list[k] : k \in places}
  <2>1. DOMAIN sub = 1..(hi - lo) /\ \A k \in 1..(hi - lo) : sub[k] = list[lo + k]
    BY <1>4
  <2> HIDE DEF sub
  <2>2. ASSUME NEW k \in 1..(hi - lo) PROVE sub[k] \in {list[p] : p \in places}
    <3>1. lo + k \in places
      BY <1>7, <1>1, <1>3
    <3> HIDE DEF places
    <3> QED BY <2>1, <3>1
  <2>3. ASSUME NEW p \in places PROVE list[p] \in {sub[k] : k \in 1..(hi - lo)}
    <3>1. p - lo \in 1..(hi - lo) /\ lo + (p - lo) = p
      BY <1>7, <1>1, <1>3
    <3> HIDE DEF places
    <3> QED BY <2>1, <3>1
  <2> HIDE DEF places
  <2>4. ToSet(sub) = {sub[k] : k \in 1..(hi - lo)}
    BY <2>1 DEF ToSet
  <2> QED BY <2>2, <2>3, <2>4
<1>9. ToSet(sub) \subseteq ToSet(list)
  <2>1. places \subseteq DOMAIN list
    BY <1>0 DEF len
  <2> HIDE DEF places, sub
  <2> QED BY <1>8, <2>1 DEF ToSet
<1> HIDE DEF sub
<1>10. IsFiniteSet(ToSet(sub)) /\ Cardinality(ToSet(sub)) <= Cap
  <2>1. IsFiniteSet(ToSet(sub)) /\ Cardinality(ToSet(sub)) <= Len(sub) /\ Len(sub) \in Nat
    BY <1>5, MembersBounded
  <2>2. Cardinality(ToSet(sub)) \in Nat
    BY <2>1, FS_CardinalityType
  <2> QED BY <1>0, <1>5, <2>1, <2>2
<1> QED BY <1>6, <1>8, <1>9, <1>10 DEF lo, end, len

\* What is at the p-th place is in chunk number NumChunks(p).
LEMMA ChunkOfPlace ==
  ASSUME NEW S, NEW list \in Seq(S), NEW p \in 1..Len(list)
  PROVE  NumChunks(p) \in Nat \ {0} /\ list[p] \in Chunk(list, NumChunks(p))
<1>0. Cap \in Nat /\ Cap >= 1 /\ p \in Nat
  BY CapAssumption
<1> DEFINE i == NumChunks(p)
<1>1. i \in Nat /\ p <= i * Cap /\ \A m \in Nat : p <= m * Cap => i <= m
  BY <1>0, ChunksRoundUp
<1> HIDE DEF i
<1>2. i # 0
  BY <1>0, <1>1
<1>3. (i - 1) * Cap < p
  <2>1. SUFFICES ASSUME p <= (i - 1) * Cap PROVE FALSE
    BY <1>0, <1>1, <1>2
  <2>2. i - 1 \in Nat
    BY <1>1, <1>2
  <2> QED BY <1>1, <2>1, <2>2
<1>4. list[p] \in Chunk(list, i)
  BY <1>1, <1>2, <1>3, ChunkPlaces
<1> QED BY <1>1, <1>2, <1>4 DEF i

-----------------------------------------------------------------------------
(* The pool: the inductive invariant.                                      *)

\* The commands on their way to connection c.
Commanded(c) ==
  {inbox[c][i] : i \in DOMAIN inbox[c]}
    \cup {sending[i].cmd : i \in {j \in DOMAIN sending : sending[j].conn = c}}

\* The pool has its plan and moves assets.
Moving == op.kind \in {"empty", "remove", "add"}

\* What each operation is up to.
OpInv ==
  /\ op.kind = "idle" => op = Idle /\ sending = <<>>
  /\ op.kind = "subscribe" => op.at \in 1..(conns + 1)
  /\ op.kind = "insert" => op.at \in Spawned
  /\ op.kind = "unsubscribe" =>
       DOMAIN op.plan = Spawned /\ \A i \in DOMAIN op.plan : op.plan[i] \subseteq given
  /\ op.kind = "collect" => op.at \in 2..conns /\ sending = <<>>
  /\ Moving => Len(op.plan) < conns /\ \A i \in DOMAIN op.plan : Cardinality(op.plan[i]) <= Cap
  /\ op.kind = "empty" => op.at > Len(op.plan)
  /\ op.kind = "remove" => op.at # 0
  /\ op.kind = "add" => op.at \in DOMAIN op.plan /\ op.add \subseteq op.plan[op.at]

Sound == PoolTypeOK /\ OpInv

\* The bounds of the pool are numbers.
LEMMA SlotsType ==
  /\ MaxConns \in Nat /\ MaxConns >= 1 /\ Cap \in Nat /\ Cap >= 1 /\ Room \in Nat /\ Room >= 1
  /\ MaxOps \in Nat
BY PoolAssumption, CapAssumption

\* A part of a sequence.
LEMMA PartType ==
  ASSUME NEW S, NEW s \in Seq(S), NEW i \in Nat, i >= 1
  PROVE  SubSeq(s, i, Len(s)) \in Seq(S) /\ ToSet(SubSeq(s, i, Len(s))) \subseteq ToSet(s)
<1>1. SubSeq(s, i, Len(s)) \in Seq(S)
  OBVIOUS
<1>2. \A k \in DOMAIN SubSeq(s, i, Len(s)) :
        i + k - 1 \in DOMAIN s /\ SubSeq(s, i, Len(s))[k] = s[i + k - 1]
  OBVIOUS
<1>3. ToSet(SubSeq(s, i, Len(s))) \subseteq ToSet(s)
  <2> DEFINE t == SubSeq(s, i, Len(s))
  <2>1. \A k \in DOMAIN t : t[k] \in ToSet(s)
    <3> SUFFICES ASSUME NEW k \in DOMAIN t PROVE t[k] \in ToSet(s)
      OBVIOUS
    <3>1. i + k - 1 \in DOMAIN s /\ t[k] = s[i + k - 1]
      BY <1>2
    <3> HIDE DEF t
    <3> QED BY <3>1 DEF ToSet
  <2> HIDE DEF t
  <2>2. ToSet(t) \subseteq ToSet(s)
    BY <2>1 DEF ToSet
  <2> QED BY <2>2 DEF t
<1> QED BY <1>1, <1>3

\* The first n, and what comes after them.
LEMMA Parts ==
  ASSUME NEW S, NEW s \in Seq(S), NEW n \in 0..Len(s)
  PROVE  /\ SubSeq(s, 1, n) \in Seq(S) /\ Len(SubSeq(s, 1, n)) = n
         /\ SubSeq(s, n + 1, Len(s)) \in Seq(S)
         /\ ToSet(s) = ToSet(SubSeq(s, 1, n)) \cup ToSet(SubSeq(s, n + 1, Len(s)))
<1> DEFINE t == SubSeq(s, 1, n)
           u == SubSeq(s, n + 1, Len(s))
<1>1. t \in Seq(S) /\ u \in Seq(S) /\ Len(t) = n
  OBVIOUS
<1>2. /\ DOMAIN t = 1..n /\ DOMAIN u = 1..(Len(s) - n) /\ DOMAIN s = 1..Len(s) /\ Len(s) \in Nat
      /\ \A i \in 1..n : t[i] = s[i]
      /\ \A i \in 1..(Len(s) - n) : u[i] = s[n + i]
  OBVIOUS
<1> HIDE DEF t, u
<1>3. ASSUME NEW i \in 1..Len(s) PROVE s[i] \in ToSet(t) \cup ToSet(u)
  <2>1. CASE i <= n
    <3>1. i \in DOMAIN t /\ s[i] = t[i]
      BY <1>2, <2>1
    <3> QED BY <3>1 DEF ToSet
  <2>2. CASE ~ (i <= n)
    <3>1. i - n \in DOMAIN u /\ s[i] = u[i - n]
      BY <1>2, <2>2
    <3> QED BY <3>1 DEF ToSet
  <2> QED BY <2>1, <2>2
<1>4. ASSUME NEW i \in 1..n PROVE t[i] \in ToSet(s)
  <2>1. i \in DOMAIN s /\ t[i] = s[i]
    BY <1>2
  <2> QED BY <2>1 DEF ToSet
<1>5. ASSUME NEW i \in 1..(Len(s) - n) PROVE u[i] \in ToSet(s)
  <2>1. n + i \in DOMAIN s /\ u[i] = s[n + i]
    BY <1>2
  <2> QED BY <2>1 DEF ToSet
<1>6. ToSet(s) = ToSet(t) \cup ToSet(u)
  <2>1. ToSet(s) \subseteq ToSet(t) \cup ToSet(u)
    BY <1>2, <1>3 DEF ToSet
  <2>2. ToSet(t) \subseteq ToSet(s)
    BY <1>2, <1>4 DEF ToSet
  <2>3. ToSet(u) \subseteq ToSet(s)
    BY <1>2, <1>5 DEF ToSet
  <2> QED BY <2>1, <2>2, <2>3
<1> QED BY <1>1, <1>6 DEF t, u

\* The members of a sequence over S are in S.
LEMMA ToSetType ==
  ASSUME NEW S, NEW s \in Seq(S)
  PROVE  ToSet(s) \subseteq S
BY DEF ToSet

\* A sequence without its head.
LEMMA TailSound ==
  ASSUME NEW S, NEW s \in Seq(S), s # <<>>
  PROVE  /\ Head(s) \in S /\ Tail(s) \in Seq(S) /\ Len(Tail(s)) = Len(s) - 1 /\ Len(s) \in Nat
         /\ 1 \in DOMAIN s /\ Head(s) = s[1]
         /\ {Tail(s)[i] : i \in DOMAIN Tail(s)} \subseteq {s[i] : i \in DOMAIN s}
<1>1. /\ Head(s) \in S /\ Tail(s) \in Seq(S) /\ Len(Tail(s)) = Len(s) - 1 /\ Len(s) \in Nat
      /\ 1 \in DOMAIN s /\ Head(s) = s[1]
  OBVIOUS
<1>2. ASSUME NEW i \in DOMAIN Tail(s) PROVE i + 1 \in DOMAIN s /\ Tail(s)[i] = s[i + 1]
  BY <1>1
<1>3. {Tail(s)[i] : i \in DOMAIN Tail(s)} \subseteq {s[i] : i \in DOMAIN s}
  BY <1>2
<1> QED BY <1>1, <1>3

-----------------------------------------------------------------------------
(* The pool: types.                                                        *)

\* Lists of assets.
LEMMA TokenList ==
  ASSUME NEW ids \in SUBSET Tokens, NEW list \in SetToSeqs(ids)
  PROVE  /\ list \in Seq(Tokens) /\ Len(list) = Cardinality(ids) /\ ToSet(list) = ids
         /\ \A i, j \in 1..Len(list) : list[i] = list[j] => i = j
<1>1. IsFiniteSet(ids)
  BY TokensAssumption, FS_Subset
<1>2. list \in Seq(ids) /\ Len(list) = Cardinality(ids) /\ ToSet(list) = ids
      /\ \A i, j \in 1..Len(list) : list[i] = list[j] => i = j
  BY <1>1, ListedOnce
<1> QED BY <1>2

\* A chunk of a list of assets is a set of assets.
LEMMA TokenChunk ==
  ASSUME NEW list \in Seq(Tokens), NEW i \in Nat \ {0}
  PROVE  Chunk(list, i) \subseteq Tokens
<1>1. Chunk(list, i) \subseteq ToSet(list)
  BY ChunkPlaces
<1> QED BY <1>1, ToSetType

\* The connections a pool starts with.
LEMMA StartConns ==
  ASSUME NEW n \in Nat
  PROVE  Max({1, Min({NumChunks(n), MaxConns})}) \in Slots
<1>1. NumChunks(n) \in Nat
  BY ChunksRoundUp
<1>2. Min({NumChunks(n), MaxConns}) = IF NumChunks(n) <= MaxConns THEN NumChunks(n) ELSE MaxConns
  BY <1>1, SlotsType, MinOfTwo
<1> DEFINE k == Min({NumChunks(n), MaxConns})
<1>3. k \in Nat /\ k <= MaxConns
  BY <1>1, <1>2, SlotsType
<1> HIDE DEF k
<1>4. Max({1, k}) = IF 1 <= k THEN k ELSE 1
  BY <1>3, MaxOfTwo
<1> QED BY <1>3, <1>4, SlotsType DEF Slots, k

\* The pool starts in such a state.
LEMMA SoundInitially == PoolInit => Sound
<1> SUFFICES ASSUME PoolInit PROVE Sound
  OBVIOUS
<1>1. PICK first \in SUBSET Tokens : \E list \in SetToSeqs(first) : Start(list)
  BY DEF PoolInit
<1>2. PICK list \in SetToSeqs(first) : Start(list)
  BY <1>1
<1>3. list \in Seq(Tokens) /\ ToSet(list) = first /\ Len(list) \in Nat
  BY TokenList
<1>4. conns \in Slots
  BY <1>2, <1>3, StartConns DEF Start
<1>5. tracked = [c \in Slots |-> IF c <= conns THEN Chunk(list, c) ELSE {}]
      /\ wanted = first /\ refused \subseteq first
  BY <1>2, <1>3 DEF Start
<1>6. \A c \in Slots : Chunk(list, c) \subseteq Tokens
  BY <1>3, TokenChunk DEF Slots
<1>7. tracked \in [Slots -> SUBSET Tokens]
  BY <1>5, <1>6
<1>8. \A c \in Slots \ Spawned : tracked[c] = {} /\ inbox[c] = <<>> /\ link[c] = "down"
  BY <1>4, <1>5 DEF PoolInit, Slots, Spawned
<1>9. op \in Operations
  BY DEF PoolInit, Idle, Operations
<1>10. PoolTypeOK
  <2>1. /\ inbox \in [Slots -> Seq(Commands)] /\ \A c \in Slots : Len(inbox[c]) <= Room
        /\ sending \in Seq([conn : Spawned, cmd : Commands]) /\ Len(sending) <= 1
    BY SlotsType DEF PoolInit
  <2>4. running \in BOOLEAN /\ disturbed \in BOOLEAN
    BY Zenon DEF PoolInit
  <2>5. ops \in 0..MaxOps
    BY SlotsType DEF PoolInit
  <2>2. /\ served \in [Slots -> SUBSET Tokens] /\ link \in [Slots -> {"down", "up", "lost", "ended"}]
        /\ given \subseteq Tokens
        /\ retired \in [Slots -> SUBSET Tokens] /\ lost \in [Slots -> SUBSET Tokens]
    BY DEF PoolInit
  <2>3. wanted \subseteq Tokens /\ refused \subseteq Tokens
    BY <1>5
  <2> QED BY <2>1, <2>2, <2>3, <2>4, <2>5, <1>4, <1>7, <1>8, <1>9 DEF PoolTypeOK
<1>11. OpInv
  BY DEF OpInv, PoolInit, Idle, Moving
<1> QED BY <1>10, <1>11 DEF Sound

\* Steps that leave the caller alone, and what the connections track.
LEMMA SoundLinks ==
  ASSUME Sound,
         UNCHANGED <<conns, op, sending, given, wanted, refused, retired>>,
         tracked' \in [Slots -> SUBSET Tokens], served' \in [Slots -> SUBSET Tokens],
         inbox' \in [Slots -> Seq(Commands)], \A c \in Slots : Len(inbox'[c]) <= Room,
         link' \in [Slots -> {"down", "up", "lost", "ended"}],
         lost' \in [Slots -> SUBSET Tokens], ops' \in 0..MaxOps,
         running' \in BOOLEAN, disturbed' \in BOOLEAN,
         \A c \in Slots \ Spawned : tracked'[c] = {} /\ inbox'[c] = <<>> /\ link'[c] = "down"
  PROVE  Sound'
<1>1. Spawned' = Spawned
  BY DEF Spawned
<1>2. PoolTypeOK'
  BY <1>1 DEF Sound, PoolTypeOK
<1>3. OpInv'
  BY <1>1 DEF Sound, OpInv, Moving
<1> QED BY <1>2, <1>3 DEF Sound

\* A command of the pool.
LEMMA CommandType ==
  ASSUME NEW ids \in SUBSET Tokens
  PROVE  Command("Subscribe", ids) \in Commands /\ Command("Unsubscribe", ids) \in Commands
BY DEF Command, Commands

\* What a command does to a set.
LEMMA ApplyType ==
  ASSUME NEW s \in SUBSET Tokens, NEW cmd \in Commands
  PROVE  Apply(s, cmd) \in SUBSET Tokens /\ cmd.ids \in SUBSET Tokens
         /\ cmd.kind \in {"Subscribe", "Unsubscribe"}
BY DEF Apply, Commands

\* The tasks.
LEMMA SoundTasks ==
  ASSUME Sound, NEW c \in Spawned,
         Task(c) \/ JoinFails(c) \/ ReceiveFails(c) \/ Lose(c)
  PROVE  Sound'
<1>0. /\ c \in Slots /\ tracked \in [Slots -> SUBSET Tokens] /\ served \in [Slots -> SUBSET Tokens]
      /\ inbox \in [Slots -> Seq(Commands)] /\ (\A d \in Slots : Len(inbox[d]) <= Room)
      /\ link \in [Slots -> {"down", "up", "lost", "ended"}]
      /\ lost \in [Slots -> SUBSET Tokens] /\ ops \in 0..MaxOps
      /\ running \in BOOLEAN /\ disturbed \in BOOLEAN
      /\ \A d \in Slots \ Spawned : tracked[d] = {} /\ inbox[d] = <<>> /\ link[d] = "down"
  <2>1. c \in Slots
    BY SlotsType DEF Sound, PoolTypeOK, Slots, Spawned
  <2> QED BY <2>1 DEF Sound, PoolTypeOK
<1>1. CASE Join(c) \/ JoinFails(c) \/ Lose(c) \/ Retry(c) \/ End(c)
  <2>1. UNCHANGED <<conns, running, op, sending, ops, given, wanted, refused, retired, tracked, inbox, disturbed>>
    BY <1>1 DEF Join, JoinFails, Lose, Retry, End, connVars, taskVars, caller
  <2>2. /\ link' \in [Slots -> {"down", "up", "lost", "ended"}]
        /\ served' \in [Slots -> SUBSET Tokens] /\ lost' \in [Slots -> SUBSET Tokens]
        /\ \A d \in Slots \ Spawned : link'[d] = link[d]
    BY <1>0, <1>1 DEF Join, JoinFails, Lose, Retry, End
  <2> QED BY <1>0, <2>1, <2>2, SoundLinks
<1>2. CASE Receive(c) \/ ReceiveFails(c) \/ DrainNext(c)
  <2>1. UNCHANGED <<conns, running, op, sending, ops, given, wanted, refused, retired, lost>>
    BY <1>2 DEF Receive, ReceiveFails, DrainNext, connVars, taskVars, caller
  <2>2. inbox[c] \in Seq(Commands) /\ inbox[c] # <<>> /\ Len(inbox[c]) <= Room
        /\ inbox' = [inbox EXCEPT ![c] = Tail(@)]
    BY <1>0, <1>2 DEF Receive, ReceiveFails, DrainNext
  <2>3. Head(inbox[c]) \in Commands /\ Tail(inbox[c]) \in Seq(Commands)
        /\ Len(Tail(inbox[c])) <= Room
    BY <2>2, TailSound, SlotsType
  <2>4. /\ inbox' \in [Slots -> Seq(Commands)] /\ \A d \in Slots : Len(inbox'[d]) <= Room
        /\ \A d \in Slots \ Spawned : inbox'[d] = inbox[d]
    BY <1>0, <2>2, <2>3
  <2>5. /\ Apply(tracked[c], Head(inbox[c])) \in SUBSET Tokens
        /\ Apply(served[c], Head(inbox[c])) \in SUBSET Tokens
    BY <1>0, <2>3, ApplyType
  <2>6. /\ link' \in [Slots -> {"down", "up", "lost", "ended"}]
        /\ served' \in [Slots -> SUBSET Tokens] /\ tracked' \in [Slots -> SUBSET Tokens]
        /\ \A d \in Slots \ Spawned : link'[d] = link[d] /\ tracked'[d] = tracked[d]
    BY <1>0, <1>2, <2>5 DEF Receive, ReceiveFails, DrainNext
  <2>7. disturbed' \in BOOLEAN
    BY <1>0, <1>2 DEF Receive, ReceiveFails, DrainNext, taskVars
  <2> QED BY <1>0, <2>1, <2>4, <2>6, <2>7, SoundLinks
<1> QED BY <1>1, <1>2 DEF Task

\* Steps of the caller: what is left to show of the types.
LEMMA CallerTypes ==
  ASSUME Sound, UNCHANGED <<inbox, link, served, lost, disturbed>>,
         running' \in BOOLEAN, ops' \in 0..MaxOps, conns' \in Slots, conns <= conns',
         op' \in Operations,
         sending' \in Seq([conn : 1..conns', cmd : Commands]), Len(sending') <= 1,
         tracked' \in [Slots -> SUBSET Tokens], \A c \in Slots \ (1..conns') : tracked'[c] = {},
         wanted' \subseteq Tokens, given' \subseteq Tokens, refused' \subseteq Tokens,
         retired' \in [Slots -> SUBSET Tokens]
  PROVE  PoolTypeOK'
<1>1. Slots \ (1..conns') \subseteq Slots \ Spawned
  BY SlotsType DEF Sound, PoolTypeOK, Slots, Spawned
<1>2. Spawned' = 1..conns'
  BY DEF Spawned
<1> QED BY <1>1, <1>2 DEF Sound, PoolTypeOK

Kinds == {"idle", "subscribe", "insert", "unsubscribe", "collect", "empty", "remove", "add"}

\* The parts of an operation.
LEMMA OperationType ==
  ASSUME NEW o \in Operations
  PROVE  /\ o.kind \in Kinds /\ o.list \in Seq(Tokens) /\ o.at \in Nat
         /\ o.plan \in Seq(SUBSET Tokens) /\ o.add \in SUBSET Tokens
BY DEF Operations, Kinds

\* No operation.
LEMMA IdleType == Idle \in Operations /\ Idle.kind = "idle" /\ Idle.at = 1
<1>1. <<>> \in Seq(Tokens) /\ <<>> \in Seq(SUBSET Tokens)
  OBVIOUS
<1> QED BY <1>1 DEF Idle, Operations

\* The caller between two operations.
LEMMA CallerFacts ==
  ASSUME Sound
  PROVE  /\ conns \in Nat /\ conns >= 1 /\ conns <= MaxConns /\ conns \in Slots
         /\ Spawned \subseteq Slots /\ (\A c \in Spawned : c \in Nat \ {0})
         /\ tracked \in [Slots -> SUBSET Tokens] /\ inbox \in [Slots -> Seq(Commands)]
         /\ (\A c \in Slots \ Spawned : tracked[c] = {} /\ inbox[c] = <<>>)
         /\ op \in Operations
         /\ sending \in Seq([conn : Spawned, cmd : Commands]) /\ Len(sending) <= 1
         /\ wanted \subseteq Tokens /\ given \subseteq Tokens /\ refused \subseteq Tokens
         /\ retired \in [Slots -> SUBSET Tokens] /\ ops \in 0..MaxOps
         /\ running \in BOOLEAN
<1>1. /\ conns \in Slots
      /\ tracked \in [Slots -> SUBSET Tokens] /\ inbox \in [Slots -> Seq(Commands)]
      /\ (\A c \in Slots \ Spawned : tracked[c] = {} /\ inbox[c] = <<>>)
      /\ op \in Operations
      /\ sending \in Seq([conn : Spawned, cmd : Commands]) /\ Len(sending) <= 1
      /\ wanted \subseteq Tokens /\ given \subseteq Tokens /\ refused \subseteq Tokens
      /\ retired \in [Slots -> SUBSET Tokens] /\ ops \in 0..MaxOps
      /\ running \in BOOLEAN
  BY DEF Sound, PoolTypeOK
<1>2. conns \in Nat /\ conns >= 1 /\ conns <= MaxConns
  BY <1>1, SlotsType DEF Slots
<1>3. Spawned \subseteq Slots /\ (\A c \in Spawned : c \in Nat \ {0})
  BY <1>2, SlotsType DEF Slots, Spawned
<1> QED BY <1>1, <1>2, <1>3

\* Beginning a subscription or an end of one.
LEMMA SoundBegins ==
  ASSUME Sound, NEW ids \in SUBSET Tokens, BeginSubscribe(ids) \/ BeginUnsubscribe(ids)
  PROVE  Sound'
<1>1. Begin /\ op = Idle /\ sending = <<>> /\ ops' \in 0..MaxOps
  <2>1. Begin
    BY DEF BeginSubscribe, BeginUnsubscribe
  <2>2. ops \in 0..MaxOps /\ MaxOps \in Nat
    BY CallerFacts, SlotsType
  <2> QED BY <2>1, <2>2 DEF Begin
<1>2. CASE BeginSubscribe(ids)
  <2>1. PICK list \in SetToSeqs(ids) : op' = [Idle EXCEPT !.kind = "subscribe", !.list = list]
    BY <1>2 DEF BeginSubscribe
  <2>2. list \in Seq(Tokens)
    BY TokenList
  <2>3. op' \in Operations
    BY <2>1, <2>2, IdleType DEF Operations
  <2>4. /\ UNCHANGED <<conns, tracked, inbox, link, served, running, sending, given, refused,
                       retired, lost, disturbed>>
        /\ wanted' = wanted \cup ids
    BY <1>2 DEF BeginSubscribe
  <2>5. PoolTypeOK'
    BY <1>1, <2>3, <2>4, CallerFacts, CallerTypes DEF Spawned
  <2>6. op'.kind = "subscribe" /\ op'.at = 1
    BY <2>1 DEF Idle
  <2>7. OpInv'
    BY <2>4, <2>6, CallerFacts DEF OpInv, Moving
  <2> QED BY <2>5, <2>7 DEF Sound
<1>3. CASE BeginUnsubscribe(ids)
  <2> DEFINE plan == [c \in Spawned |-> ids \cap tracked[c]]
  <2>1. op' = [Idle EXCEPT !.kind = "unsubscribe", !.plan = plan]
    BY <1>3 DEF BeginUnsubscribe
  <2>2. plan \in Seq(SUBSET Tokens) /\ DOMAIN plan = Spawned
    <3>1. \A c \in 1..conns : ids \cap tracked[c] \in SUBSET Tokens
      OBVIOUS
    <3> QED BY <3>1, CallerFacts DEF Spawned
  <2>3. op' \in Operations
    BY <2>1, <2>2, IdleType DEF Operations
  <2>4. /\ UNCHANGED <<conns, tracked, inbox, link, served, running, sending, wanted, refused,
                       retired, lost, disturbed>>
        /\ given' = given \cup ids
    BY <1>3 DEF BeginUnsubscribe
  <2>5. PoolTypeOK'
    BY <1>1, <2>3, <2>4, CallerFacts, CallerTypes DEF Spawned
  <2>6. op'.kind = "unsubscribe" /\ op'.plan = plan
    BY <2>1 DEF Idle
  <2>7. OpInv'
    <3>1. DOMAIN op'.plan = Spawned' /\ \A i \in DOMAIN op'.plan : op'.plan[i] \subseteq given'
      BY <2>2, <2>4, <2>6 DEF Spawned
    <3> QED BY <2>6, <3>1 DEF OpInv, Moving
  <2> QED BY <2>5, <2>7 DEF Sound
<1> QED BY <1>2, <1>3

\* A command with its connection.
LEMMA SendingType ==
  ASSUME NEW n \in Nat, NEW c \in 1..n, NEW cmd \in Commands
  PROVE  /\ <<[conn |-> c, cmd |-> cmd]>> \in Seq([conn : 1..n, cmd : Commands])
         /\ Len(<<[conn |-> c, cmd |-> cmd]>>) <= 1
OBVIOUS

\* Putting assets on a connection, or taking them off, and what is unchanged.
LEMMA PutTakeTypes ==
  ASSUME Sound, NEW c \in Spawned, NEW ids \in SUBSET Tokens,
         (Put(c, ids) /\ retired' = retired) \/ Take(c, ids)
  PROVE  /\ tracked' \in [Slots -> SUBSET Tokens] /\ retired' \in [Slots -> SUBSET Tokens]
         /\ \A d \in Slots \ Spawned : tracked'[d] = {}
         /\ sending' \in Seq([conn : Spawned, cmd : Commands]) /\ Len(sending') <= 1
<1>1. c \in Slots /\ c \in 1..conns /\ conns \in Nat
  BY CallerFacts DEF Spawned
<1>2. tracked' \in [Slots -> SUBSET Tokens] /\ retired' \in [Slots -> SUBSET Tokens]
      /\ \A d \in Slots \ Spawned : tracked'[d] = tracked[d]
  <2>1. /\ tracked \in [Slots -> SUBSET Tokens] /\ retired \in [Slots -> SUBSET Tokens]
        /\ c \in Spawned
    BY CallerFacts
  <2>2. CASE Put(c, ids) /\ retired' = retired
    BY <1>1, <2>1, <2>2 DEF Put
  <2>3. CASE Take(c, ids)
    BY <1>1, <2>1, <2>3 DEF Take
  <2> QED BY <2>2, <2>3
<1>3. sending' \in Seq([conn : 1..conns, cmd : Commands]) /\ Len(sending') <= 1
  BY <1>1, CommandType, SendingType DEF Put, Take
<1> QED BY <1>2, <1>3, CallerFacts DEF Spawned

\* An operation ends.
LEMMA SoundEnds ==
  ASSUME Sound, op' = Idle, sending = <<>>,
         UNCHANGED <<conns, tracked, inbox, link, served, running, sending, ops,
                     wanted, given, retired, lost, disturbed>>,
         refused' \subseteq Tokens
  PROVE  Sound'
<1>1. PoolTypeOK'
  BY IdleType, CallerFacts, CallerTypes DEF Spawned
<1>2. OpInv'
  BY DEF OpInv, Moving, Idle
<1> QED BY <1>1, <1>2 DEF Sound

\* What does not fit anywhere else.
LEMMA SubSequence ==
  ASSUME NEW list \in Seq(Tokens), NEW n \in Nat
  PROVE  SubSeq(list, n + 1, Len(list)) \in Seq(Tokens)
OBVIOUS

\* The number of assets that fit on a connection.
LEMMA FreeType ==
  ASSUME NEW s \in SUBSET Tokens, NEW len \in Nat
  PROVE  LET free == IF Cardinality(s) < Cap THEN Cap - Cardinality(s) ELSE 0
         IN /\ Cardinality(s) \in Nat /\ free \in Nat
            /\ Min({free, len}) \in 0..len
            /\ Cardinality(s) <= Cap => Cardinality(s) + Min({free, len}) <= Cap
<1> DEFINE free == IF Cardinality(s) < Cap THEN Cap - Cardinality(s) ELSE 0
<1>1. Cardinality(s) \in Nat
  BY TokensAssumption, FS_Subset, FS_CardinalityType
<1>2. free \in Nat /\ (Cardinality(s) <= Cap => Cardinality(s) + free = Cap)
  BY <1>1, SlotsType
<1>3. Min({free, len}) = IF free <= len THEN free ELSE len
  <2> HIDE DEF free
  <2> QED BY <1>2, MinOfTwo
<1> HIDE DEF free
<1> QED BY <1>1, <1>2, <1>3, SlotsType DEF free

\* What one step of a subscription means for connection op.at.
LEMMA SubscribeNextIs ==
  ASSUME Sound, SubscribeNext
  PROVE  \E n \in 0..Len(op.list) :
           /\ op.at \in Spawned /\ op.kind = "subscribe" /\ sending = <<>>
           /\ Cardinality(tracked[op.at]) \in Nat
           /\ Cardinality(tracked[op.at]) <= Cap => Cardinality(tracked[op.at]) + n <= Cap
           /\ op' = IF n = 0 THEN [op EXCEPT !.at = op.at + 1]
                    ELSE [op EXCEPT !.kind = "insert", !.add = ToSet(SubSeq(op.list, 1, n)),
                                    !.list = SubSeq(op.list, n + 1, Len(op.list))]
           /\ UNCHANGED <<conns, tracked, inbox, link, served, running, sending, ops, history>>
<1>1. op.kind = "subscribe" /\ sending = <<>> /\ op.at <= conns /\ op.at \in 1..(conns + 1)
  BY DEF SubscribeNext, Sound, OpInv
<1>2. op.at \in Spawned /\ op.at \in Slots
  BY <1>1, CallerFacts DEF Spawned
<1>3. op.list \in Seq(Tokens) /\ Len(op.list) \in Nat
  BY CallerFacts, OperationType
<1>4. tracked[op.at] \in SUBSET Tokens
  BY <1>2, CallerFacts
<1> DEFINE free == IF Cardinality(tracked[op.at]) < Cap THEN Cap - Cardinality(tracked[op.at]) ELSE 0
           n == Min({free, Len(op.list)})
<1>5. /\ Cardinality(tracked[op.at]) \in Nat /\ n \in 0..Len(op.list)
      /\ Cardinality(tracked[op.at]) <= Cap => Cardinality(tracked[op.at]) + n <= Cap
  BY <1>3, <1>4, FreeType
<1>6. /\ op' = IF n = 0 THEN [op EXCEPT !.at = op.at + 1]
                ELSE [op EXCEPT !.kind = "insert", !.add = ToSet(SubSeq(op.list, 1, n)),
                                !.list = SubSeq(op.list, n + 1, Len(op.list))]
      /\ UNCHANGED <<conns, tracked, inbox, link, served, running, sending, ops, history>>
  BY DEF SubscribeNext
<1> HIDE DEF n
<1> QED BY <1>1, <1>2, <1>5, <1>6

\* Phase 1 of a subscription: the count,
LEMMA SoundSubscribe == ASSUME Sound, SubscribeNext PROVE Sound'
<1>1. PICK n \in 0..Len(op.list) :
           /\ op.at \in Spawned /\ op.kind = "subscribe" /\ sending = <<>>
           /\ op' = IF n = 0 THEN [op EXCEPT !.at = op.at + 1]
                    ELSE [op EXCEPT !.kind = "insert", !.add = ToSet(SubSeq(op.list, 1, n)),
                                    !.list = SubSeq(op.list, n + 1, Len(op.list))]
           /\ UNCHANGED <<conns, tracked, inbox, link, served, running, sending, ops, history>>
  BY SubscribeNextIs
<1>2. op.list \in Seq(Tokens) /\ op.at \in Nat /\ op.at <= conns
  BY <1>1, CallerFacts, OperationType DEF Spawned
<1> DEFINE first == ToSet(SubSeq(op.list, 1, n))
           rest == SubSeq(op.list, n + 1, Len(op.list))
<1>3. rest \in Seq(Tokens) /\ first \in SUBSET Tokens
  BY <1>2, Parts, ToSetType
<1>4. op \in Operations /\ op.at + 1 \in Nat
  BY <1>2, CallerFacts
<1>5. op' = IF n = 0 THEN [op EXCEPT !.at = op.at + 1]
            ELSE [op EXCEPT !.kind = "insert", !.add = first, !.list = rest]
  BY <1>1
<1> HIDE DEF first, rest
<1>6. /\ op' \in Operations
      /\ \/ op'.kind = "subscribe" /\ op'.at = op.at + 1
         \/ op'.kind = "insert" /\ op'.at = op.at
  <2>1. CASE n = 0
    BY <1>1, <1>4, <1>5, <2>1 DEF Operations
  <2>2. CASE n # 0
    BY <1>3, <1>4, <1>5, <2>2 DEF Operations
  <2> QED BY <2>1, <2>2
<1>7. UNCHANGED <<conns, tracked, inbox, link, served, running, sending, ops, wanted, given, refused,
                  retired, lost, disturbed>>
  BY <1>1 DEF history
<1>8. PoolTypeOK'
  BY <1>6, <1>7, CallerFacts, CallerTypes DEF Spawned
<1>9. OpInv'
  <2>1. op.at \in 1..conns /\ op.at + 1 \in 1..(conns' + 1) /\ Spawned' = Spawned
    BY <1>1, <1>2, <1>7, CallerFacts DEF Spawned
  <2> QED BY <1>1, <1>6, <2>1 DEF OpInv, Moving
<1> QED BY <1>8, <1>9 DEF Sound

\* and the insertion.
LEMMA SoundInsert == ASSUME Sound, InsertNext PROVE Sound'
<1>1. /\ op.kind = "insert" /\ sending = <<>> /\ Put(op.at, op.add)
      /\ op' = [op EXCEPT !.kind = "subscribe", !.at = op.at + 1, !.add = {}]
      /\ UNCHANGED <<conns, inbox, link, served, running, ops, wanted, given, refused, retired, lost,
                     disturbed>>
  BY DEF InsertNext, history
<1>2. op.at \in Spawned /\ op.at \in 1..conns /\ conns \in Nat /\ op.add \in SUBSET Tokens
      /\ op \in Operations
  BY <1>1, CallerFacts, OperationType DEF Sound, OpInv, Spawned
<1>3. op' \in Operations /\ op'.kind = "subscribe" /\ op'.at = op.at + 1
  <2>1. op.at + 1 \in Nat
    BY <1>2
  <2> QED BY <1>1, <1>2, <2>1 DEF Operations
<1>4. /\ tracked' \in [Slots -> SUBSET Tokens] /\ retired' \in [Slots -> SUBSET Tokens]
      /\ \A d \in Slots \ Spawned : tracked'[d] = {}
      /\ sending' \in Seq([conn : Spawned, cmd : Commands]) /\ Len(sending') <= 1
  BY <1>1, <1>2, PutTakeTypes
<1>5. PoolTypeOK'
  BY <1>1, <1>3, <1>4, CallerFacts, CallerTypes DEF Spawned
<1>6. OpInv'
  <2>1. op'.at \in 1..(conns' + 1)
    BY <1>1, <1>2, <1>3
  <2> QED BY <1>3, <2>1 DEF OpInv, Moving
<1> QED BY <1>5, <1>6 DEF Sound

\* Phase 2 of it.
LEMMA SoundSpawn == ASSUME Sound, SpawnNext PROVE Sound'
<1>1. op.kind = "subscribe" /\ sending = <<>> /\ op.at > conns /\ op.at \in 1..(conns + 1)
  BY DEF SpawnNext, Sound, OpInv
<1>2. op.list \in Seq(Tokens) /\ ToSet(op.list) \subseteq Tokens /\ op.at = conns + 1
  BY <1>1, CallerFacts, OperationType, ToSetType
<1>3. CASE op.list # <<>> /\ conns < MaxConns
  <2>1. /\ conns' = conns + 1
        /\ tracked' = [tracked EXCEPT ![conns + 1] = Chunk(op.list, 1)]
        /\ op' = [op EXCEPT !.at = op.at + 1, !.list = SubSeq(op.list, Cap + 1, Len(op.list))]
        /\ UNCHANGED <<inbox, link, served, running, sending, ops, wanted, given, refused, retired,
                       lost, disturbed>>
    BY <1>3 DEF SpawnNext
  <2>2. conns + 1 \in Slots /\ conns + 1 \in Nat
    BY <1>3, CallerFacts, SlotsType DEF Slots
  <2>3. SubSeq(op.list, Cap + 1, Len(op.list)) \in Seq(Tokens) /\ Chunk(op.list, 1) \subseteq Tokens
    BY <1>2, SlotsType, SubSequence, TokenChunk
  <2>4. op' \in Operations /\ op'.kind = "subscribe" /\ op'.at = conns + 2
    <3> DEFINE rest == SubSeq(op.list, Cap + 1, Len(op.list))
    <3>1. op \in Operations /\ op.at + 1 \in Nat /\ op.at + 1 = conns + 2
      BY <1>2, <2>2, CallerFacts
    <3>2. op' = [op EXCEPT !.at = op.at + 1, !.list = rest] /\ rest \in Seq(Tokens)
      BY <2>1, <2>3
    <3> HIDE DEF rest
    <3> QED BY <1>1, <3>1, <3>2 DEF Operations
  <2>5. tracked' \in [Slots -> SUBSET Tokens]
        /\ \A d \in Slots \ (1..conns') : tracked'[d] = {}
    <3>1. tracked' \in [Slots -> SUBSET Tokens]
          /\ \A d \in Slots : d # conns + 1 => tracked'[d] = tracked[d]
      BY <2>1, <2>2, <2>3, CallerFacts
    <3>2. ASSUME NEW d \in Slots \ (1..conns') PROVE d # conns + 1 /\ d \in Slots \ Spawned
      BY <2>1, <2>2, CallerFacts DEF Spawned, Slots
    <3> QED BY <3>1, <3>2, CallerFacts
  <2>6. sending' = <<>> /\ sending' \in Seq([conn : 1..conns', cmd : Commands]) /\ Len(sending') <= 1
    BY <1>1, <2>1
  <2>7. PoolTypeOK'
    BY <2>1, <2>2, <2>4, <2>5, <2>6, CallerFacts, CallerTypes
  <2>9. OpInv'
    BY <2>1, <2>2, <2>4, CallerFacts DEF OpInv, Moving
  <2> QED BY <2>7, <2>9 DEF Sound
<1>4. CASE ~ (op.list # <<>> /\ conns < MaxConns)
  <2>1. /\ op' = Idle /\ refused' = refused \cup ToSet(op.list)
        /\ UNCHANGED <<conns, tracked, inbox, link, served, running, sending, ops, wanted, given,
                       retired, lost, disturbed>>
    BY <1>4 DEF SpawnNext
  <2>2. refused' \subseteq Tokens
    BY <2>1, <1>2, CallerFacts
  <2> QED BY <2>1, <2>2, <1>1, SoundEnds
<1> QED BY <1>3, <1>4

\* Nothing was left to subscribe.
LEMMA SoundDone == ASSUME Sound, SubscribeDone PROVE Sound'
<1>1. /\ op' = Idle /\ sending = <<>>
      /\ UNCHANGED <<conns, tracked, inbox, link, served, running, sending, ops,
                     wanted, given, refused, retired, lost, disturbed>>
  BY DEF SubscribeDone, history
<1>2. refused' \subseteq Tokens
  BY <1>1, CallerFacts
<1> QED BY <1>1, <1>2, SoundEnds

-----------------------------------------------------------------------------
(* The pool: what a consolidation collects.                                *)

\* The number of assets each connection tracks.
Sizes == [c \in Slots |-> Cardinality(tracked[c])]

\* They are numbers.
LEMMA SizesType ==
  ASSUME Sound
  PROVE  /\ \A c \in Slots : Sizes[c] = Cardinality(tracked[c]) /\ Sizes[c] \in Nat
                             /\ IsFiniteSet(tracked[c])
         /\ Total = SumFunctionOnSet(Sizes, Spawned) /\ Total \in Nat
<1>1. \A c \in Slots : Sizes[c] = Cardinality(tracked[c]) /\ Sizes[c] \in Nat
                       /\ IsFiniteSet(tracked[c])
  <2> SUFFICES ASSUME NEW c \in Slots
               PROVE  Sizes[c] = Cardinality(tracked[c]) /\ Sizes[c] \in Nat
                      /\ IsFiniteSet(tracked[c])
    OBVIOUS
  <2>1. tracked[c] \in SUBSET Tokens
    BY CallerFacts
  <2> QED BY <2>1, TokensAssumption, FS_Subset, FS_CardinalityType DEF Sizes
<1>2. Total = SumFunctionOnSet(Sizes, Spawned)
  BY DEF Total, Sizes
<1>3. IsFiniteSet(Spawned) /\ \A c \in Spawned : Sizes[c] \in Nat
  <2>1. \A c \in Spawned : Sizes[c] \in Nat
    BY <1>1, CallerFacts
  <2>2. 1 \in Int /\ conns \in Int
    BY CallerFacts
  <2>3. IsFiniteSet(1..conns)
    BY <2>2, FS_Interval
  <2> QED BY <2>1, <2>3 DEF Spawned
<1> QED BY <1>1, <1>2, <1>3, SumNat

\* The list of all that is tracked, connection by connection.
LEMMA CollectedList ==
  ASSUME Sound, NEW order \in Collected
  PROVE  /\ FlattenSeq(order) \in Seq(Tokens) /\ Len(FlattenSeq(order)) = Total
         /\ ToSet(FlattenSeq(order)) = UNION {tracked[c] : c \in Spawned}
         /\ \A c \in Spawned : \A a \in tracked[c] :
              \E p \in 1..Len(FlattenSeq(order)) :
                /\ FlattenSeq(order)[p] = a
                /\ p <= SumFunctionOnSet(Sizes, 1..c)
<1> DEFINE list == FlattenSeq(order)
<1>1. ASSUME NEW c \in Spawned
      PROVE  /\ order[c] \in Seq(Tokens) /\ Len(order[c]) = Sizes[c] /\ Sizes[c] \in Nat
             /\ ToSet(order[c]) = tracked[c]
  <2>1. c \in Slots /\ tracked[c] \in SUBSET Tokens /\ order[c] \in SetToSeqs(tracked[c])
    BY CallerFacts DEF Collected
  <2>2. Sizes[c] = Cardinality(tracked[c]) /\ Sizes[c] \in Nat
    BY <2>1, SizesType
  <2> QED BY <2>1, <2>2, TokenList
<1>2. order \in Seq(Seq(Tokens)) /\ DOMAIN order = 1..conns /\ Len(order) = conns /\ conns \in Nat
  <2>1. DOMAIN order = Spawned /\ order = [c \in Spawned |-> order[c]]
    BY DEF Collected
  <2>2. order \in [1..conns -> Seq(Tokens)]
    BY <1>1, <2>1 DEF Spawned
  <2>3. conns \in Nat
    BY CallerFacts
  <2>4. order \in Seq(Seq(Tokens))
    BY <2>2, <2>3
  <2>5. DOMAIN order = 1..conns
    BY <2>2
  <2>6. Len(order) = conns
    BY <2>3, <2>4, <2>5
  <2> QED BY <2>3, <2>4, <2>5, <2>6
<1>3. list \in Seq(Tokens) /\ ToSet(list) = UNION {ToSet(order[k]) : k \in DOMAIN order}
  BY <1>2, FlattenMembers
<1>4. ToSet(list) = UNION {tracked[c] : c \in Spawned}
  BY <1>1, <1>2, <1>3 DEF Spawned
<1>5. \A k \in 1..Len(order) : Sizes[k] = Len(order[k])
  BY <1>1, <1>2 DEF Spawned
<1>6. /\ Len(list) = SumFunctionOnSet(Sizes, 1..Len(order))
      /\ \A k \in 1..Len(order) : \A j \in 1..Len(order[k]) :
           list[SumFunctionOnSet(Sizes, 1..(k - 1)) + j] = order[k][j]
  <2> DEFINE lens == Sizes
  <2>1. \A k \in 1..Len(order) : lens[k] = Len(order[k])
    BY <1>5
  <2> HIDE DEF lens
  <2>2. InTurn(order, lens, Len(order), list)
    BY <1>2, <2>1, FlattenPositions
  <2> QED BY <2>2 DEF lens, InTurn
<1>7. Len(list) = Total
  BY <1>2, <1>6, SizesType DEF Spawned
<1> HIDE DEF list
<1>8. ASSUME NEW c \in Spawned, NEW a \in tracked[c]
      PROVE  \E p \in 1..Len(list) : list[p] = a /\ p <= SumFunctionOnSet(Sizes, 1..c)
  <2>1. order[c] \in Seq(Tokens) /\ a \in ToSet(order[c])
    BY <1>1
  <2>2. PICK j \in 1..Len(order[c]) : order[c][j] = a
    BY <2>1 DEF ToSet
  <2> DEFINE before == SumFunctionOnSet(Sizes, 1..(c - 1))
             upto == SumFunctionOnSet(Sizes, 1..c)
  <2>3. c \in 1..conns /\ c \in Nat /\ c # 0 /\ c - 1 \in Nat
    BY CallerFacts DEF Spawned
  <2>4. \A i \in 1..conns : Sizes[i] \in Nat
    BY <1>1 DEF Spawned
  <2>5. upto = before + Sizes[c]
    <3>1. \A i \in 1..c : Sizes[i] \in Int
      BY <2>3, <2>4, <1>2
    <3> QED BY <2>3, <3>1, SumUpTo
  <2>6. before \in Nat
    <3>1. \A i \in 1..(c - 1) : Sizes[i] \in Nat
      BY <2>3, <2>4, <1>2
    <3>2. 1 \in Int /\ c - 1 \in Int
      BY <2>3
    <3>3. IsFiniteSet(1..(c - 1))
      BY <3>2, FS_Interval
    <3> QED BY <3>1, <3>3, SumNat
  <2>7. upto <= Len(list)
    <3>1. c \in 0..conns
      BY <2>3, <1>2
    <3>2. upto <= SumFunctionOnSet(Sizes, 1..conns)
      BY <3>1, <2>4, <1>2, SumFurther
    <3> QED BY <3>2, <1>2, <1>6
  <2>8. list[before + j] = a
    BY <1>6, <1>2, <2>2, <2>3
  <2> HIDE DEF before, upto
  <2>9. Len(order[c]) = Sizes[c] /\ Sizes[c] \in Nat /\ Len(list) \in Nat
    BY <1>1, <1>3 DEF list
  <2>10. before + j \in 1..Len(list) /\ before + j <= upto
    BY <2>5, <2>6, <2>7, <2>9, <2>2
  <2> QED BY <2>8, <2>10 DEF upto
<1> QED BY <1>3, <1>4, <1>7, <1>8 DEF list

\* The plan that is made of it.
LEMMA CollectIs ==
  ASSUME Sound, CollectNext
  PROVE  \E order \in Collected, n \in Nat :
           /\ op.kind = "collect" /\ sending = <<>>
           /\ n = (IF op.at - 1 <= NumChunks(Total) THEN op.at - 1 ELSE NumChunks(Total))
           /\ op' = [op EXCEPT !.kind = "empty",
                               !.plan = [i \in 1..n |-> Chunk(FlattenSeq(order), i)]]
           /\ UNCHANGED <<conns, tracked, inbox, link, served, running, sending, ops, history>>
<1>1. PICK order \in Collected :
        op' = [op EXCEPT !.kind = "empty",
                 !.plan = [i \in 1..Min({op.at - 1, NumChunks(Len(FlattenSeq(order)))}) |->
                             Chunk(FlattenSeq(order), i)]]
  BY DEF CollectNext
<1>2. Len(FlattenSeq(order)) = Total /\ Total \in Nat /\ NumChunks(Total) \in Nat
  BY CollectedList, SizesType, ChunksRoundUp
<1>3. op.kind = "collect" /\ sending = <<>> /\ op.at \in 2..conns /\ op.at - 1 \in Nat
      /\ UNCHANGED <<conns, tracked, inbox, link, served, running, sending, ops, history>>
  BY CallerFacts DEF CollectNext, Sound, OpInv
<1> DEFINE n == Min({op.at - 1, NumChunks(Total)})
<1>4. n = (IF op.at - 1 <= NumChunks(Total) THEN op.at - 1 ELSE NumChunks(Total))
  BY <1>2, <1>3, MinOfTwo
<1>5. n \in Nat
  BY <1>2, <1>3, <1>4
<1>6. op' = [op EXCEPT !.kind = "empty", !.plan = [i \in 1..n |-> Chunk(FlattenSeq(order), i)]]
  BY <1>1, <1>2
<1> HIDE DEF n
<1> QED BY <1>3, <1>4, <1>5, <1>6

\* The plan is one.
LEMMA PlanType ==
  ASSUME NEW list \in Seq(Tokens), NEW n \in Nat, NEW plan, plan = [i \in 1..n |-> Chunk(list, i)]
  PROVE  /\ plan \in Seq(SUBSET Tokens) /\ Len(plan) = n /\ DOMAIN plan = 1..n
         /\ \A i \in 1..n : IsFiniteSet(plan[i]) /\ Cardinality(plan[i]) <= Cap
<1>1. \A i \in 1..n : Chunk(list, i) \in SUBSET Tokens /\ IsFiniteSet(Chunk(list, i))
                      /\ Cardinality(Chunk(list, i)) <= Cap
  BY TokenChunk, ChunkPlaces
<1> QED BY <1>1

\* Assets are taken off connection after connection.
LEMMA SoundUnsubscribe == ASSUME Sound, UnsubscribeNext PROVE Sound'
<1>1. /\ op.kind = "unsubscribe" /\ sending = <<>>
      /\ UNCHANGED <<conns, inbox, link, served, running, ops, wanted, given, refused, lost, disturbed>>
  BY DEF UnsubscribeNext
<1>2. op.plan \in Seq(SUBSET Tokens) /\ DOMAIN op.plan = Spawned
      /\ \A i \in DOMAIN op.plan : op.plan[i] \subseteq given
  BY <1>1, CallerFacts, OperationType DEF Sound, OpInv
<1>3. CASE \E c \in DOMAIN op.plan : op.plan[c] # {}
  <2>1. PICK c \in DOMAIN op.plan : Take(c, op.plan[c]) /\ op' = [op EXCEPT !.plan[c] = {}]
    BY <1>3 DEF UnsubscribeNext
  <2>2. c \in Spawned /\ op.plan[c] \in SUBSET Tokens
    BY <1>2
  <2> DEFINE rest == [op.plan EXCEPT ![c] = {}]
  <2>3. rest \in Seq(SUBSET Tokens) /\ DOMAIN rest = Spawned
        /\ \A i \in Spawned : rest[i] \subseteq given
    BY <1>2
  <2>4. op \in Operations /\ op' = [op EXCEPT !.plan = rest]
    BY <2>1, CallerFacts
  <2> HIDE DEF rest
  <2>5. op' \in Operations /\ op'.kind = "unsubscribe" /\ op'.plan = rest
    BY <1>1, <2>3, <2>4 DEF Operations
  <2>6. /\ tracked' \in [Slots -> SUBSET Tokens] /\ retired' \in [Slots -> SUBSET Tokens]
        /\ \A d \in Slots \ Spawned : tracked'[d] = {}
        /\ sending' \in Seq([conn : Spawned, cmd : Commands]) /\ Len(sending') <= 1
    BY <2>1, <2>2, PutTakeTypes
  <2>7. PoolTypeOK'
    BY <1>1, <2>5, <2>6, CallerFacts, CallerTypes DEF Spawned
  <2>8. OpInv'
    BY <1>1, <2>3, <2>5 DEF OpInv, Moving, Spawned
  <2> QED BY <2>7, <2>8 DEF Sound
<1>4. CASE ~ \E c \in DOMAIN op.plan : op.plan[c] # {}
  <2>1. op' = Idle /\ UNCHANGED <<tracked, retired, sending>>
    BY <1>4 DEF UnsubscribeNext
  <2>2. refused' \subseteq Tokens
    BY <1>1, CallerFacts
  <2> QED BY <1>1, <2>1, <2>2, SoundEnds
<1> QED BY <1>3, <1>4

\* A product grows with its factor.
LEMMA TimesOrder ==
  ASSUME NEW m \in Nat, NEW n \in Nat, NEW k \in Nat, m <= n
  PROVE  m * k \in Nat /\ n * k \in Nat /\ m * k <= n * k
<1>1. m * k \in Nat /\ n * k \in Nat
  OBVIOUS
<1>2. PICK d \in Nat : n = m + d
  <2>1. n - m \in Nat /\ n = m + (n - m)
    OBVIOUS
  <2> QED BY <2>1
<1>3. n * k = m * k + d * k /\ d * k \in Nat
  BY <1>2
<1> QED BY <1>1, <1>3

\* The connections that are needed have room for all that is tracked.
LEMMA NeededIs ==
  ASSUME Sound, BeginConsolidate
  PROVE  \E needed \in Nat :
           /\ needed >= 1 /\ needed < conns /\ Total <= needed * Cap /\ Total \in Nat
           /\ op' = [Idle EXCEPT !.kind = "collect", !.at = needed + 1]
<1> DEFINE chunks == NumChunks(Total)
           needed == Max({1, chunks})
<1>1. Total \in Nat
  BY SizesType
<1>2. chunks \in Nat /\ Total <= chunks * Cap
  BY <1>1, ChunksRoundUp
<1>3. needed < conns /\ op' = [Idle EXCEPT !.kind = "collect", !.at = needed + 1]
  BY DEF BeginConsolidate
<1> HIDE DEF chunks
<1>4. needed = IF 1 <= chunks THEN chunks ELSE 1
  BY <1>2, MaxOfTwo
<1>5. needed \in Nat /\ needed >= 1 /\ chunks <= needed
  BY <1>2, <1>4
<1> HIDE DEF needed
<1>6. chunks * Cap <= needed * Cap /\ chunks * Cap \in Nat /\ needed * Cap \in Nat
  BY <1>2, <1>5, SlotsType, TimesOrder
<1>7. Total <= needed * Cap
  <2> DEFINE x == chunks * Cap
             y == needed * Cap
             z == Total
  <2>1. z <= x /\ x <= y /\ x \in Nat /\ y \in Nat /\ z \in Nat
    BY <1>1, <1>2, <1>6
  <2> HIDE DEF x, y, z
  <2>2. z <= y
    BY <2>1
  <2> QED BY <2>2 DEF y, z
<1> QED BY <1>1, <1>3, <1>5, <1>7

\* The connections that are needed are counted.
LEMMA SoundCount == ASSUME Sound, BeginConsolidate PROVE Sound'
<1>1. PICK needed \in Nat : needed >= 1 /\ needed < conns
        /\ op' = [Idle EXCEPT !.kind = "collect", !.at = needed + 1]
  BY NeededIs
<1>2. op' \in Operations /\ op'.kind = "collect" /\ op'.at = needed + 1
  <2> DEFINE n == needed + 1
  <2>1. n \in Nat /\ op' = [Idle EXCEPT !.kind = "collect", !.at = n]
    BY <1>1
  <2> HIDE DEF n
  <2>2. op' \in Operations /\ op'.kind = "collect" /\ op'.at = n
    BY <2>1, IdleType DEF Operations
  <2> QED BY <2>2 DEF n
<1>3. sending = <<>> /\ ops' \in 0..MaxOps
      /\ UNCHANGED <<conns, tracked, inbox, link, served, running, sending, history>>
  <2>1. Begin /\ UNCHANGED <<conns, tracked, inbox, link, served, running, sending, history>>
    BY DEF BeginConsolidate
  <2>2. ops \in 0..MaxOps /\ MaxOps \in Nat
    BY CallerFacts, SlotsType
  <2> QED BY <2>1, <2>2 DEF Begin
<1>4. PoolTypeOK'
  BY <1>2, <1>3, CallerFacts, CallerTypes DEF Spawned, history
<1>5. OpInv'
  BY <1>1, <1>2, <1>3, CallerFacts DEF OpInv, Moving
<1> QED BY <1>4, <1>5 DEF Sound

\* The assets are collected.
LEMMA SoundCollect == ASSUME Sound, CollectNext PROVE Sound'
<1>1. PICK order \in Collected, n \in Nat :
        /\ op.kind = "collect" /\ sending = <<>>
        /\ n = (IF op.at - 1 <= NumChunks(Total) THEN op.at - 1 ELSE NumChunks(Total))
        /\ op' = [op EXCEPT !.kind = "empty",
                            !.plan = [i \in 1..n |-> Chunk(FlattenSeq(order), i)]]
        /\ UNCHANGED <<conns, tracked, inbox, link, served, running, sending, ops, history>>
  BY CollectIs
<1> DEFINE plan == [i \in 1..n |-> Chunk(FlattenSeq(order), i)]
<1>2. plan \in Seq(SUBSET Tokens) /\ Len(plan) = n /\ DOMAIN plan = 1..n
      /\ \A i \in 1..n : Cardinality(plan[i]) <= Cap
  <2>1. FlattenSeq(order) \in Seq(Tokens)
    BY CollectedList
  <2> QED BY <2>1, PlanType
<1>3. op \in Operations /\ op' = [op EXCEPT !.kind = "empty", !.plan = plan]
      /\ op.at \in 2..conns
  BY <1>1, CallerFacts DEF Sound, OpInv
<1> HIDE DEF plan
<1>4. op' \in Operations /\ op'.kind = "empty" /\ op'.plan = plan /\ op'.at = op.at
  BY <1>2, <1>3 DEF Operations
<1>5. n < op.at /\ n < conns
  <2>1. NumChunks(Total) \in Nat
    BY SizesType, ChunksRoundUp
  <2> QED BY <1>1, <1>3, <2>1, CallerFacts
<1>6. PoolTypeOK'
  BY <1>1, <1>4, CallerFacts, CallerTypes DEF Spawned, history
<1>7. OpInv'
  <2>1. conns' = conns
    BY <1>1
  <2> QED BY <1>2, <1>4, <1>5, <2>1 DEF OpInv, Moving
<1> QED BY <1>6, <1>7 DEF Sound

\* What is known of a plan that is carried out.
LEMMA MovingFacts ==
  ASSUME Sound, Moving
  PROVE  /\ op.plan \in Seq(SUBSET Tokens) /\ Len(op.plan) \in Nat /\ DOMAIN op.plan = 1..Len(op.plan)
         /\ Len(op.plan) < conns /\ op.at \in Nat /\ op.add \in SUBSET Tokens
         /\ \A i \in DOMAIN op.plan : Cardinality(op.plan[i]) <= Cap /\ op.plan[i] \in SUBSET Tokens
                                      /\ i \in Spawned
<1>1. op.plan \in Seq(SUBSET Tokens) /\ op.at \in Nat /\ op.add \in SUBSET Tokens
  BY CallerFacts, OperationType
<1>2. Len(op.plan) < conns /\ \A i \in DOMAIN op.plan : Cardinality(op.plan[i]) <= Cap
  BY DEF Sound, OpInv
<1>3. Len(op.plan) \in Nat /\ DOMAIN op.plan = 1..Len(op.plan)
      /\ \A i \in DOMAIN op.plan : op.plan[i] \in SUBSET Tokens
  BY <1>1
<1>4. \A i \in DOMAIN op.plan : i \in Spawned
  BY <1>2, <1>3, CallerFacts DEF Spawned
<1> QED BY <1>1, <1>2, <1>3, <1>4

\* A connection that is not needed is emptied.
LEMMA SoundEmpty == ASSUME Sound, EmptyNext PROVE Sound'
<1>1. /\ op.kind = "empty" /\ sending = <<>> /\ Moving /\ op.at > Len(op.plan)
      /\ UNCHANGED <<conns, inbox, link, served, running, ops, wanted, given, refused, lost, disturbed>>
  BY DEF EmptyNext, Moving, Sound, OpInv
<1>2. op \in Operations /\ op.at + 1 \in Nat /\ op.at + 1 # 0
  BY <1>1, CallerFacts, MovingFacts
<1>3. CASE op.at > conns
  <2>1. op' = [op EXCEPT !.kind = "remove", !.at = 1] /\ UNCHANGED <<tracked, retired, sending>>
    BY <1>3 DEF EmptyNext
  <2>2. op' \in Operations /\ op'.kind = "remove" /\ op'.at = 1 /\ op'.plan = op.plan
    BY <1>2, <2>1 DEF Operations
  <2>3. PoolTypeOK'
    BY <1>1, <2>1, <2>2, CallerFacts, CallerTypes DEF Spawned
  <2>4. OpInv'
    BY <1>1, <2>2, MovingFacts DEF OpInv, Moving
  <2> QED BY <2>3, <2>4 DEF Sound
<1>4. CASE ~ (op.at > conns)
  <2>1. /\ op' = [op EXCEPT !.at = op.at + 1]
        /\ IF tracked[op.at] = {} THEN UNCHANGED <<tracked, retired, sending>>
           ELSE Take(op.at, tracked[op.at])
    BY <1>4 DEF EmptyNext
  <2>2. op.at \in Spawned /\ tracked[op.at] \in SUBSET Tokens
    <3>1. op.at \in Spawned
      BY <1>1, <1>4, MovingFacts, CallerFacts DEF Spawned
    <3> QED BY <3>1, CallerFacts
  <2>3. op' \in Operations /\ op'.kind = "empty" /\ op'.at = op.at + 1 /\ op'.plan = op.plan
    BY <1>1, <1>2, <2>1 DEF Operations
  <2>4. /\ tracked' \in [Slots -> SUBSET Tokens] /\ retired' \in [Slots -> SUBSET Tokens]
        /\ \A d \in Slots \ Spawned : tracked'[d] = {}
        /\ sending' \in Seq([conn : Spawned, cmd : Commands]) /\ Len(sending') <= 1
    <3>1. CASE tracked[op.at] = {}
      BY <2>1, <3>1, CallerFacts
    <3>2. CASE tracked[op.at] # {}
      BY <2>1, <2>2, <3>2, PutTakeTypes
    <3> QED BY <3>1, <3>2
  <2>5. PoolTypeOK'
    BY <1>1, <2>3, <2>4, CallerFacts, CallerTypes DEF Spawned
  <2>6. OpInv'
    BY <1>1, <2>3, MovingFacts DEF OpInv, Moving
  <2> QED BY <2>5, <2>6 DEF Sound
<1> QED BY <1>3, <1>4

\* What is not in the chunk of a connection is taken off it.
LEMMA SoundRemove == ASSUME Sound, RemoveNext PROVE Sound'
<1>1. /\ op.kind = "remove" /\ sending = <<>> /\ Moving /\ op.at # 0
      /\ UNCHANGED <<conns, inbox, link, served, running, ops, wanted, given, refused, lost, disturbed>>
  BY DEF RemoveNext, Moving, Sound, OpInv
<1>2. op \in Operations
  BY CallerFacts
<1>3. CASE op.at > Len(op.plan)
  <2>1. op' = Idle /\ UNCHANGED <<tracked, retired, sending>>
    BY <1>3 DEF RemoveNext
  <2>2. refused' \subseteq Tokens
    BY <1>1, CallerFacts
  <2> QED BY <1>1, <2>1, <2>2, SoundEnds
<1>4. CASE ~ (op.at > Len(op.plan))
  <2> DEFINE missing == op.plan[op.at] \ tracked[op.at]
             extra == tracked[op.at] \ op.plan[op.at]
  <2>1. /\ op' = [op EXCEPT !.kind = "add", !.add = missing]
        /\ IF extra = {} THEN UNCHANGED <<tracked, retired, sending>> ELSE Take(op.at, extra)
    BY <1>4 DEF RemoveNext
  <2>2. op.at \in DOMAIN op.plan
    BY <1>1, <1>4, MovingFacts
  <2>3. op.at \in Spawned /\ op.plan[op.at] \in SUBSET Tokens
    BY <1>1, <2>2, MovingFacts
  <2>4. missing \in SUBSET Tokens /\ extra \in SUBSET Tokens /\ missing \subseteq op.plan[op.at]
    BY <2>3, CallerFacts
  <2> HIDE DEF missing, extra
  <2>5. op' \in Operations /\ op'.kind = "add" /\ op'.at = op.at /\ op'.plan = op.plan
        /\ op'.add = missing
    BY <1>2, <2>1, <2>4 DEF Operations
  <2>6. /\ tracked' \in [Slots -> SUBSET Tokens] /\ retired' \in [Slots -> SUBSET Tokens]
        /\ \A d \in Slots \ Spawned : tracked'[d] = {}
        /\ sending' \in Seq([conn : Spawned, cmd : Commands]) /\ Len(sending') <= 1
    <3>1. CASE extra = {}
      BY <1>1, <2>1, <3>1, CallerFacts
    <3>2. CASE extra # {}
      BY <2>1, <2>3, <2>4, <3>2, PutTakeTypes
    <3> QED BY <3>1, <3>2
  <2>7. PoolTypeOK'
    BY <1>1, <2>5, <2>6, CallerFacts, CallerTypes DEF Spawned
  <2>8. OpInv'
    BY <1>1, <2>2, <2>4, <2>5, MovingFacts DEF OpInv, Moving
  <2> QED BY <2>7, <2>8 DEF Sound
<1> QED BY <1>3, <1>4

\* What was missing on a connection is put on it.
LEMMA SoundAdd == ASSUME Sound, AddNext PROVE Sound'
<1>1. /\ op.kind = "add" /\ sending = <<>> /\ Moving /\ op.at \in DOMAIN op.plan
      /\ UNCHANGED <<conns, inbox, link, served, running, ops, wanted, given, refused, retired, lost,
                     disturbed>>
      /\ op' = [op EXCEPT !.kind = "remove", !.at = op.at + 1, !.add = {}]
      /\ IF op.add = {} THEN UNCHANGED <<tracked, sending>> ELSE Put(op.at, op.add)
  BY DEF AddNext, Moving, Sound, OpInv, history
<1>2. op \in Operations /\ op.at \in Spawned /\ op.add \in SUBSET Tokens /\ op.at + 1 \in Nat
      /\ op.at + 1 # 0
  BY <1>1, CallerFacts, MovingFacts
<1>3. op' \in Operations /\ op'.kind = "remove" /\ op'.at = op.at + 1 /\ op'.plan = op.plan
  BY <1>1, <1>2 DEF Operations
<1>4. /\ tracked' \in [Slots -> SUBSET Tokens] /\ retired' \in [Slots -> SUBSET Tokens]
      /\ \A d \in Slots \ Spawned : tracked'[d] = {}
      /\ sending' \in Seq([conn : Spawned, cmd : Commands]) /\ Len(sending') <= 1
  <2>1. CASE op.add = {}
    BY <1>1, <2>1, CallerFacts
  <2>2. CASE op.add # {}
    BY <1>1, <1>2, <2>2, PutTakeTypes
  <2> QED BY <2>1, <2>2
<1>5. PoolTypeOK'
  BY <1>1, <1>3, <1>4, CallerFacts, CallerTypes DEF Spawned
<1>6. OpInv'
  BY <1>1, <1>2, <1>3, MovingFacts DEF OpInv, Moving
<1> QED BY <1>5, <1>6 DEF Sound

\* A sequence with at most one element.
LEMMA OnlyOne ==
  ASSUME NEW S, NEW s \in Seq(S), s # <<>>, Len(s) <= 1
  PROVE  Len(s) = 1 /\ DOMAIN s = {1} /\ s[1] \in S
<1>1. Len(s) \in Nat /\ Len(s) # 0 /\ DOMAIN s = 1..Len(s)
  OBVIOUS
<1>2. Len(s) = 1
  BY <1>1
<1>3. 1..1 = {1}
  OBVIOUS
<1>4. DOMAIN s = {1}
  BY <1>1, <1>2, <1>3
<1>5. s[1] \in S
  BY <1>4
<1> QED BY <1>2, <1>4, <1>5

\* A waiting command and the connection it goes to.
LEMMA SendFacts ==
  ASSUME Sound, sending # <<>>
  PROVE  /\ Len(sending) = 1 /\ DOMAIN sending = {1}
         /\ sending[1].conn \in Spawned /\ sending[1].cmd \in Commands
         /\ op.kind # "idle" /\ op.kind # "collect"
<1>0. sending # <<>>
  OBVIOUS
<1>1. sending \in Seq([conn : Spawned, cmd : Commands]) /\ Len(sending) <= 1
  BY CallerFacts
<1>2. Len(sending) = 1 /\ DOMAIN sending = {1} /\ sending[1] \in [conn : Spawned, cmd : Commands]
  <2> DEFINE S == [conn : Spawned, cmd : Commands]
  <2>1. sending \in Seq(S) /\ Len(sending) <= 1
    BY <1>1
  <2> HIDE DEF S
  <2>2. Len(sending) = 1 /\ DOMAIN sending = {1} /\ sending[1] \in S
    BY <1>0, <2>1, OnlyOne
  <2> QED BY <2>2 DEF S
<1>3. op.kind # "idle" /\ op.kind # "collect"
  BY DEF Sound, OpInv
<1> QED BY <1>2, <1>3

\* A command is sent.
LEMMA SoundSend == ASSUME Sound, Send PROVE Sound'
<1> DEFINE c == sending[1].conn
           cmd == sending[1].cmd
<1>1. sending # <<>> /\ sending' = <<>>
      /\ UNCHANGED <<conns, tracked, link, served, running, op, ops, wanted, given, refused, retired, disturbed>>
      /\ \/ Len(inbox[c]) < Room /\ inbox' = [inbox EXCEPT ![c] = Append(@, cmd)] /\ UNCHANGED lost
         \/ lost' = [lost EXCEPT ![c] = @ \cup cmd.ids] /\ UNCHANGED inbox
  BY DEF Send
<1>2. c \in Spawned /\ c \in Slots /\ cmd \in Commands /\ cmd.ids \in SUBSET Tokens
      /\ op.kind # "idle" /\ op.kind # "collect"
  BY <1>1, SendFacts, CallerFacts DEF Commands
<1> HIDE DEF c, cmd
<1>3. /\ inbox' \in [Slots -> Seq(Commands)] /\ (\A d \in Slots : Len(inbox'[d]) <= Room)
      /\ (\A d \in Slots \ Spawned : inbox'[d] = inbox[d])
      /\ lost' \in [Slots -> SUBSET Tokens]
  <2>1. inbox \in [Slots -> Seq(Commands)] /\ lost \in [Slots -> SUBSET Tokens]
        /\ \A d \in Slots : Len(inbox[d]) <= Room
    BY DEF Sound, PoolTypeOK
  <2>2. CASE Len(inbox[c]) < Room /\ inbox' = [inbox EXCEPT ![c] = Append(@, cmd)] /\ UNCHANGED lost
    <3> DEFINE q == inbox[c]
    <3>1. q \in Seq(Commands) /\ Len(q) < Room
      BY <1>2, <2>1, <2>2
    <3> HIDE DEF q
    <3>2. Append(q, cmd) \in Seq(Commands) /\ Len(Append(q, cmd)) <= Room
      BY <1>2, <3>1, SlotsType
    <3> DEFINE r == Append(q, cmd)
    <3>3. inbox' = [inbox EXCEPT ![c] = r]
      BY <2>2 DEF q
    <3> HIDE DEF r
    <3>4. r \in Seq(Commands) /\ Len(r) <= Room
      BY <3>2 DEF r
    <3> QED BY <1>2, <2>1, <2>2, <3>3, <3>4
  <2>3. CASE lost' = [lost EXCEPT ![c] = @ \cup cmd.ids] /\ UNCHANGED inbox
    BY <1>2, <2>1, <2>3
  <2> QED BY <1>1, <2>2, <2>3
<1>4. Spawned' = Spawned /\ sending' \in Seq([conn : Spawned, cmd : Commands]) /\ Len(sending') <= 1
  BY <1>1 DEF Spawned
<1>5. PoolTypeOK'
  BY <1>1, <1>3, <1>4 DEF Sound, PoolTypeOK
<1>6. OpInv'
  BY <1>1, <1>2, <1>4 DEF Sound, OpInv, Moving
<1> QED BY <1>5, <1>6 DEF Sound

\* The pool is stopped.
LEMMA SoundStop == ASSUME Sound, Stop PROVE Sound'
<1>1. UNCHANGED <<conns, tracked, inbox, link, served, op, sending, wanted, given, refused, retired,
                  lost, disturbed>>
  BY DEF Stop, history
<1>2. ops' \in 0..MaxOps /\ running' \in BOOLEAN
  <2>1. ops \in 0..MaxOps /\ MaxOps \in Nat
    BY CallerFacts, SlotsType
  <2>2. ops' \in 0..MaxOps
    BY <2>1 DEF Stop, Begin
  <2>3. running' = FALSE
    BY DEF Stop
  <2> QED BY <2>2, <2>3
<1>3. PoolTypeOK'
  BY <1>1, <1>2, CallerFacts, CallerTypes DEF Spawned
<1>4. OpInv'
  BY <1>1 DEF Sound, OpInv, Moving, Spawned
<1> QED BY <1>3, <1>4 DEF Sound

\* Every step keeps the types and what the operations are up to.
LEMMA SoundStep == ASSUME Sound, [PoolNext]_poolVars PROVE Sound'
<1>1. CASE UNCHANGED poolVars
  BY <1>1 DEF poolVars, caller, history, Sound, PoolTypeOK, OpInv, Moving, Spawned
<1>2. ASSUME NEW ids \in SUBSET Tokens, BeginSubscribe(ids) \/ BeginUnsubscribe(ids) PROVE Sound'
  BY <1>2, SoundBegins
<1>3. CASE BeginConsolidate
  BY <1>3, SoundCount
<1>4. CASE Stop
  BY <1>4, SoundStop
<1>5. CASE Caller
  BY <1>5, SoundSubscribe, SoundInsert, SoundSpawn, SoundDone, SoundUnsubscribe, SoundCollect, SoundEmpty,
     SoundRemove, SoundAdd, SoundSend DEF Caller
<1>6. ASSUME NEW c \in Spawned, Task(c) \/ JoinFails(c) \/ ReceiveFails(c) \/ Lose(c) PROVE Sound'
  BY <1>6, SoundTasks
<1> QED BY <1>1, <1>2, <1>3, <1>4, <1>5, <1>6 DEF PoolNext

\* The types of the pool: it never has more connections than max_connections,
\* a channel never more commands than its capacity, and the caller never more
\* than one command in hand (ws_pool.rs).
THEOREM PoolTyped == PoolSpec => []PoolTypeOK
<1>1. PoolInit => Sound
  BY SoundInitially
<1>2. Sound /\ [PoolNext]_poolVars => Sound'
  BY SoundStep
<1>3. Sound => PoolTypeOK
  BY DEF Sound
<1> QED BY <1>1, <1>2, <1>3, PTL DEF PoolSpec

-----------------------------------------------------------------------------
(* The pool: where an asset is to be found.                                *)

\* No command on its way to connection c is about asset a.
NoOrder(c, a) == \A m \in Commanded(c) : a \notin m.ids

\* None of them takes it off.
NotLeaving(c, a) == \A m \in Commanded(c) : a \in m.ids => m.kind = "Subscribe"

\* The connections of S do not have it and will not get it from a command.
Nowhere(a, S) == \A c \in S : a \notin tracked[c] /\ NoOrder(c, a)

\* Connection m keeps it, and is the first that may have it.
Anchored(m, a) == NotLeaving(m, a) /\ Nowhere(a, 1..(m - 1))

Placed(a) == \E m \in Spawned : a \in tracked[m] /\ Anchored(m, a)

\* It is still to be put on some connection.
Coming(a) ==
  /\ \/ op.kind = "subscribe" /\ a \in ToSet(op.list)
     \/ op.kind = "insert" /\ a \in op.add \cup ToSet(op.list)
  /\ Nowhere(a, Slots)

\* The first chunk with it is that of connection m, which has it when its turn is over.
Planned(m, a) ==
  /\ a \in op.plan[m] /\ Anchored(m, a)
  /\ \A c \in 1..(m - 1) : a \notin op.plan[c]
  /\ op.kind # "empty" /\ m < op.at => a \in tracked[m]
  /\ op.kind = "add" /\ m = op.at => a \in tracked[m] \cup op.add

\* Assets the caller has subscribed for good.
Kept == wanted \ (given \cup refused)

PlacedInv == ~disturbed /\ ~Moving => \A a \in Kept : Placed(a) \/ Coming(a)
PlannedInv == ~disturbed /\ Moving => \A a \in Kept : \E m \in DOMAIN op.plan : Planned(m, a)

\* Nothing is tracked, ordered or planned that the caller never subscribed.
WantedInv ==
  /\ \A c \in Slots : tracked[c] \subseteq wanted /\ \A m \in Commanded(c) : m.ids \subseteq wanted
  /\ ToSet(op.list) \subseteq wanted /\ op.add \subseteq wanted
  /\ \A i \in DOMAIN op.plan : op.plan[i] \subseteq wanted

\* There is room, and the connections that are needed have enough of it.
RoomInv ==
  ~disturbed =>
    /\ \A c \in Slots : Cardinality(tracked[c]) <= Cap
    /\ op.kind = "collect" => Total <= (op.at - 1) * Cap
    /\ op.kind = "add" => tracked[op.at] \subseteq op.plan[op.at]
    /\ op.kind = "insert" => Cardinality(tracked[op.at] \cup op.add) <= Cap

Findable == WantedInv /\ RoomInv /\ PlacedInv /\ PlannedInv

\* The commands on their way, as one is begun,
LEMMA CommandedMore ==
  ASSUME NEW c, NEW m, sending = <<>>, inbox' = inbox, sending' = <<[conn |-> c, cmd |-> m]>>
  PROVE  \A d \in Slots : Commanded(d)' = IF d = c THEN Commanded(d) \cup {m} ELSE Commanded(d)
<1>1. DOMAIN sending = {} /\ DOMAIN sending' = {1} /\ sending'[1] = [conn |-> c, cmd |-> m]
  OBVIOUS
<1> DEFINE was(d) == {sending[i].cmd : i \in {j \in DOMAIN sending : sending[j].conn = d}}
           is(d) == {sending'[i].cmd : i \in {j \in DOMAIN sending' : sending'[j].conn = d}}
           in(d) == {inbox[d][i] : i \in DOMAIN inbox[d]}
<1>2. ASSUME NEW d PROVE was(d) = {} /\ is(d) = IF d = c THEN {m} ELSE {}
  BY <1>1
<1>3. ASSUME NEW d PROVE Commanded(d) = in(d) \cup was(d) /\ Commanded(d)' = in(d) \cup is(d)
  BY DEF Commanded
<1> HIDE DEF was, is, in
<1> QED BY <1>2, <1>3

\* as nothing happens to them,
LEMMA CommandedSame ==
  ASSUME UNCHANGED <<inbox, sending>>
  PROVE  \A d \in Slots : Commanded(d)' = Commanded(d)
BY DEF Commanded

\* as one is sent or gone,
LEMMA CommandedSent ==
  ASSUME Sound, Send
  PROVE  \A d \in Slots : Commanded(d)' \subseteq Commanded(d)
<1> DEFINE c == sending[1].conn
           m == sending[1].cmd
<1>1. sending # <<>> /\ sending' = <<>>
      /\ \/ inbox' = [inbox EXCEPT ![c] = Append(@, m)]
         \/ inbox' = inbox
  BY DEF Send
<1>2. c \in Slots /\ DOMAIN sending = {1} /\ inbox \in [Slots -> Seq(Commands)] /\ m \in Commands
  BY <1>1, SendFacts, CallerFacts
<1> SUFFICES ASSUME NEW d \in Slots PROVE Commanded(d)' \subseteq Commanded(d)
  OBVIOUS
<1>3. Commanded(d)' = {inbox'[d][i] : i \in DOMAIN inbox'[d]}
  BY <1>1 DEF Commanded
<1>4. d = c => m \in Commanded(d)
  BY <1>2 DEF Commanded
<1>5. {inbox[d][i] : i \in DOMAIN inbox[d]} \subseteq Commanded(d)
  BY DEF Commanded
<1> HIDE DEF c, m
<1>6. CASE inbox' = inbox \/ d # c
  <2>1. inbox'[d] = inbox[d]
    BY <1>1, <1>2, <1>6
  <2> QED BY <1>3, <1>5, <2>1
<1>7. CASE inbox' = [inbox EXCEPT ![c] = Append(@, m)] /\ d = c
  <2> DEFINE q == inbox[d]
  <2>1. inbox'[d] = Append(q, m) /\ q \in Seq(Commands)
    BY <1>2, <1>7
  <2> HIDE DEF q
  <2>2. \A i \in DOMAIN Append(q, m) : Append(q, m)[i] = m \/ (i \in DOMAIN q /\ Append(q, m)[i] = q[i])
    BY <2>1
  <2> QED BY <1>3, <1>4, <1>5, <1>7, <2>1, <2>2 DEF q
<1> QED BY <1>1, <1>6, <1>7

\* as one is read.
LEMMA CommandedRead ==
  ASSUME Sound, NEW c \in Slots, inbox[c] # <<>>,
         inbox' = [inbox EXCEPT ![c] = Tail(@)], sending' = sending
  PROVE  /\ Head(inbox[c]) \in Commanded(c) /\ Head(inbox[c]) \in Commands
         /\ \A d \in Slots : Commanded(d)' \subseteq Commanded(d)
<1>1. inbox \in [Slots -> Seq(Commands)] /\ inbox[c] \in Seq(Commands)
  BY CallerFacts
<1>2. /\ Head(inbox[c]) \in Commands /\ 1 \in DOMAIN inbox[c] /\ Head(inbox[c]) = inbox[c][1]
      /\ {Tail(inbox[c])[i] : i \in DOMAIN Tail(inbox[c])} \subseteq {inbox[c][i] : i \in DOMAIN inbox[c]}
  BY <1>1, TailSound
<1>3. Head(inbox[c]) \in Commanded(c)
  BY <1>2 DEF Commanded
<1>4. ASSUME NEW d \in Slots PROVE Commanded(d)' \subseteq Commanded(d)
  <2> DEFINE in == {inbox[d][i] : i \in DOMAIN inbox[d]}
             still == {inbox'[d][i] : i \in DOMAIN inbox'[d]}
             out == {sending[i].cmd : i \in {j \in DOMAIN sending : sending[j].conn = d}}
  <2>1. still \subseteq in
    <3>1. CASE d = c
      <4>1. inbox'[d] = Tail(inbox[c])
        BY <1>1, <3>1
      <4> QED BY <1>2, <3>1, <4>1
    <3>2. CASE d # c
      <4>1. inbox'[d] = inbox[d]
        BY <1>1, <3>2
      <4> QED BY <4>1
    <3> QED BY <3>1, <3>2
  <2>2. Commanded(d) = in \cup out /\ Commanded(d)' = still \cup out
    BY DEF Commanded
  <2> HIDE DEF in, still, out
  <2> QED BY <2>1, <2>2
<1> QED BY <1>2, <1>3, <1>4

\* An asset stays anchored where nothing takes it off and nothing before may have it.
LEMMA AnchorStays ==
  ASSUME NEW m \in Nat, NEW a, Anchored(m, a),
         \A o \in Commanded(m)' : o \in Commanded(m) \/ a \notin o.ids \/ o.kind = "Subscribe",
         \A d \in 1..(m - 1) : \A o \in Commanded(d)' : o \in Commanded(d) \/ a \notin o.ids,
         \A d \in 1..(m - 1) : a \in tracked'[d] => a \in tracked[d]
  PROVE  Anchored(m, a)'
<1>1. NotLeaving(m, a)'
  BY DEF Anchored, NotLeaving
<1>2. Nowhere(a, 1..(m - 1))'
  BY DEF Anchored, Nowhere, NoOrder
<1> QED BY <1>1, <1>2 DEF Anchored

\* Connections that come before one that is there.
LEMMA Before ==
  ASSUME Sound, NEW m \in Spawned
  PROVE  m \in Nat /\ m \in Slots /\ 1..(m - 1) \subseteq Slots
<1>1. m \in Nat /\ m <= conns /\ conns <= MaxConns /\ MaxConns \in Nat /\ m >= 1 /\ conns \in Nat
  <2>1. m \in 1..conns /\ conns \in Nat /\ conns <= MaxConns
    BY CallerFacts DEF Spawned
  <2> QED BY <2>1, SlotsType
<1>2. m \in Nat /\ m \in Slots
  BY <1>1 DEF Slots
<1>3. ASSUME NEW k \in 1..(m - 1) PROVE k \in 1..MaxConns
  <2>1. k \in Int /\ 1 <= k /\ k <= m - 1
    BY <1>2
  <2>2. k <= MaxConns
    BY <1>1, <2>1
  <2> QED BY <2>1, <2>2, <1>1
<1> QED BY <1>2, <1>3 DEF Slots

\* Commands that are gone and assets that are taken off disturb no anchor of another asset.
LEMMA AnchorLess ==
  ASSUME Sound, NEW m \in Spawned, NEW a, Anchored(m, a),
         \A d \in Slots : \A o \in Commanded(d)' : o \in Commanded(d) \/ a \notin o.ids,
         \A d \in Slots : a \in tracked'[d] => a \in tracked[d] \/ ~NoOrder(d, a)
  PROVE  Anchored(m, a)'
<1>1. m \in Nat /\ m \in Slots /\ 1..(m - 1) \subseteq Slots
  BY Before
<1>2. \A d \in 1..(m - 1) : a \in tracked'[d] => a \in tracked[d]
  BY <1>1 DEF Anchored, Nowhere
<1> QED BY <1>1, <1>2, AnchorStays

\* The same for an asset that is nowhere.
LEMMA NowhereLess ==
  ASSUME NEW a, Nowhere(a, Slots),
         \A d \in Slots : \A o \in Commanded(d)' : o \in Commanded(d) \/ a \notin o.ids,
         \A d \in Slots : a \in tracked'[d] => a \in tracked[d] \/ ~NoOrder(d, a)
  PROVE  Nowhere(a, Slots)'
BY DEF Nowhere, NoOrder, Slots

\* Nothing happens to an asset.
SameFor(a) ==
  /\ \A d \in Slots : \A o \in Commanded(d)' : o \in Commanded(d) \/ a \notin o.ids
  /\ \A d \in Slots : a \in tracked'[d] => a \in tracked[d] \/ ~NoOrder(d, a)
  /\ \A d \in Slots : a \in tracked[d] /\ NotLeaving(d, a) => a \in tracked'[d]

\* What keeps its place keeps a connection to be found on.
LEMMA PlacedSame ==
  ASSUME Sound, NEW a, SameFor(a), conns' = conns, Placed(a)
  PROVE  Placed(a)'
<1>1. PICK m \in Spawned : a \in tracked[m] /\ Anchored(m, a)
  BY DEF Placed
<1>2. Anchored(m, a)'
  BY <1>1, AnchorLess DEF SameFor
<1>3. a \in tracked'[m]
  BY <1>1, Before DEF SameFor, Anchored
<1>4. m \in Spawned'
  BY DEF Spawned
<1> QED BY <1>2, <1>3, <1>4 DEF Placed

\* What is still to be subscribed stays so.
LEMMA ComingSame ==
  ASSUME NEW a, SameFor(a), op' = op, Coming(a)
  PROVE  Coming(a)'
<1>1. Nowhere(a, Slots)'
  BY NowhereLess DEF Coming, SameFor
<1> QED BY <1>1 DEF Coming

\* What a consolidation has a place for keeps that place.
LEMMA PlannedSame ==
  ASSUME Sound, NEW a, SameFor(a), op' = op, NEW m \in Spawned, Planned(m, a)
  PROVE  Planned(m, a)'
<1>1. Anchored(m, a)'
  BY AnchorLess DEF Planned, SameFor
<1>2. a \in tracked[m] => a \in tracked'[m]
  BY Before DEF SameFor, Planned, Anchored
<1> QED BY <1>1, <1>2 DEF Planned

\* Steps in which nothing happens to the assets that are kept, and the caller does nothing.
LEMMA FindableSame ==
  ASSUME Sound, PlacedInv, PlannedInv, UNCHANGED <<conns, op, wanted, given, refused>>,
         disturbed => disturbed',
         ~disturbed' => \A a \in Kept : SameFor(a)
  PROVE  PlacedInv' /\ PlannedInv'
<1>1. Kept' = Kept /\ Moving' = Moving
  BY DEF Kept, Moving
<1>2. ASSUME ~disturbed', ~Moving, NEW a \in Kept PROVE Placed(a)' \/ Coming(a)'
  <2>1. SameFor(a) /\ ~disturbed
    BY <1>2
  <2>2. Placed(a) \/ Coming(a)
    BY <1>2, <2>1 DEF PlacedInv
  <2> QED BY <2>1, <2>2, PlacedSame, ComingSame
<1>3. ASSUME ~disturbed', Moving, NEW a \in Kept PROVE \E m \in DOMAIN op'.plan : Planned(m, a)'
  <2>1. SameFor(a) /\ ~disturbed
    BY <1>3
  <2>2. PICK m \in DOMAIN op.plan : Planned(m, a)
    BY <1>3, <2>1 DEF PlannedInv
  <2>3. m \in Spawned
    BY <1>3, MovingFacts
  <2>4. Planned(m, a)'
    BY <2>1, <2>2, <2>3, PlannedSame
  <2> QED BY <2>4
<1> QED BY <1>1, <1>2, <1>3 DEF PlacedInv, PlannedInv

\* Commands go, and nothing else happens.
LEMMA FindableFewer ==
  ASSUME Sound, Findable, UNCHANGED <<conns, tracked, op, wanted, given, refused, disturbed>>,
         \A d \in Slots : Commanded(d)' \subseteq Commanded(d)
  PROVE  Findable'
<1>1. WantedInv'
  BY DEF Findable, WantedInv, Slots
<1>2. RoomInv'
  BY DEF Findable, RoomInv, Total, Spawned, Slots
<1>3. \A a : SameFor(a)
  BY DEF SameFor
<1>4. PlacedInv' /\ PlannedInv'
  BY <1>3, FindableSame DEF Findable
<1> QED BY <1>1, <1>2, <1>4 DEF Findable

\* Sets of assets are finite, and a part is no larger than the whole.
LEMMA TokensCounted ==
  ASSUME NEW s \in SUBSET Tokens, NEW t \in SUBSET s
  PROVE  IsFiniteSet(s) /\ Cardinality(s) \in Nat /\ Cardinality(t) \in Nat
         /\ Cardinality(t) <= Cardinality(s)
BY TokensAssumption, FS_Subset, FS_CardinalityType

\* Fewer assets on a connection, fewer in all.
LEMMA FewerInAll ==
  ASSUME Sound, conns' = conns, tracked' \in [Slots -> SUBSET Tokens],
         \A d \in Slots : tracked'[d] \subseteq tracked[d]
  PROVE  Total \in Nat /\ Total' \in Nat /\ Total' <= Total
<1> DEFINE sizes == [d \in Slots |-> Cardinality(tracked'[d])]
<1>1. Total' = SumFunctionOnSet(sizes, Spawned)
  BY DEF Total, Spawned
<1>2. ASSUME NEW d \in Spawned
      PROVE  sizes[d] \in Nat /\ Sizes[d] \in Nat /\ sizes[d] <= Sizes[d]
  <2>1. d \in Slots /\ tracked[d] \in SUBSET Tokens /\ tracked'[d] \in SUBSET tracked[d]
    BY CallerFacts
  <2>2. Cardinality(tracked'[d]) \in Nat /\ Cardinality(tracked'[d]) <= Cardinality(tracked[d])
    BY <2>1, TokensCounted
  <2> QED BY <2>1, <2>2, SizesType
<1> HIDE DEF sizes
<1>3. IsFiniteSet(Spawned)
  <2>1. 1 \in Int /\ conns \in Int
    BY CallerFacts
  <2> QED BY <2>1, FS_Interval DEF Spawned
<1>4. SumFunctionOnSet(sizes, Spawned) \in Nat
  BY <1>2, <1>3, SumNat
<1>5. SumFunctionOnSet(sizes, Spawned) <= SumFunctionOnSet(Sizes, Spawned)
  BY <1>2, <1>3, SumOrder
<1> QED BY <1>1, <1>4, <1>5, SizesType

\* An old command is applied to the set of a connection between two sessions.
LEMMA FindableDrained == ASSUME Sound, Sound', Findable, NEW c \in Spawned, DrainNext(c) PROVE Findable'
<1> DEFINE cmd == Head(inbox[c])
           after == Apply(tracked[c], cmd)
<1>1. /\ tracked' = [tracked EXCEPT ![c] = after]
      /\ disturbed' = (disturbed \/ Disturbs(c, after))
      /\ inbox[c] # <<>> /\ inbox' = [inbox EXCEPT ![c] = Tail(@)]
      /\ UNCHANGED <<conns, op, sending, wanted, given, refused>>
  BY DEF DrainNext, connVars, caller
<1>2. c \in Slots /\ tracked \in [Slots -> SUBSET Tokens] /\ tracked' \in [Slots -> SUBSET Tokens]
  BY CallerFacts DEF Sound, PoolTypeOK
<1>3. cmd \in Commanded(c) /\ cmd \in Commands /\ \A d \in Slots : Commanded(d)' \subseteq Commanded(d)
  BY <1>1, <1>2, CommandedRead
<1>4. after = IF cmd.kind = "Subscribe" THEN tracked[c] \cup cmd.ids ELSE tracked[c] \ cmd.ids
  BY DEF Apply
<1>5. cmd.ids \subseteq wanted /\ tracked[c] \subseteq wanted
  BY <1>2, <1>3 DEF Findable, WantedInv
<1> HIDE DEF cmd, after
<1>6. tracked'[c] = after /\ \A d \in Slots : d # c => tracked'[d] = tracked[d]
  BY <1>1, <1>2
<1>7. WantedInv'
  <2>1. \A d \in Slots : tracked'[d] \subseteq wanted
    BY <1>4, <1>5, <1>6 DEF Findable, WantedInv
  <2> QED BY <1>1, <1>3, <2>1 DEF Findable, WantedInv, Slots
<1>8. disturbed => disturbed'
  BY <1>1
<1>9. ASSUME ~disturbed'
      PROVE  /\ ~disturbed
             /\ \/ \A d \in Slots : tracked'[d] \subseteq tracked[d]
                \/ ~Consolidating /\ Cardinality(after \cup Incoming(c)) <= Cap
  <2>1. ~disturbed /\ ~Disturbs(c, after)
    BY <1>1, <1>9
  <2> DEFINE all == after \cup Incoming(c)
  <2>2. after \subseteq tracked[c] \/ (~Consolidating /\ ~ (Cardinality(all) > Cap))
    BY <2>1 DEF Disturbs
  <2>3. all \in SUBSET Tokens
    BY <1>2, <1>6, CallerFacts, OperationType DEF Incoming
  <2> HIDE DEF all
  <2>4. Cardinality(all) \in Nat
    <3>1. all \in SUBSET all
      OBVIOUS
    <3> QED BY <2>3, <3>1, TokensCounted
  <2>5. CASE after \subseteq tracked[c]
    <3>1. ASSUME NEW d \in Slots PROVE tracked'[d] \subseteq tracked[d]
      BY <2>5, <1>6
    <3> QED BY <2>1, <3>1
  <2>6. CASE ~Consolidating /\ ~ (Cardinality(all) > Cap)
    <3>1. Cardinality(all) <= Cap
      BY <2>4, <2>6, SlotsType
    <3> QED BY <2>1, <2>6, <3>1 DEF all
  <2> QED BY <2>2, <2>5, <2>6
<1>10. RoomInv'
  <2> SUFFICES ASSUME ~disturbed' PROVE RoomInv'
    BY DEF RoomInv
  <2>1. /\ \A d \in Slots : Cardinality(tracked[d]) <= Cap
        /\ op.kind = "collect" => Total <= (op.at - 1) * Cap
        /\ op.kind = "add" => tracked[op.at] \subseteq op.plan[op.at]
        /\ op.kind = "insert" => Cardinality(tracked[op.at] \cup op.add) <= Cap
    BY <1>9 DEF Findable, RoomInv
  <2>2. CASE \A d \in Slots : tracked'[d] \subseteq tracked[d]
    <3>1. \A d \in Slots : Cardinality(tracked'[d]) <= Cap
      <4> SUFFICES ASSUME NEW d \in Slots PROVE Cardinality(tracked'[d]) <= Cap
        OBVIOUS
      <4>1. tracked[d] \in SUBSET Tokens /\ tracked'[d] \in SUBSET tracked[d]
        BY <1>2, <2>2
      <4> QED BY <4>1, <2>1, TokensCounted, SlotsType
    <3>2. op.kind = "collect" => Total' <= (op.at - 1) * Cap
      <4> SUFFICES ASSUME op.kind = "collect" PROVE Total' <= (op.at - 1) * Cap
        OBVIOUS
      <4> DEFINE x == (op.at - 1) * Cap
                 y == Total
                 z == Total'
      <4>1. y \in Nat /\ z \in Nat /\ z <= y
        BY <1>1, <1>2, <2>2, FewerInAll
      <4>2. y <= x /\ x \in Int
        <5>1. op.at \in Nat
          BY CallerFacts, OperationType
        <5> QED BY <2>1, <5>1, SlotsType
      <4> HIDE DEF x, y, z
      <4>3. z <= x
        BY <4>1, <4>2
      <4> QED BY <4>3 DEF x, z
    <3>3. op.kind = "add" => tracked'[op.at] \subseteq op.plan[op.at]
      <4> SUFFICES ASSUME op.kind = "add" PROVE tracked'[op.at] \subseteq op.plan[op.at]
        OBVIOUS
      <4>1. Moving /\ op.at \in DOMAIN op.plan
        BY DEF Sound, OpInv, Moving
      <4>2. op.at \in Slots
        BY <4>1, MovingFacts, CallerFacts
      <4> QED BY <2>1, <2>2, <4>2
    <3>4. op' = op
      BY <1>1
    <3>5. op.kind = "insert" => Cardinality(tracked'[op.at] \cup op.add) <= Cap
      <4> SUFFICES ASSUME op.kind = "insert" PROVE Cardinality(tracked'[op.at] \cup op.add) <= Cap
        OBVIOUS
      <4> DEFINE was == tracked[op.at] \cup op.add
                 is == tracked'[op.at] \cup op.add
      <4>1. op.at \in Slots /\ op.add \in SUBSET Tokens
        BY CallerFacts, OperationType DEF Sound, OpInv
      <4>2. was \in SUBSET Tokens /\ is \in SUBSET was
        BY <1>2, <2>2, <4>1
      <4>3. Cardinality(was) <= Cap
        BY <2>1
      <4> HIDE DEF was, is
      <4>4. Cardinality(is) <= Cap
        BY <4>2, <4>3, TokensCounted, SlotsType
      <4> QED BY <4>4 DEF is
    <3> QED BY <3>1, <3>2, <3>3, <3>4, <3>5 DEF RoomInv
  <2>3. CASE ~Consolidating /\ Cardinality(after \cup Incoming(c)) <= Cap
    <3>0. Cardinality(after) <= Cap
      <4> DEFINE all == after \cup Incoming(c)
      <4>1. all \in SUBSET Tokens /\ after \in SUBSET all
        BY <1>2, <1>6, CallerFacts, OperationType DEF Incoming
      <4>2. Cardinality(all) <= Cap
        BY <2>3
      <4> HIDE DEF all
      <4> QED BY <4>1, <4>2, TokensCounted, SlotsType
    <3>1. \A d \in Slots : Cardinality(tracked'[d]) <= Cap
      BY <1>6, <2>1, <3>0
    <3>2. op'.kind # "collect" /\ op'.kind # "add"
      BY <1>1, <2>3 DEF Consolidating
    <3>3. op.kind = "insert" => Cardinality(tracked'[op.at] \cup op.add) <= Cap
      <4>1. CASE op.kind = "insert" /\ op.at = c
        BY <1>6, <2>3, <4>1 DEF Incoming
      <4>2. CASE op.kind = "insert" /\ op.at # c
        <5>1. op.at \in Slots
          BY <4>2, CallerFacts DEF Sound, OpInv
        <5>2. tracked'[op.at] = tracked[op.at]
          BY <1>6, <4>2, <5>1
        <5> QED BY <2>1, <4>2, <5>2
      <4> QED BY <4>1, <4>2
    <3> QED BY <1>1, <3>1, <3>2, <3>3 DEF RoomInv
  <2> QED BY <1>9, <2>2, <2>3
<1>11. ASSUME ~disturbed', NEW a \in Kept PROVE SameFor(a)
  <2>1. \A d \in Slots : \A o \in Commanded(d)' : o \in Commanded(d)
    BY <1>3
  <2>2. ASSUME NEW d \in Slots, a \in tracked'[d] PROVE a \in tracked[d] \/ ~NoOrder(d, a)
    <3>1. CASE d # c
      BY <1>6, <2>2, <3>1
    <3>2. CASE d = c
      <4>1. a \in tracked[c] \/ a \in cmd.ids
        BY <1>4, <1>6, <2>2, <3>2
      <4> QED BY <1>3, <3>2, <4>1 DEF NoOrder
    <3> QED BY <3>1, <3>2
  <2>3. ASSUME NEW d \in Slots, a \in tracked[d], NotLeaving(d, a) PROVE a \in tracked'[d]
    <3>1. CASE d # c
      BY <1>6, <2>3, <3>1
    <3>2. CASE d = c
      <4>1. a \in cmd.ids => cmd.kind = "Subscribe"
        BY <1>3, <2>3, <3>2 DEF NotLeaving
      <4> QED BY <1>4, <1>6, <2>3, <3>2, <4>1
    <3> QED BY <3>1, <3>2
  <2> QED BY <2>1, <2>2, <2>3 DEF SameFor
<1>12. PlacedInv' /\ PlannedInv'
  BY <1>1, <1>8, <1>11, FindableSame DEF Findable
<1> QED BY <1>7, <1>10, <1>12 DEF Findable

\* Between two operations what is kept is on a connection.
LEMMA PlacedBetween ==
  ASSUME Findable, op = Idle, ~disturbed, NEW a \in Kept
  PROVE  Placed(a)
BY DEF Findable, PlacedInv, Moving, Idle, Coming

\* Nothing happens to the connections and their commands.
LEMMA SameStill ==
  ASSUME UNCHANGED <<tracked, inbox, sending>>
  PROVE  \A a : SameFor(a)
BY CommandedSame DEF SameFor

\* What is still wanted is placed, as an operation begins or ends that moves nothing.
LEMMA PlacedStill ==
  ASSUME Sound, UNCHANGED <<conns, tracked, inbox, sending>>, NEW a, Placed(a)
  PROVE  Placed(a)'
BY SameStill, PlacedSame

\* Assets the caller has just come with are on no connection.
LEMMA FindableBegins ==
  ASSUME Sound, Findable, NEW ids \in SUBSET Tokens, BeginSubscribe(ids) \/ BeginUnsubscribe(ids)
  PROVE  Findable'
<1>1. /\ op = Idle /\ sending = <<>>
      /\ UNCHANGED <<conns, tracked, inbox, sending, refused, disturbed>>
  BY DEF BeginSubscribe, BeginUnsubscribe, Begin
<1>2. \A d \in Slots : Commanded(d)' = Commanded(d)
  BY <1>1, CommandedSame
<1>3. CASE BeginSubscribe(ids)
  <2>1. PICK list \in SetToSeqs(ids) : op' = [Idle EXCEPT !.kind = "subscribe", !.list = list]
    BY <1>3 DEF BeginSubscribe
  <2>2. op'.kind = "subscribe" /\ op'.list = list /\ op'.add = {} /\ op'.plan = <<>>
    BY <2>1 DEF Idle
  <2>3. ToSet(list) = ids
    BY TokenList
  <2>4. wanted' = wanted \cup ids /\ given' = given
    BY <1>3 DEF BeginSubscribe
  <2>5. WantedInv'
    <3>1. \A d \in Slots : tracked[d] \subseteq wanted' /\ \A m \in Commanded(d) : m.ids \subseteq wanted'
      BY <2>4 DEF Findable, WantedInv
    <3>2. ToSet(op'.list) \subseteq wanted' /\ op'.add \subseteq wanted'
          /\ \A i \in DOMAIN op'.plan : op'.plan[i] \subseteq wanted'
      BY <2>2, <2>3, <2>4
    <3> QED BY <1>1, <1>2, <3>1, <3>2 DEF WantedInv, Slots
  <2>6. RoomInv'
    BY <1>1, <2>2 DEF Findable, RoomInv, Slots
  <2>7. ASSUME ~disturbed', NEW a \in Kept' PROVE Placed(a)' \/ Coming(a)'
    <3>1. CASE a \in Kept
      <4>1. Placed(a)
        BY <1>1, <2>7, <3>1, PlacedBetween
      <4> QED BY <1>1, <4>1, PlacedStill
    <3>2. CASE a \notin Kept
      <4>1. a \in ids /\ a \notin wanted
        BY <1>1, <2>4, <3>2 DEF Kept
      <4>2. Nowhere(a, Slots)
        BY <4>1 DEF Findable, WantedInv, Nowhere, NoOrder
      <4>3. SameFor(a)
        BY <1>1, SameStill
      <4>4. Nowhere(a, Slots)'
        BY <4>2, <4>3, NowhereLess DEF SameFor
      <4> QED BY <2>2, <2>3, <4>1, <4>4 DEF Coming
    <3> QED BY <3>1, <3>2
  <2>8. PlacedInv'
    BY <2>7 DEF PlacedInv
  <2>9. PlannedInv'
    BY <2>2 DEF PlannedInv, Moving
  <2> QED BY <2>5, <2>6, <2>8, <2>9 DEF Findable
<1>4. CASE BeginUnsubscribe(ids)
  <2> DEFINE plan == [c \in Spawned |-> ids \cap tracked[c]]
  <2>1. op' = [Idle EXCEPT !.kind = "unsubscribe", !.plan = plan] /\ wanted' = wanted
        /\ given' = given \cup ids
    BY <1>4 DEF BeginUnsubscribe
  <2>2. op'.kind = "unsubscribe" /\ op'.list = <<>> /\ op'.add = {} /\ op'.plan = plan
    BY <2>1 DEF Idle
  <2>3. \A i \in DOMAIN plan : plan[i] \subseteq wanted
    <3>1. \A c \in Spawned : tracked[c] \subseteq wanted
      BY CallerFacts DEF Findable, WantedInv
    <3> QED BY <3>1
  <2>4. ToSet(<<>>) = {}
    BY DEF ToSet
  <2> HIDE DEF plan
  <2>5. WantedInv'
    <3>1. \A d \in Slots : tracked[d] \subseteq wanted' /\ \A m \in Commanded(d) : m.ids \subseteq wanted'
      BY <2>1 DEF Findable, WantedInv
    <3>2. ToSet(op'.list) \subseteq wanted' /\ op'.add \subseteq wanted'
          /\ \A i \in DOMAIN op'.plan : op'.plan[i] \subseteq wanted'
      BY <2>1, <2>2, <2>3, <2>4
    <3> QED BY <1>1, <1>2, <3>1, <3>2 DEF WantedInv, Slots
  <2>6. RoomInv'
    BY <1>1, <2>2 DEF Findable, RoomInv, Slots
  <2>7. ASSUME ~disturbed', NEW a \in Kept' PROVE Placed(a)'
    <3>1. a \in Kept
      BY <1>1, <2>1 DEF Kept
    <3>2. Placed(a)
      BY <1>1, <2>7, <3>1, PlacedBetween
    <3> QED BY <1>1, <3>2, PlacedStill
  <2>8. PlacedInv'
    BY <2>7 DEF PlacedInv
  <2>9. PlannedInv'
    BY <2>2 DEF PlannedInv, Moving
  <2> QED BY <2>5, <2>6, <2>8, <2>9 DEF Findable
<1> QED BY <1>3, <1>4

\* An operation ends, or the pool is about to move, or to stop.
LEMMA FindableCounts ==
  ASSUME Sound, Findable, BeginConsolidate
  PROVE  Findable'
<1>1. /\ op = Idle /\ sending = <<>>
      /\ UNCHANGED <<conns, tracked, inbox, sending, wanted, given, refused, disturbed>>
  BY DEF BeginConsolidate, Begin, history
<1>2. PICK needed \in Nat : /\ Total <= needed * Cap /\ Total \in Nat
                            /\ op' = [Idle EXCEPT !.kind = "collect", !.at = needed + 1]
  BY NeededIs
<1>3. op'.kind = "collect" /\ op'.list = <<>> /\ op'.add = {} /\ op'.plan = <<>> /\ op'.at = needed + 1
  BY <1>2 DEF Idle
<1>4. \A d \in Slots : Commanded(d)' = Commanded(d)
  BY <1>1, CommandedSame
<1>5. ToSet(<<>>) = {} /\ DOMAIN op'.plan = {}
  BY <1>3 DEF ToSet
<1>6. WantedInv'
  BY <1>1, <1>3, <1>4, <1>5 DEF Findable, WantedInv, Slots
<1>7. RoomInv'
  <2> SUFFICES ASSUME ~disturbed' PROVE RoomInv'
    BY DEF RoomInv
  <2>1. Total' = Total
    BY <1>1 DEF Total, Spawned, Slots
  <2>2. op'.at - 1 = needed
    BY <1>3
  <2>3. Total' <= (op'.at - 1) * Cap
    BY <1>2, <2>1, <2>2
  <2>4. \A d \in Slots : Cardinality(tracked[d]) <= Cap
    BY <1>1 DEF Findable, RoomInv
  <2> QED BY <1>1, <1>3, <2>3, <2>4 DEF RoomInv, Slots
<1>8. PlacedInv'
  <2>1. Kept' = Kept
    BY <1>1 DEF Kept
  <2> QED BY <1>1, <2>1, PlacedBetween, PlacedStill DEF PlacedInv
<1>9. PlannedInv'
  BY <1>3 DEF PlannedInv, Moving
<1> QED BY <1>6, <1>7, <1>8, <1>9 DEF Findable

\* The steps of the tasks but for the drain, and those that only affect commands.
LEMMA FindableTasks ==
  ASSUME Sound, Sound', Findable, NEW c \in Spawned,
         Task(c) \/ JoinFails(c) \/ ReceiveFails(c) \/ Lose(c)
  PROVE  Findable'
<1>1. CASE DrainNext(c)
  BY <1>1, FindableDrained
<1>2. CASE Join(c) \/ JoinFails(c) \/ Lose(c) \/ Retry(c) \/ End(c)
  <2>1. UNCHANGED <<conns, tracked, inbox, sending, op, wanted, given, refused, disturbed>>
    BY <1>2 DEF Join, JoinFails, Lose, Retry, End, taskVars, connVars, caller
  <2>2. \A d \in Slots : Commanded(d)' \subseteq Commanded(d)
    BY <2>1, CommandedSame
  <2> QED BY <2>1, <2>2, FindableFewer
<1>3. CASE Receive(c) \/ ReceiveFails(c)
  <2>1. /\ UNCHANGED <<conns, tracked, sending, op, wanted, given, refused, disturbed>>
        /\ inbox[c] # <<>> /\ inbox' = [inbox EXCEPT ![c] = Tail(@)]
    BY <1>3 DEF Receive, ReceiveFails, taskVars, connVars, caller
  <2>2. c \in Slots
    BY CallerFacts
  <2>3. \A d \in Slots : Commanded(d)' \subseteq Commanded(d)
    BY <2>1, <2>2, CommandedRead
  <2> QED BY <2>1, <2>3, FindableFewer
<1> QED BY <1>1, <1>2, <1>3 DEF Task

\* A command goes into a channel, or the tasks are told to stop.
LEMMA FindableSent == ASSUME Sound, Findable, Send \/ Stop PROVE Findable'
<1>1. CASE Send
  <2>1. UNCHANGED <<conns, tracked, op, wanted, given, refused, disturbed>>
    BY <1>1 DEF Send
  <2> QED BY <1>1, <2>1, CommandedSent, FindableFewer
<1>2. CASE Stop
  <2>1. UNCHANGED <<conns, tracked, inbox, sending, op, wanted, given, refused, disturbed>>
    BY <1>2 DEF Stop, history
  <2>2. \A d \in Slots : Commanded(d)' \subseteq Commanded(d)
    BY <2>1, CommandedSame
  <2> QED BY <2>1, <2>2, FindableFewer
<1> QED BY <1>1, <1>2

\* Assets are put on connection c.
LEMMA PutOn ==
  ASSUME Sound, NEW c \in Spawned, NEW ids \in SUBSET Tokens, Put(c, ids),
         sending = <<>>, inbox' = inbox
  PROVE  /\ tracked'[c] = tracked[c] \cup ids
         /\ \A d \in Slots : d # c => tracked'[d] = tracked[d]
         /\ \A d \in Slots : Commanded(d)' =
              IF d = c THEN Commanded(d) \cup {Command("Subscribe", ids)} ELSE Commanded(d)
         /\ Command("Subscribe", ids).ids = ids /\ Command("Subscribe", ids).kind = "Subscribe"
<1>1. c \in Slots /\ tracked \in [Slots -> SUBSET Tokens]
  BY CallerFacts
<1>2. tracked' = [tracked EXCEPT ![c] = @ \cup ids]
      /\ sending' = <<[conn |-> c, cmd |-> Command("Subscribe", ids)]>>
  BY DEF Put
<1>3. tracked'[c] = tracked[c] \cup ids /\ \A d \in Slots : d # c => tracked'[d] = tracked[d]
  BY <1>1, <1>2
<1>4. \A d \in Slots : Commanded(d)' =
              IF d = c THEN Commanded(d) \cup {Command("Subscribe", ids)} ELSE Commanded(d)
  BY <1>2, CommandedMore
<1>5. Command("Subscribe", ids).ids = ids /\ Command("Subscribe", ids).kind = "Subscribe"
  BY DEF Command
<1> QED BY <1>3, <1>4, <1>5

\* What is not among them is not touched.
LEMMA PutOthers ==
  ASSUME Sound, NEW c \in Spawned, NEW ids \in SUBSET Tokens, Put(c, ids),
         sending = <<>>, inbox' = inbox, NEW a, a \notin ids
  PROVE  SameFor(a)
BY PutOn DEF SameFor

\* An asset that was placed is placed, on c if it comes before the old place.
LEMMA PutPlaces ==
  ASSUME Sound, NEW c \in Spawned, NEW ids \in SUBSET Tokens, Put(c, ids),
         sending = <<>>, inbox' = inbox, conns' = conns,
         NEW a, Placed(a) \/ (Nowhere(a, Slots) /\ a \in ids)
  PROVE  Placed(a)'
<1>1. CASE a \notin ids
  <2>1. SameFor(a) /\ Placed(a)
    BY <1>1, PutOthers
  <2> QED BY <2>1, PlacedSame
<1>2. CASE a \in ids
  <2>0. Spawned' = Spawned
    BY DEF Spawned
  <2>1. /\ tracked'[c] = tracked[c] \cup ids
        /\ \A d \in Slots : d # c => tracked'[d] = tracked[d]
        /\ \A d \in Slots : \A o \in Commanded(d)' : o \in Commanded(d) \/ (d = c /\ o.kind = "Subscribe")
    BY PutOn
  <2>2. c \in Nat /\ c \in Slots /\ 1..(c - 1) \subseteq Slots
    BY Before
  <2>3. \A d \in 1..(c - 1) : d # c
    BY <2>2
  <2>4. CASE Nowhere(a, 1..c)
    <3>1. NotLeaving(c, a)'
      <4>1. c \in 1..c
        BY CallerFacts
      <4>2. NoOrder(c, a)
        BY <2>4, <4>1 DEF Nowhere
      <4> QED BY <2>1, <2>2, <4>2 DEF NoOrder, NotLeaving
    <3>2. \A d \in 1..(c - 1) : d \in 1..c
      BY <2>2
    <3>3. Nowhere(a, 1..(c - 1))'
      BY <2>1, <2>2, <2>3, <2>4, <3>2 DEF Nowhere, NoOrder
    <3>4. a \in tracked'[c] /\ Anchored(c, a)'
      BY <1>2, <2>1, <3>1, <3>3 DEF Anchored
    <3> QED BY <2>0, <3>4 DEF Placed
  <2>5. CASE Placed(a)
    <3>1. PICK m \in Spawned : a \in tracked[m] /\ Anchored(m, a)
      BY <2>5 DEF Placed
    <3>2. m \in Nat /\ m \in Slots /\ 1..(m - 1) \subseteq Slots
      BY Before
    <3>3. CASE c < m
      <4>1. \A d \in 1..c : d \in 1..(m - 1)
        BY <2>2, <3>2, <3>3
      <4>2. Nowhere(a, 1..c)
        BY <3>1, <4>1 DEF Anchored, Nowhere
      <4> QED BY <2>4, <4>2
    <3>4. CASE ~ (c < m)
      <4>1. \A d \in 1..(m - 1) : d \in Slots /\ d # c
        BY <2>2, <3>2, <3>4
      <4>2. Anchored(m, a)'
        BY <2>1, <3>1, <3>2, <4>1, AnchorStays
      <4>3. a \in tracked'[m]
        BY <2>1, <3>1, <3>2
      <4> QED BY <2>0, <4>2, <4>3 DEF Placed
    <3> QED BY <3>3, <3>4
  <2>6. CASE Nowhere(a, Slots)
    <3>1. \A d \in 1..c : d \in Slots
      <4>1. \A d \in 1..c : d = c \/ d \in 1..(c - 1)
        BY <2>2
      <4> QED BY <2>2, <4>1
    <3>2. Nowhere(a, 1..c)
      BY <2>6, <3>1 DEF Nowhere
    <3> QED BY <2>4, <3>2
  <2> QED BY <2>5, <2>6
<1> QED BY <1>1, <1>2

\* Assets are taken off connection c: the others are not touched.
LEMMA TakeOff ==
  ASSUME Sound, NEW c \in Spawned, NEW ids \in SUBSET Tokens, Take(c, ids),
         sending = <<>>, inbox' = inbox
  PROVE  /\ tracked'[c] = tracked[c] \ ids
         /\ \A d \in Slots : d # c => tracked'[d] = tracked[d]
         /\ \A d \in Slots : Commanded(d)' =
              IF d = c THEN Commanded(d) \cup {Command("Unsubscribe", ids)} ELSE Commanded(d)
         /\ Command("Unsubscribe", ids).ids = ids
         /\ \A a : a \notin ids => SameFor(a)
<1>1. c \in Slots /\ tracked \in [Slots -> SUBSET Tokens]
  BY CallerFacts
<1>2. tracked' = [tracked EXCEPT ![c] = @ \ ids]
      /\ sending' = <<[conn |-> c, cmd |-> Command("Unsubscribe", ids)]>>
  BY DEF Take
<1>3. tracked'[c] = tracked[c] \ ids /\ \A d \in Slots : d # c => tracked'[d] = tracked[d]
  BY <1>1, <1>2
<1>4. \A d \in Slots : Commanded(d)' =
              IF d = c THEN Commanded(d) \cup {Command("Unsubscribe", ids)} ELSE Commanded(d)
  BY <1>2, CommandedMore
<1>5. Command("Unsubscribe", ids).ids = ids
  BY DEF Command
<1>6. ASSUME NEW a, a \notin ids PROVE SameFor(a)
  BY <1>3, <1>4, <1>5, <1>6 DEF SameFor
<1> QED BY <1>3, <1>4, <1>5, <1>6

\* What is put or taken was wanted: the rest of WantedInv.
LEMMA WantedMoved ==
  ASSUME Sound, WantedInv, NEW c \in Spawned, NEW ids \in SUBSET Tokens, ids \subseteq wanted,
         Put(c, ids) \/ Take(c, ids), sending = <<>>, inbox' = inbox, wanted' = wanted,
         ToSet(op'.list) \subseteq wanted, op'.add \subseteq wanted,
         \A i \in DOMAIN op'.plan : op'.plan[i] \subseteq wanted
  PROVE  WantedInv'
<1>1. \A d \in Slots : tracked'[d] \subseteq wanted /\ \A o \in Commanded(d)' : o.ids \subseteq wanted
  <2>1. CASE Put(c, ids)
    BY <2>1, PutOn DEF WantedInv
  <2>2. CASE Take(c, ids)
    BY <2>2, TakeOff DEF WantedInv
  <2> QED BY <2>1, <2>2
<1> QED BY <1>1 DEF WantedInv, Slots

\* The rest of it when no connection is touched.
LEMMA WantedStill ==
  ASSUME WantedInv, UNCHANGED <<tracked, inbox, sending, wanted>>,
         ToSet(op'.list) \subseteq wanted, op'.add \subseteq wanted,
         \A i \in DOMAIN op'.plan : op'.plan[i] \subseteq wanted
  PROVE  WantedInv'
BY CommandedSame DEF WantedInv, Slots

\* Phase 1 of a subscription: what is meant for a connection fits on it,
LEMMA FindableSubscribe == ASSUME Sound, Findable, SubscribeNext PROVE Findable'
<1>1. PICK n \in 0..Len(op.list) :
           /\ op.at \in Spawned /\ op.kind = "subscribe" /\ sending = <<>>
           /\ Cardinality(tracked[op.at]) \in Nat
           /\ Cardinality(tracked[op.at]) <= Cap => Cardinality(tracked[op.at]) + n <= Cap
           /\ op' = IF n = 0 THEN [op EXCEPT !.at = op.at + 1]
                    ELSE [op EXCEPT !.kind = "insert", !.add = ToSet(SubSeq(op.list, 1, n)),
                                    !.list = SubSeq(op.list, n + 1, Len(op.list))]
           /\ UNCHANGED <<conns, tracked, inbox, link, served, running, sending, ops, history>>
  BY SubscribeNextIs
<1> DEFINE c == op.at
           first == SubSeq(op.list, 1, n)
           rest == SubSeq(op.list, n + 1, Len(op.list))
           ids == ToSet(first)
<1>2. op.list \in Seq(Tokens) /\ op \in Operations
  BY CallerFacts, OperationType
<1>3. first \in Seq(Tokens) /\ Len(first) = n /\ rest \in Seq(Tokens)
      /\ ToSet(op.list) = ids \cup ToSet(rest)
  BY <1>2, Parts
<1>4. op' = IF n = 0 THEN [op EXCEPT !.at = op.at + 1]
            ELSE [op EXCEPT !.kind = "insert", !.add = ids, !.list = rest]
  BY <1>1
<1>5. ids \in SUBSET Tokens /\ IsFiniteSet(ids) /\ Cardinality(ids) <= n
  <2> HIDE DEF first
  <2> QED BY <1>3, ToSetType, MembersBounded
<1> HIDE DEF first, rest, ids
<1>6. /\ op'.plan = op.plan
      /\ \/ op'.kind = "subscribe" /\ op'.list = op.list /\ op'.add = op.add
         \/ op'.kind = "insert" /\ op'.at = c /\ op'.list = rest /\ op'.add = ids
  <2>1. CASE n = 0
    BY <1>1, <1>2, <1>4, <2>1 DEF Operations
  <2>2. CASE n # 0
    BY <1>2, <1>4, <2>2 DEF Operations
  <2> QED BY <2>1, <2>2
<1>7. /\ c \in Spawned /\ op.kind = "subscribe"
      /\ UNCHANGED <<conns, tracked, inbox, sending, wanted, given, refused, disturbed>>
  BY <1>1 DEF history
<1>8. WantedInv'
  <2>1. ToSet(op'.list) \subseteq wanted /\ op'.add \subseteq wanted
        /\ \A i \in DOMAIN op'.plan : op'.plan[i] \subseteq wanted
    BY <1>3, <1>6 DEF Findable, WantedInv
  <2> QED BY <1>7, <2>1, WantedStill DEF Findable
<1>9. RoomInv'
  <2> SUFFICES ASSUME ~disturbed' PROVE RoomInv'
    BY DEF RoomInv
  <2>1. \A d \in Slots : Cardinality(tracked[d]) <= Cap
    BY <1>7 DEF Findable, RoomInv
  <2>2. Cardinality(tracked[c] \cup ids) <= Cap
    <3>1. tracked[c] \in SUBSET Tokens /\ c \in Slots
      BY <1>7, CallerFacts
    <3>2. IsFiniteSet(tracked[c])
      BY <3>1, TokensAssumption, FS_Subset
    <3>3. Cardinality(tracked[c] \cup ids)
            = Cardinality(tracked[c]) + Cardinality(ids) - Cardinality(tracked[c] \cap ids)
      BY <1>5, <3>2, FS_Union
    <3>4. IsFiniteSet(tracked[c] \cap ids)
      BY <3>2, FS_Subset
    <3>5. /\ Cardinality(tracked[c] \cap ids) \in Nat /\ Cardinality(ids) \in Nat
          /\ Cardinality(tracked[c]) \in Nat
      BY <1>5, <3>2, <3>4, FS_CardinalityType
    <3>6. Cardinality(tracked[c]) + n <= Cap /\ n \in Nat
      BY <1>1, <2>1, <3>1
    <3> DEFINE x == Cardinality(tracked[c])
               y == Cardinality(ids)
               z == Cardinality(tracked[c] \cap ids)
    <3>7. /\ x \in Nat /\ y \in Nat /\ z \in Nat /\ n \in Nat /\ Cap \in Nat
          /\ y <= n /\ x + n <= Cap
      BY <1>5, <3>5, <3>6, SlotsType
    <3> HIDE DEF x, y, z
    <3>8. x + y - z <= Cap
      BY <3>7
    <3> QED BY <3>3, <3>8 DEF x, y, z
  <2> QED BY <1>6, <1>7, <2>1, <2>2 DEF RoomInv, Slots
<1>10. ASSUME ~disturbed', NEW a \in Kept' PROVE Placed(a)' \/ Coming(a)'
  <2>1. ~disturbed /\ a \in Kept /\ ~Moving
    BY <1>7, <1>10 DEF Kept, Moving
  <2>2. Placed(a) \/ Coming(a)
    BY <2>1 DEF Findable, PlacedInv
  <2>3. SameFor(a)
    BY <1>7, SameStill
  <2>4. CASE Placed(a)
    BY <1>7, <2>3, <2>4, PlacedSame
  <2>5. CASE Coming(a)
    <3>1. Nowhere(a, Slots)'
      BY <2>3, <2>5, NowhereLess DEF Coming, SameFor
    <3> QED BY <1>3, <1>6, <1>7, <2>5, <3>1 DEF Coming
  <2> QED BY <2>2, <2>4, <2>5
<1>11. PlacedInv'
  BY <1>10 DEF PlacedInv
<1>12. PlannedInv'
  BY <1>6 DEF PlannedInv, Moving
<1> QED BY <1>8, <1>9, <1>11, <1>12 DEF Findable

\* and is put on it.
LEMMA FindableInsert == ASSUME Sound, Findable, InsertNext PROVE Findable'
<1> DEFINE c == op.at
           ids == op.add
<1>1. /\ op.kind = "insert" /\ sending = <<>> /\ Put(c, ids)
      /\ op' = [op EXCEPT !.kind = "subscribe", !.at = op.at + 1, !.add = {}]
      /\ UNCHANGED <<conns, inbox, wanted, given, refused, disturbed>>
  BY DEF InsertNext, history
<1>2. c \in Spawned /\ ids \in SUBSET Tokens /\ op \in Operations
  BY <1>1, CallerFacts, OperationType DEF Sound, OpInv
<1>3. op'.kind = "subscribe" /\ op'.list = op.list /\ op'.add = {} /\ op'.plan = op.plan
  BY <1>1, <1>2 DEF Operations
<1>4. WantedInv'
  <2>1. ids \subseteq wanted /\ ToSet(op'.list) \subseteq wanted /\ op'.add \subseteq wanted
        /\ \A i \in DOMAIN op'.plan : op'.plan[i] \subseteq wanted
    BY <1>3 DEF Findable, WantedInv
  <2> QED BY <1>1, <1>2, <2>1, WantedMoved DEF Findable
<1>5. /\ tracked'[c] = tracked[c] \cup ids
      /\ \A d \in Slots : d # c => tracked'[d] = tracked[d]
  BY <1>1, <1>2, PutOn
<1>6. RoomInv'
  <2> SUFFICES ASSUME ~disturbed' PROVE RoomInv'
    BY DEF RoomInv
  <2>1. /\ \A d \in Slots : Cardinality(tracked[d]) <= Cap
        /\ Cardinality(tracked[c] \cup ids) <= Cap
    BY <1>1 DEF Findable, RoomInv
  <2>2. \A d \in Slots : Cardinality(tracked'[d]) <= Cap
    BY <1>5, <2>1
  <2> QED BY <1>3, <2>2 DEF RoomInv, Slots
<1>7. ASSUME ~disturbed', NEW a \in Kept' PROVE Placed(a)' \/ Coming(a)'
  <2>1. ~disturbed /\ a \in Kept /\ ~Moving
    BY <1>1, <1>7 DEF Kept, Moving
  <2>2. Placed(a) \/ Coming(a)
    BY <2>1 DEF Findable, PlacedInv
  <2>3. CASE Placed(a) \/ (Nowhere(a, Slots) /\ a \in ids)
    BY <1>1, <1>2, <2>3, PutPlaces
  <2>4. CASE Coming(a) /\ a \notin ids
    <3>1. SameFor(a)
      BY <1>1, <1>2, <2>4, PutOthers
    <3>2. Nowhere(a, Slots)'
      BY <2>4, <3>1, NowhereLess DEF Coming, SameFor
    <3> QED BY <1>1, <1>3, <2>4, <3>2 DEF Coming
  <2> QED BY <2>2, <2>3, <2>4 DEF Coming
<1>8. PlacedInv'
  BY <1>7 DEF PlacedInv
<1>9. PlannedInv'
  BY <1>3 DEF PlannedInv, Moving
<1> QED BY <1>4, <1>6, <1>8, <1>9 DEF Findable

\* The first chunk of a list, and what comes after it.
LEMMA FirstChunk ==
  ASSUME NEW list \in Seq(Tokens), list # <<>>
  PROVE  /\ ToSet(list) = Chunk(list, 1) \cup ToSet(SubSeq(list, Cap + 1, Len(list)))
         /\ Chunk(list, 1) \subseteq ToSet(list) /\ Cardinality(Chunk(list, 1)) <= Cap
<1> DEFINE len == Len(list)
           n == IF Cap <= len THEN Cap ELSE len
<1>1. len \in Nat /\ Cap \in Nat /\ Cap >= 1 /\ n \in 0..len
  BY SlotsType
<1>2. Chunk(list, 1) = ToSet(SubSeq(list, 1, n))
  <2>1. (1 - 1) * Cap + 1 = 1 /\ 1 * Cap = Cap
    BY <1>1
  <2> HIDE DEF len
  <2>2. Min({Cap, len}) = n
    BY <1>1, MinOfTwo
  <2> HIDE DEF n
  <2>3. Min({Cap, Len(list)}) = n
    BY <2>2 DEF len
  <2> QED BY <2>1, <2>3 DEF Chunk
<1>3. ToSet(list) = ToSet(SubSeq(list, 1, n)) \cup ToSet(SubSeq(list, n + 1, Len(list)))
  <2>1. n \in 0..Len(list)
    BY <1>1
  <2> HIDE DEF n
  <2> QED BY <2>1, Parts
<1>4. ToSet(SubSeq(list, n + 1, Len(list))) = ToSet(SubSeq(list, Cap + 1, Len(list)))
  <2>1. CASE Cap <= len
    BY <2>1
  <2>2. CASE ~ (Cap <= len)
    <3>1. SubSeq(list, n + 1, Len(list)) = <<>> /\ SubSeq(list, Cap + 1, Len(list)) = <<>>
      BY <1>1, <2>2
    <3> QED BY <3>1
  <2> QED BY <2>1, <2>2
<1>5. Chunk(list, 1) \subseteq ToSet(list) /\ Cardinality(Chunk(list, 1)) <= Cap
  BY ChunkPlaces
<1> QED BY <1>2, <1>3, <1>4, <1>5

\* A new connection starts with a chunk tracked and without commands.
LEMMA FindableSpawned ==
  ASSUME Sound, Findable, SpawnNext, op.list # <<>>, conns < MaxConns
  PROVE  Findable'
<1>0. PICK k \in Nat : k = conns + 1
  BY CallerFacts
<1> DEFINE first == Chunk(op.list, 1)
           rest == SubSeq(op.list, Cap + 1, Len(op.list))
<1>1. /\ op.kind = "subscribe" /\ sending = <<>>
      /\ conns' = k /\ tracked' = [tracked EXCEPT ![k] = first]
      /\ op' = [op EXCEPT !.at = op.at + 1, !.list = rest]
      /\ UNCHANGED <<inbox, sending, wanted, given, refused, disturbed>>
  BY <1>0 DEF SpawnNext
<1>2. op.list \in Seq(Tokens) /\ op \in Operations
  BY CallerFacts, OperationType
<1>3. /\ ToSet(op.list) = first \cup ToSet(rest)
      /\ first \subseteq ToSet(op.list) /\ Cardinality(first) <= Cap
  BY <1>2, FirstChunk
<1>4. op'.kind = "subscribe" /\ op'.list = rest /\ op'.add = op.add /\ op'.plan = op.plan
  <2> HIDE DEF rest
  <2> QED BY <1>1, <1>2 DEF Operations
<1> HIDE DEF first, rest
<1>5. k \in Slots \ Spawned /\ conns \in Nat /\ tracked \in [Slots -> SUBSET Tokens]
      /\ Spawned \subseteq Spawned' /\ k \in Spawned'
  <2>1. conns \in Nat /\ conns >= 1 /\ conns < MaxConns
    BY CallerFacts
  <2> QED BY <1>0, <1>1, <2>1, SlotsType, CallerFacts DEF Slots, Spawned
<1>6. tracked[k] = {} /\ inbox[k] = <<>>
  BY <1>5, CallerFacts
<1>7. tracked'[k] = first /\ \A d \in Slots : d # k => tracked'[d] = tracked[d]
  BY <1>1, <1>5
<1>8. (\A d \in Slots : Commanded(d)' = Commanded(d)) /\ Commanded(k) = {}
  <2>1. \A d \in Slots : Commanded(d)' = Commanded(d)
    BY <1>1, CommandedSame
  <2>2. Commanded(k) = {}
    BY <1>1, <1>6 DEF Commanded
  <2> QED BY <2>1, <2>2
<1>9. WantedInv'
  <2>1. first \subseteq wanted /\ ToSet(rest) \subseteq wanted
    BY <1>3 DEF Findable, WantedInv
  <2>2. \A d \in Slots : tracked'[d] \subseteq wanted /\ \A o \in Commanded(d)' : o.ids \subseteq wanted
    BY <1>7, <1>8, <2>1 DEF Findable, WantedInv
  <2>3. op.add \subseteq wanted /\ \A i \in DOMAIN op.plan : op.plan[i] \subseteq wanted
    BY DEF Findable, WantedInv
  <2> QED BY <1>1, <1>4, <2>1, <2>2, <2>3 DEF WantedInv, Slots
<1>10. RoomInv'
  <2> SUFFICES ASSUME ~disturbed' PROVE RoomInv'
    BY DEF RoomInv
  <2>1. \A d \in Slots : Cardinality(tracked[d]) <= Cap
    BY <1>1 DEF Findable, RoomInv
  <2>2. \A d \in Slots : Cardinality(tracked'[d]) <= Cap
    BY <1>3, <1>7, <2>1
  <2> QED BY <1>4, <2>2 DEF RoomInv, Slots
<1>11. ASSUME ~disturbed', NEW a \in Kept' PROVE Placed(a)' \/ Coming(a)'
  <2>1. ~disturbed /\ a \in Kept /\ ~Moving
    BY <1>1, <1>11 DEF Kept, Moving
  <2>2. Placed(a) \/ Coming(a)
    BY <2>1 DEF Findable, PlacedInv
  <2>3. CASE Placed(a)
    <3>1. PICK m \in Spawned : a \in tracked[m] /\ Anchored(m, a)
      BY <2>3 DEF Placed
    <3>2. m \in Nat /\ m \in Slots /\ 1..(m - 1) \subseteq Slots /\ m # k
      BY <1>5, Before
    <3>3. \A d \in 1..(m - 1) : d # k
      BY <1>0, <1>5, <3>2, CallerFacts DEF Spawned
    <3>4. Anchored(m, a)'
      BY <1>7, <1>8, <3>1, <3>2, <3>3, AnchorStays
    <3>5. a \in tracked'[m]
      BY <1>7, <3>1, <3>2
    <3> QED BY <1>5, <3>4, <3>5 DEF Placed
  <2>4. CASE Coming(a) /\ a \in first
    <3>1. 1..(k - 1) \subseteq Slots /\ \A d \in 1..(k - 1) : d # k
      <4>1. k - 1 = conns /\ k \notin 1..conns
        BY <1>0, <1>5
      <4>2. 1..(k - 1) = Spawned
        BY <4>1 DEF Spawned
      <4> QED BY <4>1, <4>2, CallerFacts
    <3>2. Nowhere(a, 1..(k - 1))'
      BY <1>7, <1>8, <2>4, <3>1 DEF Coming, Nowhere, NoOrder
    <3>3. NotLeaving(k, a)'
      BY <1>5, <1>8 DEF NotLeaving
    <3>4. a \in tracked'[k] /\ Anchored(k, a)'
      BY <1>7, <2>4, <3>2, <3>3 DEF Anchored
    <3> QED BY <1>5, <3>4 DEF Placed
  <2>5. CASE Coming(a) /\ a \notin first
    <3>1. SameFor(a)
      BY <1>6, <1>7, <1>8, <2>5 DEF SameFor
    <3>2. Nowhere(a, Slots)'
      BY <2>5, <3>1, NowhereLess DEF Coming, SameFor
    <3> QED BY <1>1, <1>3, <1>4, <2>5, <3>2 DEF Coming
  <2> QED BY <2>2, <2>3, <2>4, <2>5
<1>12. PlacedInv'
  BY <1>11 DEF PlacedInv
<1>13. PlannedInv'
  BY <1>4 DEF PlannedInv, Moving
<1> QED BY <1>9, <1>10, <1>12, <1>13 DEF Findable

\* An operation ends: what was still to come is refused.
LEMMA FindableEnds ==
  ASSUME Sound, Findable, op' = Idle, sending = <<>>,
         UNCHANGED <<conns, tracked, inbox, sending, wanted, given, disturbed>>,
         ~disturbed => \A a \in Kept' : Placed(a)
  PROVE  Findable'
<1>1. op'.list = <<>> /\ op'.add = {} /\ op'.plan = <<>> /\ op'.kind = "idle"
  BY DEF Idle
<1>2. ToSet(<<>>) = {} /\ DOMAIN op'.plan = {}
  BY <1>1 DEF ToSet
<1>3. WantedInv'
  BY <1>1, <1>2, WantedStill DEF Findable
<1>4. RoomInv'
  BY <1>1 DEF Findable, RoomInv, Slots
<1>5. PlacedInv'
  BY PlacedStill DEF PlacedInv
<1>6. PlannedInv'
  BY <1>1 DEF PlannedInv, Moving
<1> QED BY <1>3, <1>4, <1>5, <1>6 DEF Findable

\* A connection is spawned for assets that the others had no room for.
LEMMA FindableSpawn == ASSUME Sound, Findable, SpawnNext PROVE Findable'
<1>1. CASE op.list # <<>> /\ conns < MaxConns
  BY <1>1, FindableSpawned
<1>2. CASE ~ (op.list # <<>> /\ conns < MaxConns)
  <2>1. /\ op' = Idle /\ sending = <<>> /\ refused' = refused \cup ToSet(op.list)
        /\ UNCHANGED <<conns, tracked, inbox, sending, wanted, given, disturbed>>
        /\ op.kind = "subscribe"
    BY <1>2 DEF SpawnNext
  <2>2. ASSUME ~disturbed, NEW a \in Kept' PROVE Placed(a)
    <3>1. a \in Kept /\ a \notin ToSet(op.list)
      BY <2>1 DEF Kept
    <3> QED BY <2>1, <2>2, <3>1 DEF Findable, PlacedInv, Moving, Coming
  <2> QED BY <2>1, <2>2, FindableEnds
<1> QED BY <1>1, <1>2

\* A subscription ends: all of it is tracked, or refused.
LEMMA FindableDone == ASSUME Sound, Findable, SubscribeDone PROVE Findable'
<1>1. /\ op' = Idle /\ sending = <<>> /\ op.list = <<>> /\ op.kind = "subscribe"
      /\ UNCHANGED <<conns, tracked, inbox, sending, wanted, given, refused, disturbed>>
  BY DEF SubscribeDone, history
<1>2. ASSUME ~disturbed, NEW a \in Kept' PROVE Placed(a)
  <2>1. a \in Kept
    BY <1>1 DEF Kept
  <2>2. ToSet(op.list) = {}
    BY <1>1 DEF ToSet
  <2> QED BY <1>1, <1>2, <2>1, <2>2 DEF Findable, PlacedInv, Moving, Coming
<1> QED BY <1>1, <1>2, FindableEnds

\* Only what was given up is taken off.
LEMMA FindableUnsubscribe == ASSUME Sound, Findable, UnsubscribeNext PROVE Findable'
<1>1. /\ op.kind = "unsubscribe" /\ sending = <<>>
      /\ UNCHANGED <<conns, inbox, wanted, given, refused, disturbed>>
  BY DEF UnsubscribeNext
<1>2. op.plan \in Seq(SUBSET Tokens) /\ DOMAIN op.plan = Spawned
      /\ \A i \in DOMAIN op.plan : op.plan[i] \subseteq given
  BY <1>1, CallerFacts, OperationType DEF Sound, OpInv
<1>3. ASSUME ~disturbed, NEW a \in Kept PROVE Placed(a)
  BY <1>1, <1>3 DEF Findable, PlacedInv, Moving, Coming
<1>4. Kept' = Kept
  BY <1>1 DEF Kept
<1>5. CASE \E c \in DOMAIN op.plan : op.plan[c] # {}
  <2>1. PICK c \in DOMAIN op.plan : Take(c, op.plan[c]) /\ op' = [op EXCEPT !.plan[c] = {}]
    BY <1>5 DEF UnsubscribeNext
  <2> DEFINE ids == op.plan[c]
             rest == [op.plan EXCEPT ![c] = {}]
  <2>2. c \in Spawned /\ ids \in SUBSET Tokens /\ ids \subseteq given /\ ids \subseteq wanted
        /\ Take(c, ids)
    BY <1>2, <2>1 DEF Findable, WantedInv
  <2>3. /\ tracked'[c] = tracked[c] \ ids
        /\ \A d \in Slots : d # c => tracked'[d] = tracked[d]
        /\ \A a : a \notin ids => SameFor(a)
    BY <1>1, <2>2, TakeOff
  <2>4. op \in Operations /\ op' = [op EXCEPT !.plan = rest]
    BY <2>1, CallerFacts
  <2>5. \A i \in DOMAIN rest : rest[i] \subseteq wanted
    BY <1>2 DEF Findable, WantedInv
  <2> HIDE DEF ids, rest
  <2>6. op'.kind = "unsubscribe" /\ op'.plan = rest /\ op'.list = op.list /\ op'.add = op.add
    BY <1>1, <2>4 DEF Operations
  <2>7. WantedInv'
    <3>1. WantedInv /\ ToSet(op'.list) \subseteq wanted /\ op'.add \subseteq wanted
          /\ \A i \in DOMAIN op'.plan : op'.plan[i] \subseteq wanted
      BY <2>5, <2>6 DEF Findable, WantedInv
    <3> QED BY <1>1, <2>2, <3>1, WantedMoved
  <2>8. RoomInv'
    <3>1. ASSUME ~disturbed', NEW d \in Slots PROVE Cardinality(tracked'[d]) <= Cap
      <4>1. tracked[d] \in SUBSET Tokens /\ tracked'[d] \in SUBSET tracked[d]
        BY <2>3, CallerFacts
      <4>2. Cardinality(tracked[d]) <= Cap
        BY <1>1, <3>1 DEF Findable, RoomInv
      <4> QED BY <4>1, <4>2, TokensCounted, SlotsType
    <3> QED BY <2>6, <3>1 DEF RoomInv, Slots
  <2>9. ASSUME ~disturbed', NEW a \in Kept' PROVE Placed(a)'
    <3>1. a \in Kept /\ Placed(a) /\ a \notin ids
      BY <1>1, <1>3, <1>4, <2>2, <2>9 DEF Kept
    <3>2. SameFor(a)
      BY <2>3, <3>1
    <3> QED BY <1>1, <3>1, <3>2, PlacedSame
  <2>10. PlacedInv'
    BY <2>9 DEF PlacedInv
  <2>11. PlannedInv'
    BY <2>6 DEF PlannedInv, Moving
  <2> QED BY <2>7, <2>8, <2>10, <2>11 DEF Findable
<1>6. CASE ~ \E c \in DOMAIN op.plan : op.plan[c] # {}
  <2>1. op' = Idle /\ UNCHANGED <<tracked, sending>>
    BY <1>6 DEF UnsubscribeNext
  <2> QED BY <1>1, <1>3, <1>4, <2>1, FindableEnds
<1> QED BY <1>5, <1>6

\* An asset that is placed on connection m is collected by then, and comes
\* into a chunk that is not behind it.
LEMMA PlannedByThen ==
  ASSUME Sound, RoomInv, ~disturbed, op.kind = "collect", NEW order \in Collected, NEW n \in Nat,
         n = (IF op.at - 1 <= NumChunks(Total) THEN op.at - 1 ELSE NumChunks(Total)),
         NEW m \in Spawned, NEW a \in tracked[m]
  PROVE  \E i \in 1..n : i <= m /\ a \in Chunk(FlattenSeq(order), i)
<1> DEFINE list == FlattenSeq(order)
           upto == SumFunctionOnSet(Sizes, 1..m)
<1>1. /\ list \in Seq(Tokens) /\ Len(list) = Total
      /\ \E p \in 1..Len(list) : list[p] = a /\ p <= upto
  BY CollectedList
<1>2. PICK p \in 1..Len(list) : list[p] = a /\ p <= upto
  BY <1>1
<1>3. Total \in Nat /\ op.at - 1 \in Nat /\ m \in Nat /\ p \in Nat
  <2>1. op.at \in 2..conns /\ conns \in Nat
    BY CallerFacts DEF Sound, OpInv
  <2>2. Total \in Nat /\ m \in Nat
    BY SizesType, Before
  <2>3. op.at - 1 \in Nat
    BY <2>1
  <2>4. p \in Nat
    BY <1>1, <2>2
  <2> QED BY <2>2, <2>3, <2>4
<1>4. upto <= m * Cap
  <2>1. ASSUME NEW d \in 1..m PROVE Sizes[d] \in Nat /\ Sizes[d] <= Cap
    <3>1. d \in Slots
      <4>1. d = m \/ d \in 1..(m - 1)
        BY <1>3
      <4> QED BY <4>1, Before
    <3> QED BY <3>1, SizesType DEF RoomInv
  <2> QED BY <1>3, <2>1, SlotsType, SumAtMost
<1>5. upto \in Nat
  <2>1. \A d \in 1..m : d \in Slots
    <3>1. \A d \in 1..m : d = m \/ d \in 1..(m - 1)
      BY <1>3
    <3> QED BY <3>1, Before
  <2>2. 1 \in Int /\ m \in Int
    BY <1>3
  <2>3. IsFiniteSet(1..m)
    BY <2>2, FS_Interval
  <2>4. \A d \in 1..m : Sizes[d] \in Nat
    BY <2>1, SizesType
  <2> QED BY <2>3, <2>4, SumNat
<1> DEFINE i == NumChunks(p)
           q == NumChunks(Total)
           needed == op.at - 1
<1>6. i \in Nat \ {0} /\ a \in Chunk(list, i)
  BY <1>1, <1>2, ChunkOfPlace
<1>7. (\A k \in Nat : p <= k * Cap => i <= k) /\ q \in Nat /\ Total <= q * Cap
  BY <1>3, ChunksRoundUp
<1>8. i <= m
  <2> DEFINE x == m * Cap
  <2>1. x \in Nat /\ p <= upto /\ upto <= x
    BY <1>2, <1>3, <1>4, SlotsType
  <2> HIDE DEF x, upto, i, list
  <2>2. p <= x
    BY <1>3, <1>5, <2>1
  <2> QED BY <1>3, <1>7, <2>2 DEF x
<1>9. i <= q
  <2> DEFINE x == q * Cap
             total == Total
  <2>1. x \in Nat /\ p <= total /\ total <= x /\ total \in Nat
    BY <1>1, <1>2, <1>3, <1>7, SlotsType
  <2> HIDE DEF x, total, i, q, list
  <2>2. p <= x
    BY <1>3, <2>1
  <2> QED BY <1>7, <2>2 DEF x
<1>10. i <= needed
  <2> DEFINE x == needed * Cap
             total == Total
  <2>1. x \in Nat /\ p <= total /\ total <= x /\ total \in Nat
    BY <1>1, <1>2, <1>3, SlotsType DEF RoomInv
  <2> HIDE DEF x, total, i, list
  <2>2. p <= x
    BY <1>3, <2>1
  <2> QED BY <1>3, <1>7, <2>2 DEF x
<1>11. i \in 1..n
  <2>1. n = needed \/ n = q
    OBVIOUS
  <2> HIDE DEF i, q, needed
  <2> QED BY <1>6, <1>9, <1>10, <2>1
<1> QED BY <1>6, <1>8, <1>11

\* The least number of a set of numbers with an upper bound.
LEMMA FirstOf ==
  ASSUME NEW n \in Nat, NEW P, NEW i \in 1..n, i \in P
  PROVE  \E k \in 1..n : k \in P /\ k <= i /\ \A j \in 1..(k - 1) : j \notin P
<1> DEFINE T == {j \in Nat : j \in 1..n /\ j \in P}
<1>1. T \in SUBSET Nat /\ i \in T
  OBVIOUS
<1>2. PICK k \in T : \A j \in Nat : j < k => j \notin T
  BY <1>1, LeastExists
<1>3. k \in 1..n /\ k \in P /\ k <= i
  BY <1>1, <1>2
<1>4. \A j \in 1..(k - 1) : j \notin P
  BY <1>2, <1>3
<1> QED BY <1>3, <1>4

\* The assets are collected and divided: what is kept is in a chunk for a
\* connection that has it, or for one before it.
LEMMA FindableCollects == ASSUME Sound, Findable, CollectNext PROVE Findable'
<1>1. PICK order \in Collected, n \in Nat :
           /\ op.kind = "collect" /\ sending = <<>>
           /\ n = (IF op.at - 1 <= NumChunks(Total) THEN op.at - 1 ELSE NumChunks(Total))
           /\ op' = [op EXCEPT !.kind = "empty",
                               !.plan = [i \in 1..n |-> Chunk(FlattenSeq(order), i)]]
           /\ UNCHANGED <<conns, tracked, inbox, link, served, running, sending, ops, history>>
  BY CollectIs
<1> DEFINE plan == [i \in 1..n |-> Chunk(FlattenSeq(order), i)]
<1>2. DOMAIN plan = 1..n /\ \A i \in 1..n : plan[i] = Chunk(FlattenSeq(order), i)
  OBVIOUS
<1>3. FlattenSeq(order) \in Seq(Tokens)
      /\ ToSet(FlattenSeq(order)) = UNION {tracked[c] : c \in Spawned}
  BY CollectedList
<1>4. ASSUME NEW i \in 1..n PROVE plan[i] \subseteq wanted
  <2>1. Chunk(FlattenSeq(order), i) \subseteq ToSet(FlattenSeq(order))
    BY <1>3, ChunkPlaces
  <2>2. \A c \in Spawned : tracked[c] \subseteq wanted
    BY CallerFacts DEF Findable, WantedInv
  <2> QED BY <1>3, <2>1, <2>2
<1>5. op \in Operations /\ op' = [op EXCEPT !.kind = "empty", !.plan = plan]
  BY <1>1, CallerFacts
<1> HIDE DEF plan
<1>6. op'.kind = "empty" /\ op'.plan = plan /\ op'.list = op.list /\ op'.add = op.add
  BY <1>5 DEF Operations
<1>7. UNCHANGED <<conns, tracked, inbox, sending, wanted, given, refused, disturbed>>
  BY <1>1 DEF history
<1>8. WantedInv'
  <2>1. WantedInv /\ ToSet(op'.list) \subseteq wanted /\ op'.add \subseteq wanted
        /\ \A i \in DOMAIN op'.plan : op'.plan[i] \subseteq wanted
    BY <1>2, <1>4, <1>6 DEF Findable, WantedInv
  <2> QED BY <1>7, <2>1, WantedStill
<1>9. RoomInv'
  BY <1>6, <1>7 DEF Findable, RoomInv, Slots
<1>10. PlacedInv'
  BY <1>6 DEF PlacedInv, Moving
<1>11. ASSUME ~disturbed', NEW a \in Kept' PROVE \E i \in DOMAIN op'.plan : Planned(i, a)'
  <2>1. ~disturbed /\ a \in Kept /\ ~Moving
    BY <1>1, <1>7, <1>11 DEF Kept, Moving
  <2>2. PICK m \in Spawned : a \in tracked[m] /\ Anchored(m, a)
    BY <1>1, <2>1 DEF Findable, PlacedInv, Coming, Placed
  <2>3. PICK i \in 1..n : i <= m /\ a \in plan[i]
    BY <1>1, <1>2, <2>1, <2>2, PlannedByThen DEF Findable
  <2>4. PICK k \in 1..n : a \in plan[k] /\ k <= i /\ \A j \in 1..(k - 1) : a \notin plan[j]
    <3> DEFINE P == {j \in 1..n : a \in plan[j]}
    <3>1. i \in P
      BY <2>3
    <3>2. PICK k \in 1..n : k \in P /\ k <= i /\ \A j \in 1..(k - 1) : j \notin P
      BY <3>1, FirstOf
    <3>3. \A j \in 1..(k - 1) : j \in 1..n
      BY <3>2
    <3> QED BY <3>2, <3>3
  <2>5. m \in Nat /\ k \in Nat /\ k >= 1 /\ k <= m
    BY <2>2, <2>3, <2>4, Before
  <2>6. Anchored(k, a)
    <3>1. CASE k = m
      BY <2>2, <3>1
    <3>2. CASE k # m
      <4>1. k \in 1..(m - 1) /\ \A j \in 1..(k - 1) : j \in 1..(m - 1)
        BY <2>5, <3>2
      <4>2. NotLeaving(k, a)
        BY <2>2, <4>1 DEF Anchored, Nowhere, NoOrder, NotLeaving
      <4>3. Nowhere(a, 1..(k - 1))
        BY <2>2, <4>1 DEF Anchored, Nowhere
      <4> QED BY <4>2, <4>3 DEF Anchored
    <3> QED BY <3>1, <3>2
  <2>7. k \in Spawned
    BY <2>2, <2>5, CallerFacts DEF Spawned
  <2>8. Anchored(k, a)'
    BY <1>7, <2>6, <2>7, SameStill, AnchorLess DEF SameFor
  <2>9. Planned(k, a)'
    BY <1>6, <2>4, <2>8 DEF Planned
  <2> QED BY <1>2, <1>6, <2>9
<1>12. PlannedInv'
  BY <1>11 DEF PlannedInv
<1> QED BY <1>8, <1>9, <1>10, <1>12 DEF Findable

\* The connections that are not needed come after those of the chunks.
LEMMA FindableEmpty == ASSUME Sound, Findable, EmptyNext PROVE Findable'
<1>1. /\ op.kind = "empty" /\ sending = <<>> /\ Moving /\ op.at > Len(op.plan)
      /\ UNCHANGED <<conns, inbox, wanted, given, refused, disturbed>>
  BY DEF EmptyNext, Moving, Sound, OpInv
<1>2. op \in Operations
  BY CallerFacts
<1>3. CASE op.at > conns
  <2>1. op' = [op EXCEPT !.kind = "remove", !.at = 1] /\ UNCHANGED <<tracked, sending>>
    BY <1>3 DEF EmptyNext
  <2>2. op'.kind = "remove" /\ op'.at = 1 /\ op'.plan = op.plan /\ op'.list = op.list
        /\ op'.add = op.add
    BY <1>2, <2>1 DEF Operations
  <2>3. WantedInv'
    BY <1>1, <2>1, <2>2, WantedStill DEF Findable, WantedInv
  <2>4. RoomInv'
    BY <1>1, <2>1, <2>2 DEF Findable, RoomInv, Slots
  <2>5. PlacedInv'
    BY <2>2 DEF PlacedInv, Moving
  <2>6. ASSUME ~disturbed', NEW a \in Kept' PROVE \E i \in DOMAIN op'.plan : Planned(i, a)'
    <3>1. ~disturbed /\ a \in Kept
      BY <1>1, <2>6 DEF Kept
    <3>2. PICK m \in DOMAIN op.plan : Planned(m, a)
      BY <1>1, <3>1 DEF Findable, PlannedInv
    <3>3. m \in Spawned /\ m \in Nat /\ m >= 1
      BY <1>1, MovingFacts
    <3>4. Anchored(m, a)'
      BY <1>1, <2>1, <3>2, <3>3, SameStill, AnchorLess DEF SameFor, Planned
    <3>5. ~ (m < op'.at) /\ op'.kind # "add"
      BY <2>2, <3>3
    <3>6. Planned(m, a)'
      BY <2>2, <3>2, <3>4, <3>5 DEF Planned
    <3> QED BY <2>2, <3>6
  <2>7. PlannedInv'
    BY <2>6 DEF PlannedInv
  <2> QED BY <2>3, <2>4, <2>5, <2>7 DEF Findable
<1>4. CASE ~ (op.at > conns)
  <2>0. PICK c \in Nat : c = op.at
    BY <1>2, OperationType
  <2>1. /\ op' = [op EXCEPT !.at = c + 1]
        /\ IF tracked[c] = {} THEN UNCHANGED <<tracked, sending>> ELSE Take(c, tracked[c])
    BY <1>4, <2>0 DEF EmptyNext
  <2>2. c \in Spawned /\ tracked[c] \in SUBSET Tokens /\ tracked[c] \subseteq wanted
    <3>1. c \in Spawned
      BY <1>1, <1>4, <2>0, MovingFacts, CallerFacts DEF Spawned
    <3> QED BY <3>1, CallerFacts DEF Findable, WantedInv
  <2>3. op'.kind = "empty" /\ op'.plan = op.plan /\ op'.list = op.list /\ op'.add = op.add
    <3> DEFINE next == c + 1
    <3>1. op' = [op EXCEPT !.at = next]
      BY <2>1
    <3> HIDE DEF next
    <3> QED BY <1>1, <1>2, <3>1 DEF Operations
  <2>4. WantedInv'
    <3>1. WantedInv /\ ToSet(op'.list) \subseteq wanted /\ op'.add \subseteq wanted
          /\ \A i \in DOMAIN op'.plan : op'.plan[i] \subseteq wanted
      BY <2>3 DEF Findable, WantedInv
    <3>2. CASE tracked[c] = {}
      BY <1>1, <2>1, <3>1, <3>2, WantedStill
    <3>3. CASE tracked[c] # {}
      BY <1>1, <2>1, <2>2, <3>1, <3>3, WantedMoved
    <3> QED BY <3>2, <3>3
  <2>5. \A d \in Slots : tracked'[d] \subseteq tracked[d] /\ (d # c => tracked'[d] = tracked[d])
    <3>1. CASE tracked[c] = {}
      BY <2>1, <3>1
    <3>2. CASE tracked[c] # {}
      BY <1>1, <2>1, <2>2, <3>2, TakeOff
    <3> QED BY <3>1, <3>2
  <2>6. \A d \in Slots : d # c => Commanded(d)' = Commanded(d)
    <3>1. CASE tracked[c] = {}
      BY <1>1, <2>1, <3>1, CommandedSame
    <3>2. CASE tracked[c] # {}
      BY <1>1, <2>1, <2>2, <3>2, TakeOff
    <3> QED BY <3>1, <3>2
  <2>7. RoomInv'
    <3>1. ASSUME ~disturbed', NEW d \in Slots PROVE Cardinality(tracked'[d]) <= Cap
      <4>1. tracked[d] \in SUBSET Tokens /\ tracked'[d] \in SUBSET tracked[d]
        BY <2>5, CallerFacts
      <4>2. Cardinality(tracked[d]) <= Cap
        BY <1>1, <3>1 DEF Findable, RoomInv
      <4> QED BY <4>1, <4>2, TokensCounted, SlotsType
    <3> QED BY <2>3, <3>1 DEF RoomInv, Slots
  <2>8. PlacedInv'
    BY <2>3 DEF PlacedInv, Moving
  <2>9. ASSUME ~disturbed', NEW a \in Kept' PROVE \E i \in DOMAIN op'.plan : Planned(i, a)'
    <3>1. ~disturbed /\ a \in Kept
      BY <1>1, <2>9 DEF Kept
    <3>2. PICK m \in DOMAIN op.plan : Planned(m, a)
      BY <1>1, <3>1 DEF Findable, PlannedInv
    <3>3. m \in Nat /\ m < c
      BY <1>1, <2>0, MovingFacts
    <3>4. \A d \in 1..(m - 1) : d \in Slots /\ d # c
      <4>1. m \in Spawned
        BY <1>1, MovingFacts
      <4>2. \A d \in 1..(m - 1) : d # c
        BY <3>3
      <4> QED BY <4>1, <4>2, Before
    <3>5. m \in Slots /\ m # c
      BY <1>1, <3>3, MovingFacts, CallerFacts
    <3>6. Anchored(m, a)'
      BY <2>5, <2>6, <3>2, <3>3, <3>4, <3>5, AnchorStays DEF Planned
    <3>7. Planned(m, a)'
      BY <2>3, <3>2, <3>6 DEF Planned
    <3> QED BY <2>3, <3>7
  <2>10. PlannedInv'
    BY <2>9 DEF PlannedInv
  <2> QED BY <2>4, <2>7, <2>8, <2>10 DEF Findable
<1> QED BY <1>3, <1>4

\* What is kept is either in the chunk of the connection, or not on it.
LEMMA FindableRemove == ASSUME Sound, Findable, RemoveNext PROVE Findable'
<1>1. /\ op.kind = "remove" /\ sending = <<>> /\ Moving /\ op.at # 0
      /\ UNCHANGED <<conns, inbox, wanted, given, refused, disturbed>>
  BY DEF RemoveNext, Moving, Sound, OpInv
<1>2. op \in Operations
  BY CallerFacts
<1>3. ASSUME ~disturbed, NEW a \in Kept PROVE \E m \in DOMAIN op.plan : Planned(m, a)
  BY <1>1, <1>3 DEF Findable, PlannedInv
<1>4. Kept' = Kept
  BY <1>1 DEF Kept
<1>5. CASE op.at > Len(op.plan)
  <2>1. op' = Idle /\ UNCHANGED <<tracked, sending>>
    BY <1>5 DEF RemoveNext
  <2>2. ASSUME ~disturbed, NEW a \in Kept' PROVE Placed(a)
    <3>1. PICK m \in DOMAIN op.plan : Planned(m, a)
      BY <1>3, <1>4, <2>2
    <3>2. m \in Spawned /\ m < op.at
      BY <1>1, <1>5, MovingFacts
    <3> QED BY <1>1, <3>1, <3>2 DEF Planned, Placed
  <2> QED BY <1>1, <2>1, <2>2, FindableEnds
<1>6. CASE ~ (op.at > Len(op.plan))
  <2>0. PICK c \in Nat : c = op.at
    BY <1>2, OperationType
  <2> DEFINE missing == op.plan[c] \ tracked[c]
             extra == tracked[c] \ op.plan[c]
  <2>1. /\ op' = [op EXCEPT !.kind = "add", !.add = missing]
        /\ IF extra = {} THEN UNCHANGED <<tracked, sending>> ELSE Take(c, extra)
    BY <1>6, <2>0 DEF RemoveNext
  <2>2. c \in DOMAIN op.plan /\ c \in Spawned
    BY <1>1, <1>6, <2>0, MovingFacts
  <2>3. extra \in SUBSET Tokens /\ extra \subseteq wanted /\ missing \subseteq wanted
        /\ c \in Slots
    BY <2>2, CallerFacts DEF Findable, WantedInv
  <2>4. op'.kind = "add" /\ op'.plan = op.plan /\ op'.list = op.list /\ op'.add = missing
        /\ op'.at = c
    <3> HIDE DEF missing, extra
    <3> QED BY <1>2, <2>0, <2>1 DEF Operations
  <2>5. tracked'[c] = tracked[c] \ extra /\ \A d \in Slots : d # c => tracked'[d] = tracked[d]
    <3>1. CASE extra = {}
      BY <2>1, <3>1
    <3>2. CASE extra # {}
      <4> HIDE DEF extra, missing
      <4> QED BY <1>1, <2>1, <2>2, <2>3, <3>2, TakeOff
    <3> QED BY <3>1, <3>2
  <2>6. \A a : a \notin extra => SameFor(a)
    <3> HIDE DEF extra, missing
    <3>1. CASE extra = {}
      BY <1>1, <2>1, <3>1, SameStill
    <3>2. CASE extra # {}
      BY <1>1, <2>1, <2>2, <2>3, <3>2, TakeOff
    <3> QED BY <3>1, <3>2
  <2>12. \A d \in Slots : d # c => Commanded(d)' = Commanded(d)
    <3> HIDE DEF extra, missing
    <3>1. CASE extra = {}
      BY <1>1, <2>1, <3>1, CommandedSame
    <3>2. CASE extra # {}
      BY <1>1, <2>1, <2>2, <2>3, <3>2, TakeOff
    <3> QED BY <3>1, <3>2
  <2>7. WantedInv'
    <3> HIDE DEF extra, missing
    <3>1. WantedInv /\ ToSet(op'.list) \subseteq wanted /\ op'.add \subseteq wanted
          /\ \A i \in DOMAIN op'.plan : op'.plan[i] \subseteq wanted
      BY <2>3, <2>4 DEF Findable, WantedInv
    <3>2. CASE extra = {}
      BY <1>1, <2>1, <3>1, <3>2, WantedStill
    <3>3. CASE extra # {}
      BY <1>1, <2>1, <2>2, <2>3, <3>1, <3>3, WantedMoved
    <3> QED BY <3>2, <3>3
  <2>8. RoomInv'
    <3>1. ASSUME ~disturbed', NEW d \in Slots PROVE Cardinality(tracked'[d]) <= Cap
      <4>1. tracked[d] \in SUBSET Tokens /\ tracked'[d] \in SUBSET tracked[d]
        BY <2>5, CallerFacts
      <4>2. Cardinality(tracked[d]) <= Cap
        BY <1>1, <3>1 DEF Findable, RoomInv
      <4> QED BY <4>1, <4>2, TokensCounted, SlotsType
    <3>2. tracked'[c] \subseteq op.plan[c]
      BY <2>5
    <3>3. op'.at = c /\ op'.plan = op.plan /\ op'.kind = "add"
      BY <2>4
    <3> HIDE DEF missing, extra
    <3> QED BY <3>1, <3>2, <3>3 DEF RoomInv, Slots
  <2>9. PlacedInv'
    BY <2>4 DEF PlacedInv, Moving
  <2>10. ASSUME ~disturbed', NEW a \in Kept' PROVE \E i \in DOMAIN op'.plan : Planned(i, a)'
    <3>1. ~disturbed /\ a \in Kept
      BY <1>1, <1>4, <2>10
    <3>2. PICK m \in DOMAIN op.plan : Planned(m, a)
      BY <1>3, <3>1
    <3>3. m \in Spawned /\ m \in Nat /\ m \in Slots
      BY <1>1, MovingFacts, Before
    <3>4. m < c \/ a \notin extra
      <4>1. CASE m = c
        BY <3>2, <4>1 DEF Planned
      <4>2. CASE m > c
        <5>1. c \in 1..(m - 1)
          BY <1>1, <2>0, <3>3, <4>2
        <5> QED BY <3>2, <5>1 DEF Planned, Anchored, Nowhere
      <4> QED BY <3>3, <4>1, <4>2
    <3>5. Anchored(m, a)
      BY <3>2 DEF Planned
    <3>6. Anchored(m, a)'
      <4>1. CASE m < c
        <5>1. m # c /\ \A d \in 1..(m - 1) : d # c
          BY <3>3, <4>1
        <5>2. 1..(m - 1) \subseteq Slots
          BY <3>3, Before
        <5> HIDE DEF extra, missing
        <5> QED BY <2>5, <2>12, <3>3, <3>5, <5>1, <5>2, AnchorStays
      <4>2. CASE a \notin extra
        <5>1. SameFor(a)
          BY <2>6, <4>2
        <5> QED BY <3>3, <3>5, <5>1, AnchorLess DEF SameFor
      <4> QED BY <3>4, <4>1, <4>2
    <3>7. a \in tracked[m] => a \in tracked'[m]
      <4>1. CASE m < c
        <5>1. m # c
          BY <3>3, <4>1
        <5> QED BY <2>5, <3>3, <5>1
      <4>2. CASE a \notin extra
        <5>1. SameFor(a)
          BY <2>6, <4>2
        <5> QED BY <3>3, <3>5, <5>1 DEF SameFor, Anchored
      <4> QED BY <3>4, <4>1, <4>2
    <3>8. m < c => a \in tracked'[m]
      BY <1>1, <2>0, <3>2, <3>7 DEF Planned
    <3>9. m = c => a \in tracked'[m] \cup missing
      BY <3>2, <3>7 DEF Planned
    <3>10. /\ a \in op'.plan[m] /\ \A j \in 1..(m - 1) : a \notin op'.plan[j]
           /\ op'.kind # "empty" /\ m < op'.at => a \in tracked'[m]
           /\ op'.kind = "add" /\ m = op'.at => a \in tracked'[m] \cup op'.add
      <4>1. a \in op.plan[m] /\ \A j \in 1..(m - 1) : a \notin op.plan[j]
        BY <3>2 DEF Planned
      <4> HIDE DEF missing, extra
      <4> QED BY <2>4, <3>8, <3>9, <4>1
    <3>11. Planned(m, a)'
      BY <3>6, <3>10 DEF Planned
    <3> QED BY <2>4, <3>2, <3>11
  <2>11. PlannedInv'
    BY <2>10 DEF PlannedInv
  <2> QED BY <2>7, <2>8, <2>9, <2>11 DEF Findable
<1> QED BY <1>5, <1>6

\* What was missing comes to the connection, and is in no chunk of one before it.
LEMMA FindableAdd == ASSUME Sound, Findable, AddNext PROVE Findable'
<1>0. PICK c \in Nat : c = op.at
  BY CallerFacts, OperationType
<1>1. /\ op.kind = "add" /\ sending = <<>> /\ Moving /\ c \in DOMAIN op.plan
      /\ UNCHANGED <<conns, inbox, wanted, given, refused, disturbed>>
      /\ op' = [op EXCEPT !.kind = "remove", !.at = c + 1, !.add = {}]
      /\ IF op.add = {} THEN UNCHANGED <<tracked, sending>> ELSE Put(c, op.add)
      /\ op.add \subseteq op.plan[c]
  BY <1>0 DEF AddNext, Moving, Sound, OpInv, history
<1>2. op \in Operations /\ c \in Spawned /\ op.add \in SUBSET Tokens
  BY <1>1, CallerFacts, MovingFacts
<1>3. op'.kind = "remove" /\ op'.at = c + 1 /\ op'.plan = op.plan /\ op'.list = op.list
      /\ op'.add = {}
  <2> DEFINE next == c + 1
  <2>1. op' = [op EXCEPT !.kind = "remove", !.at = next, !.add = {}]
    BY <1>1
  <2> HIDE DEF next
  <2>2. op'.kind = "remove" /\ op'.at = next /\ op'.plan = op.plan /\ op'.list = op.list
        /\ op'.add = {}
    BY <1>2, <2>1 DEF Operations
  <2> QED BY <2>2 DEF next
<1>4. tracked'[c] = tracked[c] \cup op.add /\ \A d \in Slots : d # c => tracked'[d] = tracked[d]
  <2>1. CASE op.add = {}
    BY <1>1, <2>1
  <2>2. CASE op.add # {}
    BY <1>1, <1>2, <2>2, PutOn
  <2> QED BY <2>1, <2>2
<1>5. \A d \in Slots : \A o \in Commanded(d)' :
        o \in Commanded(d) \/ (d = c /\ o.kind = "Subscribe" /\ o.ids = op.add)
  <2>1. CASE op.add = {}
    BY <1>1, <2>1, CommandedSame
  <2>2. CASE op.add # {}
    BY <1>1, <1>2, <2>2, PutOn
  <2> QED BY <2>1, <2>2
<1>6. WantedInv'
  <2>1. WantedInv /\ ToSet(op'.list) \subseteq wanted /\ op'.add \subseteq wanted
        /\ (\A i \in DOMAIN op'.plan : op'.plan[i] \subseteq wanted) /\ op.add \subseteq wanted
    BY <1>3 DEF Findable, WantedInv
  <2>2. CASE op.add = {}
    BY <1>1, <2>1, <2>2, WantedStill
  <2>3. CASE op.add # {}
    BY <1>1, <1>2, <2>1, <2>3, WantedMoved
  <2> QED BY <2>2, <2>3
<1>7. RoomInv'
  <2>1. ASSUME ~disturbed', NEW d \in Slots PROVE Cardinality(tracked'[d]) <= Cap
    <3>1. CASE d # c
      BY <1>1, <1>4, <2>1, <3>1 DEF Findable, RoomInv
    <3>2. CASE d = c
      <4>1. tracked'[c] \in SUBSET op.plan[c]
        BY <1>0, <1>1, <1>4, <2>1 DEF Findable, RoomInv
      <4>2. op.plan[c] \in SUBSET Tokens /\ Cardinality(op.plan[c]) <= Cap
        BY <1>1, MovingFacts
      <4> QED BY <3>2, <4>1, <4>2, TokensCounted, SlotsType
    <3> QED BY <3>1, <3>2
  <2> QED BY <1>3, <2>1 DEF RoomInv, Slots
<1>8. PlacedInv'
  BY <1>3 DEF PlacedInv, Moving
<1>9. ASSUME ~disturbed', NEW a \in Kept' PROVE \E i \in DOMAIN op'.plan : Planned(i, a)'
  <2>1. ~disturbed /\ a \in Kept
    BY <1>1, <1>9 DEF Kept
  <2>2. PICK m \in DOMAIN op.plan : Planned(m, a)
    BY <1>1, <2>1 DEF Findable, PlannedInv
  <2>3. m \in Spawned /\ m \in Nat /\ m \in Slots /\ 1..(m - 1) \subseteq Slots
    BY <1>1, MovingFacts, Before
  <2>4. ASSUME NEW d \in 1..(m - 1), a \in op.add PROVE d # c
    BY <1>1, <2>2, <2>4 DEF Planned
  <2>5. Anchored(m, a)'
    <3>1. \A d \in 1..(m - 1) : \A o \in Commanded(d)' : o \in Commanded(d) \/ a \notin o.ids
      BY <1>5, <2>3, <2>4
    <3>2. \A d \in 1..(m - 1) : a \in tracked'[d] => a \in tracked[d]
      BY <1>4, <2>3, <2>4
    <3>3. \A o \in Commanded(m)' : o \in Commanded(m) \/ a \notin o.ids \/ o.kind = "Subscribe"
      BY <1>5, <2>3
    <3> QED BY <2>2, <2>3, <3>1, <3>2, <3>3, AnchorStays DEF Planned
  <2>6. m < c + 1 => a \in tracked'[m]
    <3>1. CASE m < c
      BY <1>0, <1>1, <1>4, <2>2, <2>3, <3>1 DEF Planned
    <3>2. CASE m = c
      BY <1>0, <1>1, <1>4, <2>2, <3>2 DEF Planned
    <3>3. m < c + 1 => m < c \/ m = c
      BY <2>3
    <3> QED BY <3>1, <3>2, <3>3
  <2>7. Planned(m, a)'
    BY <1>3, <2>2, <2>5, <2>6 DEF Planned
  <2> QED BY <1>3, <2>7
<1>10. PlannedInv'
  BY <1>9 DEF PlannedInv
<1> QED BY <1>6, <1>7, <1>8, <1>10 DEF Findable

-----------------------------------------------------------------------------
(* The pool: the theorems.                                                 *)

\* A pool starts with each asset on one connection, or refused.
LEMMA FindableInitially == PoolInit => Findable
<1> SUFFICES ASSUME PoolInit PROVE Findable
  OBVIOUS
<1>1. PICK first \in SUBSET Tokens : \E list \in SetToSeqs(first) : Start(list)
  BY DEF PoolInit
<1>2. PICK list \in SetToSeqs(first) : Start(list)
  BY <1>1
<1>3. list \in Seq(Tokens) /\ ToSet(list) = first /\ Len(list) = Cardinality(first)
      /\ \A i, j \in 1..Len(list) : list[i] = list[j] => i = j
  BY TokenList
<1>4. tracked = [c \in Slots |-> IF c <= conns THEN Chunk(list, c) ELSE {}]
      /\ wanted = first /\ refused = first \ UNION {tracked[c] : c \in Slots}
  BY <1>2, <1>3 DEF Start
<1>5. \A c \in Slots : c \in Nat \ {0} /\ (Chunk(list, c) \subseteq first)
                       /\ Cardinality(Chunk(list, c)) <= Cap
  <2> SUFFICES ASSUME NEW c \in Slots
               PROVE  c \in Nat \ {0} /\ Chunk(list, c) \subseteq first
                      /\ Cardinality(Chunk(list, c)) <= Cap
    OBVIOUS
  <2>1. c \in Nat \ {0}
    BY SlotsType DEF Slots
  <2> QED BY <1>3, <2>1, ChunkPlaces
<1>6. op = Idle /\ ~disturbed /\ conns \in Slots
      /\ (\A c \in Slots : Commanded(c) = {})
  <2>1. conns \in Slots
    BY SoundInitially DEF Sound, PoolTypeOK
  <2>2. op = Idle /\ disturbed = FALSE /\ sending = <<>> /\ inbox = [c \in Slots |-> <<>>]
    BY DEF PoolInit
  <2>3. \A c \in Slots : Commanded(c) = {}
    BY <2>2 DEF Commanded
  <2> QED BY <2>1, <2>2, <2>3
<1>7. op.kind = "idle" /\ op.list = <<>> /\ op.plan = <<>> /\ op.add = {}
  BY <1>6 DEF Idle
<1>8. WantedInv
  <2>1. ToSet(op.list) = {} /\ DOMAIN op.plan = {}
    BY <1>7 DEF ToSet
  <2> QED BY <1>4, <1>5, <1>6, <1>7, <2>1 DEF WantedInv
<1>9. RoomInv
  <2>1. Cardinality({}) = 0
    BY FS_EmptySet
  <2> QED BY <1>4, <1>5, <1>7, <2>1, SlotsType DEF RoomInv
<1>10. ASSUME NEW a \in Kept PROVE Placed(a)
  <2>1. a \in first /\ a \in UNION {tracked[c] : c \in Slots}
    BY <1>4, <1>10 DEF Kept
  <2>2. PICK m \in Slots : a \in tracked[m]
    BY <2>1
  <2>3. m \in Spawned /\ a \in Chunk(list, m) /\ m \in Nat \ {0}
    BY <1>4, <1>5, <2>2 DEF Spawned, Slots
  <2>4. ASSUME NEW d \in 1..(m - 1) PROVE d \in Slots /\ a \notin tracked[d]
    <3>1. d \in Slots /\ d \in Nat \ {0} /\ d < m
      <4>1. d \in Slots
        BY <2>2, SlotsType DEF Slots
      <4> QED BY <2>3, <4>1
    <3>2. SUFFICES ASSUME a \in Chunk(list, d) PROVE FALSE
      BY <1>4, <3>1
    <3>3. PICK p \in 1..Len(list) : list[p] = a /\ (m - 1) * Cap < p
      BY <1>3, <2>3, ChunkPlaces
    <3>4. PICK q \in 1..Len(list) : list[q] = a /\ q <= d * Cap
      BY <1>3, <3>1, <3>2, ChunkPlaces
    <3>5. p = q
      BY <1>3, <3>3, <3>4
    <3> DEFINE x == d * Cap
               y == (m - 1) * Cap
    <3>6. x <= y /\ x \in Nat /\ y \in Nat
      BY <2>3, <3>1, SlotsType, TimesOrder
    <3> HIDE DEF x, y
    <3>7. y < p /\ p <= x /\ p \in Int
      BY <3>3, <3>4, <3>5 DEF x, y
    <3> QED BY <3>6, <3>7
  <2>5. Anchored(m, a)
    BY <1>6, <2>2, <2>4 DEF Anchored, NotLeaving, Nowhere, NoOrder
  <2> QED BY <2>2, <2>3, <2>5 DEF Placed
<1>11. PlacedInv
  BY <1>10 DEF PlacedInv
<1>12. PlannedInv
  BY <1>7 DEF PlannedInv, Moving
<1> QED BY <1>8, <1>9, <1>11, <1>12 DEF Findable

\* Every step keeps every asset findable.
LEMMA FindableStep == ASSUME Sound, Sound', Findable, [PoolNext]_poolVars PROVE Findable'
<1>1. CASE UNCHANGED poolVars
  <2>1. UNCHANGED <<conns, tracked, inbox, sending, op, wanted, given, refused, disturbed>>
    BY <1>1 DEF poolVars, caller, history
  <2>2. \A d \in Slots : Commanded(d)' \subseteq Commanded(d)
    BY <2>1, CommandedSame
  <2> QED BY <2>1, <2>2, FindableFewer
<1>2. ASSUME NEW ids \in SUBSET Tokens, BeginSubscribe(ids) \/ BeginUnsubscribe(ids) PROVE Findable'
  BY <1>2, FindableBegins
<1>3. CASE BeginConsolidate
  BY <1>3, FindableCounts
<1>4. CASE Stop
  BY <1>4, FindableSent
<1>5. CASE Caller
  BY <1>5, FindableSubscribe, FindableInsert, FindableSpawn, FindableDone, FindableUnsubscribe, FindableCollects,
     FindableEmpty, FindableRemove, FindableAdd, FindableSent DEF Caller
<1>6. ASSUME NEW c \in Spawned, Task(c) \/ JoinFails(c) \/ ReceiveFails(c) \/ Lose(c) PROVE Findable'
  BY <1>6, FindableTasks
<1> QED BY <1>1, <1>2, <1>3, <1>4, <1>5, <1>6 DEF PoolNext

\* Between operations every asset that the caller subscribed and did not
\* unsubscribe, and that was not refused, is tracked by a connection: whatever
\* subscribe spread over the connections, consolidate moved, and the tasks
\* drained in between (ws_pool.rs, subscribe, unsubscribe, consolidate,
\* connection_loop) - for any number of connections and any sizes, unless a
\* drain put assets back while the pool consolidated or beyond the capacity of
\* a connection.
THEOREM PoolForgetsNothing == PoolSpec => []NothingForgotten
<1>1. PoolInit => Sound /\ Findable
  BY SoundInitially, FindableInitially
<1>2. Sound /\ Findable /\ [PoolNext]_poolVars => Sound' /\ Findable'
  BY SoundStep, FindableStep
<1>3. Sound /\ Findable => NothingForgotten
  <2> SUFFICES ASSUME Findable, op = Idle, ~disturbed, NEW a \in Kept
               PROVE  a \in UNION {tracked[c] : c \in Spawned}
    BY DEF NothingForgotten, Kept
  <2>1. Placed(a)
    BY PlacedBetween
  <2> QED BY <2>1 DEF Placed
<1> QED BY <1>1, <1>2, <1>3, PTL DEF PoolSpec

-----------------------------------------------------------------------------
(* The tiers: pools.                                                       *)

\* The bounds of the tiers are numbers.
LEMMA TiersBounds ==
  /\ ConnsB \in Nat /\ ConnsB >= 1 /\ Threshold \in Nat /\ Threshold >= 1
  /\ Cap \in Nat /\ Cap >= 1 /\ MaxBoots \in Nat /\ MaxBoots >= 1
BY TiersAssumption, CapAssumption

\* A pool: some sets of a size that is allowed.
PoolOf(pool, max) ==
  /\ pool \in Seq(SUBSET Ids) /\ Len(pool) \in 1..max
  /\ \A i \in DOMAIN pool : IsFiniteSet(pool[i]) /\ Cardinality(pool[i]) <= Cap

\* A chunk of a list of ids.
LEMMA IdsChunk ==
  ASSUME NEW list \in Seq(Ids), NEW i \in Nat \ {0}
  PROVE  Chunk(list, i) \in SUBSET Ids /\ IsFiniteSet(Chunk(list, i)) /\ Cardinality(Chunk(list, i)) <= Cap
<1>1. Chunk(list, i) \subseteq ToSet(list) /\ IsFiniteSet(Chunk(list, i)) /\ Cardinality(Chunk(list, i)) <= Cap
  BY ChunkPlaces
<1>2. ToSet(list) \subseteq Ids
  BY DEF ToSet
<1> QED BY <1>1, <1>2

\* A tier starts as a pool.
LEMMA StartedPool ==
  ASSUME NEW list \in Seq(Ids), NEW max \in Nat, max >= 1
  PROVE  PoolOf(Started(list, max), max)
<1> DEFINE k == NumChunks(Len(list))
           low == Min({k, max})
           n == Max({1, low})
<1>1. k \in Nat
  <2>1. Len(list) \in Nat
    OBVIOUS
  <2> QED BY <2>1, ChunksRoundUp
<1> HIDE DEF k
<1>2. low = IF k <= max THEN k ELSE max
  BY <1>1, MinOfTwo
<1>3. low \in Nat /\ low <= max
  BY <1>1, <1>2
<1> HIDE DEF low
<1>4. n = IF 1 <= low THEN low ELSE 1
  BY <1>3, MaxOfTwo
<1>5. n \in 1..max /\ n \in Nat
  BY <1>3, <1>4
<1> HIDE DEF n
<1> DEFINE chunks == [i \in 1..n |-> Chunk(list, i)]
<1>6. Started(list, max) = chunks
  BY DEF Started, n, low, k
<1>7. \A i \in 1..n : Chunk(list, i) \in SUBSET Ids /\ IsFiniteSet(Chunk(list, i))
                      /\ Cardinality(Chunk(list, i)) <= Cap
  BY <1>5, IdsChunk
<1>8. chunks \in Seq(SUBSET Ids) /\ Len(chunks) = n /\ DOMAIN chunks = 1..n
  BY <1>5, <1>7
<1>9. \A i \in 1..n : chunks[i] = Chunk(list, i)
  OBVIOUS
<1> HIDE DEF chunks
<1> QED BY <1>5, <1>6, <1>7, <1>8, <1>9 DEF PoolOf

\* What is free on a connection.
LEMMA FreeOnType ==
  ASSUME NEW pool, NEW max, PoolOf(pool, max), NEW i \in 1..Len(pool)
  PROVE  /\ Cardinality(pool[i]) \in Nat /\ FreeOn(pool, i) \in Nat
         /\ Cardinality(pool[i]) + FreeOn(pool, i) <= Cap /\ IsFiniteSet(pool[i])
<1>1. IsFiniteSet(pool[i]) /\ Cardinality(pool[i]) <= Cap
  BY DEF PoolOf
<1>2. Cardinality(pool[i]) \in Nat
  BY <1>1, FS_CardinalityType
<1> QED BY <1>1, <1>2, TiersBounds DEF FreeOn

\* A part of a list has no more members than places.
LEMMA PartBounded ==
  ASSUME NEW S, NEW list \in Seq(S), NEW lo \in Nat, NEW free \in Nat, NEW hi \in Int,
         hi <= lo + free, hi <= Len(list)
  PROVE  /\ ToSet(SubSeq(list, lo + 1, hi)) \subseteq S
         /\ IsFiniteSet(ToSet(SubSeq(list, lo + 1, hi)))
         /\ Cardinality(ToSet(SubSeq(list, lo + 1, hi))) <= free
<1> DEFINE part == SubSeq(list, lo + 1, hi)
<1>1. part \in Seq(S)
  OBVIOUS
<1>2. Len(part) = IF lo + 1 <= hi THEN hi - lo ELSE 0
  OBVIOUS
<1> HIDE DEF part
<1>3. Len(part) \in Nat /\ Len(part) <= free
  BY <1>2
<1>4. IsFiniteSet(ToSet(part)) /\ Cardinality(ToSet(part)) <= Len(part)
  BY <1>1, MembersBounded
<1>5. Cardinality(ToSet(part)) \in Nat
  BY <1>4, FS_CardinalityType
<1>6. ToSet(part) \subseteq S
  BY <1>1 DEF ToSet
<1> QED BY <1>3, <1>4, <1>5, <1>6 DEF part

\* Two sets together have no more members than both.
LEMMA JoinBounded ==
  ASSUME NEW s, IsFiniteSet(s), NEW t, IsFiniteSet(t)
  PROVE  /\ IsFiniteSet(s \cup t) /\ Cardinality(s \cup t) \in Nat
         /\ Cardinality(s) \in Nat /\ Cardinality(t) \in Nat
         /\ Cardinality(s \cup t) <= Cardinality(s) + Cardinality(t)
<1>1. IsFiniteSet(s \cap t) /\ IsFiniteSet(s \cup t)
  BY FS_Subset, FS_Union
<1>2. /\ Cardinality(s \cap t) \in Nat /\ Cardinality(s) \in Nat /\ Cardinality(t) \in Nat
      /\ Cardinality(s \cup t) \in Nat
  BY <1>1, FS_CardinalityType
<1>3. Cardinality(s \cup t) = Cardinality(s) + Cardinality(t) - Cardinality(s \cap t)
  BY FS_Union
<1> QED BY <1>1, <1>2, <1>3

\* One sequence after another.
LEMMA Joined ==
  ASSUME NEW S, NEW s \in Seq(S), NEW t \in Seq(S)
  PROVE  /\ s \o t \in Seq(S) /\ Len(s \o t) = Len(s) + Len(t)
         /\ DOMAIN (s \o t) = 1..(Len(s) + Len(t))
         /\ \A i \in 1..(Len(s) + Len(t)) : (s \o t)[i] = IF i <= Len(s) THEN s[i] ELSE t[i - Len(s)]
OBVIOUS

\* A subscription keeps a pool one, on which all is tracked that was.
LEMMA SubscribedPool ==
  ASSUME NEW max \in Nat, NEW pool, PoolOf(pool, max), NEW list \in Seq(Ids)
  PROVE  /\ PoolOf(Subscribed(pool, list, max), max)
         /\ \A i \in 1..Len(pool) : pool[i] \subseteq Subscribed(pool, list, max)[i]
         /\ Len(pool) <= Len(Subscribed(pool, list, max))
<1> DEFINE n == Len(pool)
           free == [j \in 1..n |-> FreeOn(pool, j)]
           before(i) == SumFunctionOnSet(free, 1..(i - 1))
           upto(i) == Min({before(i + 1), Len(list)})
           filled == [i \in 1..n |-> pool[i] \cup ToSet(SubSeq(list, before(i) + 1, upto(i)))]
           rest == SubSeq(list, before(n + 1) + 1, Len(list))
           more == Min({max - n, NumChunks(Len(rest))})
           new == [k \in 1..more |-> Chunk(rest, k)]
<1>1. Subscribed(pool, list, max) = filled \o new
  BY DEF Subscribed
<1>2. n \in Nat /\ n >= 1 /\ n <= max /\ pool \in Seq(SUBSET Ids) /\ Len(list) \in Nat
      /\ DOMAIN pool = 1..n
  BY DEF PoolOf
<1>3. \A i \in 1..n : free[i] \in Nat /\ free[i] = FreeOn(pool, i)
  BY FreeOnType
<1> HIDE DEF n, free
<1>4. \A i \in 1..n : before(i) \in Nat /\ before(i + 1) = before(i) + free[i]
                      /\ before(i + 1) \in Nat
  <2> SUFFICES ASSUME NEW i \in 1..n
               PROVE  before(i) \in Nat /\ before(i + 1) = before(i) + free[i]
                      /\ before(i + 1) \in Nat
    OBVIOUS
  <2>1. i \in Nat /\ i # 0 /\ i + 1 - 1 = i /\ \A j \in 1..i : free[j] \in Int
    BY <1>2, <1>3
  <2>2. SumFunctionOnSet(free, 1..i) = SumFunctionOnSet(free, 1..(i - 1)) + free[i]
    BY <2>1, SumUpTo
  <2>3. \A j \in 1..(i - 1) : free[j] \in Nat
    BY <1>2, <1>3
  <2>4. 1 \in Int /\ i - 1 \in Int
    BY <2>1
  <2>5. IsFiniteSet(1..(i - 1))
    BY <2>4, FS_Interval
  <2>6. SumFunctionOnSet(free, 1..(i - 1)) \in Nat
    BY <2>3, <2>5, SumNat
  <2>7. free[i] \in Nat
    BY <1>3
  <2>8. before(i) \in Nat
    BY <2>6
  <2>9. before(i + 1) = SumFunctionOnSet(free, 1..i)
    BY <2>1
  <2> QED BY <2>2, <2>6, <2>7, <2>8, <2>9
<1> HIDE DEF before
<1>5. ASSUME NEW i \in 1..n
      PROVE  /\ filled[i] \in SUBSET Ids /\ IsFiniteSet(filled[i]) /\ Cardinality(filled[i]) <= Cap
             /\ pool[i] \subseteq filled[i]
  <2> DEFINE lo == before(i)
             hi == upto(i)
             part == ToSet(SubSeq(list, lo + 1, hi))
             end == before(i + 1)
  <2>1. lo \in Nat /\ end \in Nat /\ end = lo + free[i] /\ free[i] \in Nat
    BY <1>3, <1>4
  <2>2. hi = IF end <= Len(list) THEN end ELSE Len(list)
    <3> HIDE DEF end
    <3>1. Min({end, Len(list)}) = IF end <= Len(list) THEN end ELSE Len(list)
      BY <1>2, <2>1, MinOfTwo
    <3> QED BY <3>1 DEF end
  <2>3. filled[i] = pool[i] \cup part
    OBVIOUS
  <2> HIDE DEF filled, hi, lo, end, upto
  <2>4. hi \in Int /\ hi <= lo + free[i] /\ hi <= Len(list)
    BY <1>2, <2>1, <2>2
  <2>5. part \subseteq Ids /\ IsFiniteSet(part) /\ Cardinality(part) <= free[i]
    BY <2>1, <2>4, PartBounded
  <2> HIDE DEF part
  <2>6. /\ Cardinality(pool[i]) \in Nat /\ IsFiniteSet(pool[i])
        /\ Cardinality(pool[i]) + free[i] <= Cap
    BY <1>3, FreeOnType DEF n
  <2>7. IsFiniteSet(pool[i] \cup part) /\ Cardinality(pool[i] \cup part) <= Cap
    <3>1. /\ IsFiniteSet(pool[i] \cup part) /\ Cardinality(pool[i] \cup part) \in Nat
          /\ Cardinality(part) \in Nat
          /\ Cardinality(pool[i] \cup part) <= Cardinality(pool[i]) + Cardinality(part)
      BY <2>5, <2>6, JoinBounded
    <3> QED BY <2>1, <2>5, <2>6, <3>1, TiersBounds
  <2>8. pool[i] \in SUBSET Ids
    BY <1>2
  <2> QED BY <2>3, <2>5, <2>7, <2>8
<1>6. filled \in Seq(SUBSET Ids) /\ Len(filled) = n /\ DOMAIN filled = 1..n
  <2>1. filled = [i \in 1..n |-> filled[i]]
    OBVIOUS
  <2> HIDE DEF filled
  <2>2. filled \in [1..n -> SUBSET Ids]
    BY <1>5, <2>1
  <2> QED BY <1>2, <2>2
<1>7. rest \in Seq(Ids)
  <2>1. before(n + 1) \in Nat
    BY <1>2, <1>4
  <2> HIDE DEF before
  <2> QED BY <2>1
<1> HIDE DEF rest
<1>8. more \in Nat /\ n + more <= max
  <2> DEFINE room == max - n
             len == Len(rest)
             chunks == NumChunks(len)
  <2>1. len \in Nat
    BY <1>7
  <2> HIDE DEF len
  <2>2. chunks \in Nat
    BY <2>1, ChunksRoundUp
  <2>3. room \in Nat
    BY <1>2
  <2> HIDE DEF chunks, room
  <2>4. Min({room, chunks}) = IF room <= chunks THEN room ELSE chunks
    BY <2>2, <2>3, MinOfTwo
  <2>5. Min({room, chunks}) \in Nat /\ Min({room, chunks}) <= room
    BY <2>2, <2>3, <2>4
  <2>6. more = Min({room, chunks})
    BY DEF room, chunks, len
  <2> HIDE DEF more
  <2> QED BY <1>2, <2>5, <2>6 DEF room
<1>9. more \in Nat
  BY <1>8
<1> HIDE DEF more, filled
<1>10. new \in Seq(SUBSET Ids) /\ Len(new) = more /\ DOMAIN new = 1..more
       /\ \A k \in 1..more : IsFiniteSet(new[k]) /\ Cardinality(new[k]) <= Cap
  <2>1. \A k \in 1..more : Chunk(rest, k) \in SUBSET Ids /\ IsFiniteSet(Chunk(rest, k))
                           /\ Cardinality(Chunk(rest, k)) <= Cap
    BY <1>7, <1>9, IdsChunk
  <2> QED BY <1>9, <2>1
<1> HIDE DEF new
<1> DEFINE all == filled \o new
<1>11. /\ all \in Seq(SUBSET Ids) /\ Len(all) = n + more /\ DOMAIN all = 1..(n + more)
       /\ \A i \in 1..(n + more) : all[i] = IF i <= n THEN filled[i] ELSE new[i - n]
  <2> DEFINE len == Len(filled)
             size == Len(new)
  <2>1. len = n /\ size = more
    BY <1>6, <1>10
  <2>2. /\ all \in Seq(SUBSET Ids) /\ Len(all) = len + size /\ DOMAIN all = 1..(len + size)
        /\ \A i \in 1..(len + size) : all[i] = IF i <= len THEN filled[i] ELSE new[i - len]
    BY <1>6, <1>10, Joined
  <2> HIDE DEF len, size
  <2> QED BY <2>1, <2>2
<1> HIDE DEF all
<1>12. ASSUME NEW i \in 1..(n + more) PROVE IsFiniteSet(all[i]) /\ Cardinality(all[i]) <= Cap
  <2>1. CASE i <= n
    <3>1. i \in 1..n
      BY <2>1
    <3> QED BY <1>5, <1>11, <2>1, <3>1
  <2>2. CASE ~ (i <= n)
    <3>1. i - n \in 1..more
      BY <1>2, <1>9, <2>2
    <3> QED BY <1>10, <1>11, <2>2, <3>1
  <2> QED BY <2>1, <2>2
<1>13. PoolOf(all, max)
  BY <1>2, <1>8, <1>9, <1>11, <1>12 DEF PoolOf
<1>14. \A i \in 1..n : pool[i] \subseteq all[i]
  <2> SUFFICES ASSUME NEW i \in 1..n PROVE pool[i] \subseteq all[i]
    OBVIOUS
  <2>1. i \in 1..(n + more) /\ i <= n
    BY <1>2, <1>9
  <2> QED BY <1>5, <1>11, <2>1
<1>15. n <= Len(all)
  BY <1>2, <1>9, <1>11
<1> QED BY <1>1, <1>13, <1>14, <1>15 DEF all, n

\* What a pool tracks, each in turn.
LEMMA TrackedIs ==
  ASSUME NEW pool
  PROVE  Tracked(pool) = UNION {pool[i] : i \in DOMAIN pool}
BY DEF Tracked, ToSet

\* After assets were taken off it.
LEMMA UnsubscribedPool ==
  ASSUME NEW max \in Nat, NEW pool, PoolOf(pool, max), NEW ids
  PROVE  PoolOf(Unsubscribed(pool, ids), max) /\ Tracked(Unsubscribed(pool, ids)) = Tracked(pool) \ ids
<1> DEFINE less == [i \in DOMAIN pool |-> pool[i] \ ids]
<1>1. pool \in Seq(SUBSET Ids) /\ Len(pool) \in 1..max /\ DOMAIN pool = 1..Len(pool)
      /\ \A i \in DOMAIN pool : IsFiniteSet(pool[i]) /\ Cardinality(pool[i]) <= Cap
  BY DEF PoolOf
<1>2. less \in Seq(SUBSET Ids) /\ DOMAIN less = 1..Len(pool) /\ Len(less) = Len(pool)
  <2>1. \A i \in 1..Len(pool) : pool[i] \ ids \in SUBSET Ids
    BY <1>1
  <2> DEFINE n == Len(pool)
  <2>2. n \in Nat /\ less = [i \in 1..n |-> pool[i] \ ids]
    BY <1>1
  <2> HIDE DEF n
  <2> QED BY <2>1, <2>2 DEF n
<1>3. \A i \in DOMAIN pool : less[i] = pool[i] \ ids
  OBVIOUS
<1>4. ASSUME NEW i \in DOMAIN pool PROVE IsFiniteSet(less[i]) /\ Cardinality(less[i]) <= Cap
  <2>1. pool[i] \ ids \in SUBSET pool[i] /\ IsFiniteSet(pool[i]) /\ Cardinality(pool[i]) <= Cap
    BY <1>1
  <2>2. /\ IsFiniteSet(pool[i] \ ids) /\ Cardinality(pool[i] \ ids) <= Cardinality(pool[i])
        /\ Cardinality(pool[i]) \in Nat /\ Cardinality(pool[i] \ ids) \in Nat
    BY <2>1, FS_Subset, FS_CardinalityType
  <2> QED BY <1>3, <2>1, <2>2, TiersBounds
<1>5. Unsubscribed(pool, ids) = less
  BY DEF Unsubscribed
<1> HIDE DEF less
<1>6. PoolOf(less, max)
  BY <1>1, <1>2, <1>4 DEF PoolOf
<1>7. Tracked(less) = Tracked(pool) \ ids
  BY <1>1, <1>2, <1>3, TrackedIs
<1> QED BY <1>5, <1>6, <1>7

\* After a subscription to Tier B.
LEMMA ToBPool ==
  ASSUME PoolOf(b, ConnsB), NEW ids \in SUBSET Ids, IsFiniteSet(ids), NEW pool \in ToB(ids)
  PROVE  PoolOf(pool, ConnsB) /\ Tracked(b) \subseteq Tracked(pool)
<1>1. PICK list \in SetToSeqs(ids) : pool = Subscribed(b, list, ConnsB)
  BY DEF ToB
<1>2. list \in Seq(Ids)
  <2>1. list \in Seq(ids)
    BY ListedOnce
  <2> QED BY <2>1
<1>3. /\ PoolOf(pool, ConnsB) /\ \A i \in 1..Len(b) : b[i] \subseteq pool[i]
      /\ Len(b) <= Len(pool)
  BY <1>1, <1>2, SubscribedPool, TiersBounds
<1>4. DOMAIN b = 1..Len(b) /\ DOMAIN pool = 1..Len(pool) /\ Len(b) \in Nat /\ Len(pool) \in Nat
  BY <1>3 DEF PoolOf
<1>5. \A i \in DOMAIN b : i \in DOMAIN pool /\ b[i] \subseteq pool[i]
  BY <1>3, <1>4
<1>6. Tracked(b) \subseteq Tracked(pool)
  BY <1>5, TrackedIs
<1> QED BY <1>3, <1>6

\* A set that fits on one connection.
Fits(s) == s \subseteq Ids /\ IsFiniteSet(s) /\ Cardinality(s) <= Cap

\* After a subscription to Tier C.
LEMMA ToCPool ==
  ASSUME Fits(c1), NEW ids \in SUBSET Ids, IsFiniteSet(ids), NEW s \in ToC(ids)
  PROVE  Fits(s) /\ c1 \subseteq s
<1>1. PICK list \in SetToSeqs(ids) : s = Subscribed(<<c1>>, list, 1)[1]
  BY DEF ToC
<1>2. list \in Seq(Ids)
  <2>1. list \in Seq(ids)
    BY ListedOnce
  <2> QED BY <2>1
<1> DEFINE pool == <<c1>>
           all == Subscribed(pool, list, 1)
<1>3. PoolOf(pool, 1) /\ 1 \in 1..Len(pool) /\ pool[1] = c1
  <2>1. c1 \in SUBSET Ids /\ IsFiniteSet(c1) /\ Cardinality(c1) <= Cap
    BY DEF Fits
  <2>2. pool \in Seq(SUBSET Ids) /\ Len(pool) = 1 /\ DOMAIN pool = {1} /\ pool[1] = c1
    BY <2>1
  <2> HIDE DEF pool
  <2>3. Len(pool) \in 1..1 /\ 1 \in 1..Len(pool)
    BY <2>2
  <2>4. \A i \in DOMAIN pool : i = 1
    BY <2>2
  <2> QED BY <2>1, <2>2, <2>3, <2>4 DEF PoolOf
<1> HIDE DEF pool
<1>4. PoolOf(all, 1) /\ pool[1] \subseteq all[1]
  BY <1>2, <1>3, SubscribedPool
<1> HIDE DEF all
<1>5. 1 \in DOMAIN all
  BY <1>4 DEF PoolOf
<1>6. all \in Seq(SUBSET Ids) /\ IsFiniteSet(all[1]) /\ Cardinality(all[1]) <= Cap
  BY <1>4, <1>5 DEF PoolOf
<1>7. all[1] \in SUBSET Ids
  BY <1>5, <1>6
<1> QED BY <1>1, <1>3, <1>4, <1>6, <1>7 DEF Fits, all, pool

\* A consolidation keeps Tier B a pool, on which all is tracked that was.
LEMMA Consolidated ==
  ASSUME PoolOf(b, ConnsB), Consolidate
  PROVE  PoolOf(b', ConnsB) /\ Tracked(b) \subseteq Tracked(b')
<1> DEFINE n == Len(b)
           sizes == [i \in 1..n |-> Cardinality(b[i])]
           total == SumFunctionOnSet(sizes, 1..n)
           chunks == NumChunks(total)
           needed == Max({1, chunks})
<1>1. PICK order \in [1..n -> UNION {SetToSeqs(b[i]) : i \in 1..n}] :
        /\ \A i \in 1..n : order[i] \in SetToSeqs(b[i])
        /\ b' = [i \in 1..n |-> IF i <= needed THEN Chunk(FlattenSeq(order), i) ELSE {}]
  BY DEF Consolidate
<1>2. needed < n
  BY DEF Consolidate
<1>3. b \in Seq(SUBSET Ids) /\ n \in Nat /\ n \in 1..ConnsB /\ DOMAIN b = 1..n
      /\ \A i \in 1..n : IsFiniteSet(b[i]) /\ b[i] \in SUBSET Ids
  BY DEF PoolOf
<1> DEFINE list == FlattenSeq(order)
<1> HIDE DEF n
<1>4. ASSUME NEW i \in 1..n
      PROVE  /\ order[i] \in Seq(Ids) /\ ToSet(order[i]) = b[i]
             /\ sizes[i] = Len(order[i]) /\ sizes[i] \in Nat
  <2>1. order[i] \in Seq(b[i]) /\ ToSet(order[i]) = b[i] /\ Len(order[i]) = Cardinality(b[i])
    BY <1>1, <1>3, ListedOnce
  <2>2. Cardinality(b[i]) \in Nat
    BY <1>3, FS_CardinalityType
  <2>3. order[i] \in Seq(Ids)
    BY <1>3, <2>1
  <2> QED BY <2>1, <2>2, <2>3
<1> HIDE DEF sizes
<1>5. order \in Seq(Seq(Ids)) /\ Len(order) = n /\ DOMAIN order = 1..n
  <2>1. DOMAIN order = 1..n /\ order = [i \in 1..n |-> order[i]]
    BY <1>1
  <2>2. order \in [1..n -> Seq(Ids)]
    BY <1>4, <2>1
  <2>3. n \in Nat
    BY <1>3
  <2>4. order \in Seq(Seq(Ids))
    BY <2>2, <2>3
  <2>5. Len(order) = n
    BY <2>1, <2>3, <2>4
  <2> QED BY <2>1, <2>4, <2>5
<1>6. list \in Seq(Ids) /\ ToSet(list) = UNION {ToSet(order[i]) : i \in DOMAIN order}
  BY <1>5, FlattenMembers
<1>7. Len(list) = total
  <2>1. \A i \in 1..Len(order) : sizes[i] = Len(order[i])
    BY <1>4, <1>5
  <2>2. InTurn(order, sizes, Len(order), list)
    BY <1>5, <2>1, FlattenPositions
  <2> QED BY <1>5, <2>2 DEF InTurn
<1>8. total \in Nat
  <2>1. Len(list) \in Nat
    BY <1>6
  <2> QED BY <1>7, <2>1
<1> HIDE DEF total, list
<1>9. chunks \in Nat /\ total <= chunks * Cap
  BY <1>8, ChunksRoundUp
<1> HIDE DEF chunks
<1>10. needed = IF 1 <= chunks THEN chunks ELSE 1
  BY <1>9, MaxOfTwo
<1>11. needed \in Nat /\ chunks <= needed /\ needed >= 1
  BY <1>9, <1>10
<1> HIDE DEF needed
<1> DEFINE all == [i \in 1..n |-> IF i <= needed THEN Chunk(list, i) ELSE {}]
<1>12. b' = all
  BY <1>1 DEF list
<1>13. ASSUME NEW i \in 1..n
       PROVE  all[i] \in SUBSET Ids /\ IsFiniteSet(all[i]) /\ Cardinality(all[i]) <= Cap
  <2>1. Chunk(list, i) \in SUBSET Ids /\ IsFiniteSet(Chunk(list, i)) /\ Cardinality(Chunk(list, i)) <= Cap
    BY <1>3, <1>6, IdsChunk
  <2>2. IsFiniteSet({}) /\ Cardinality({}) <= Cap
    BY FS_EmptySet, TiersBounds
  <2> QED BY <2>1, <2>2
<1>14. all \in Seq(SUBSET Ids) /\ Len(all) = n /\ DOMAIN all = 1..n
  <2>1. all = [i \in 1..n |-> all[i]]
    OBVIOUS
  <2> HIDE DEF all
  <2>2. all \in [1..n -> SUBSET Ids]
    BY <1>13, <2>1
  <2>3. n \in Nat
    BY <1>3
  <2>4. all \in Seq(SUBSET Ids) /\ DOMAIN all = 1..n
    BY <2>2, <2>3
  <2> QED BY <2>3, <2>4
<1>15. PoolOf(all, ConnsB)
  <2> HIDE DEF all
  <2> QED BY <1>3, <1>13, <1>14 DEF PoolOf
<1>16. ASSUME NEW i \in 1..n, NEW a \in b[i] PROVE \E k \in 1..n : a \in all[k]
  <2>1. a \in ToSet(list)
    BY <1>4, <1>5, <1>6
  <2>2. PICK p \in 1..Len(list) : list[p] = a
    BY <1>6, <2>1 DEF ToSet
  <2> DEFINE k == NumChunks(p)
  <2>3. k \in Nat \ {0} /\ a \in Chunk(list, k)
    BY <1>6, <2>2, ChunkOfPlace
  <2>4. p \in Nat /\ p <= total
    BY <1>7, <1>8, <2>2
  <2>5. \A j \in Nat : p <= j * Cap => k <= j
    BY <2>4, ChunksRoundUp
  <2>6. k <= chunks
    <3> DEFINE x == chunks * Cap
    <3>1. x \in Nat /\ total <= x
      BY <1>9, TiersBounds
    <3> HIDE DEF x, k
    <3>2. p <= x
      BY <1>8, <2>4, <3>1
    <3> QED BY <1>9, <2>5, <3>2 DEF x
  <2> HIDE DEF k
  <2>7. k \in 1..n /\ k <= needed
    BY <1>2, <1>3, <1>9, <1>11, <2>3, <2>6
  <2>8. a \in all[k]
    BY <2>3, <2>7
  <2> QED BY <2>7, <2>8
<1>17. Tracked(b) \subseteq Tracked(all)
  <2>1. Tracked(b) = UNION {b[i] : i \in 1..n}
    BY <1>3, TrackedIs
  <2>2. Tracked(all) = UNION {all[i] : i \in 1..n}
    BY <1>14, TrackedIs
  <2> HIDE DEF all
  <2> QED BY <1>16, <2>1, <2>2
<1> QED BY <1>12, <1>15, <1>17

-----------------------------------------------------------------------------
(* The tiers: the inductive invariant.                                     *)

\* What the tiers track and have recorded.
TiersSound ==
  /\ PoolOf(b, ConnsB) /\ Fits(c1)
  /\ hot \in [Constraints -> SUBSET Tokens]
  /\ removal \in [Constraints -> 0..(Threshold - 1)] /\ absent \in [Constraints -> 0..Threshold]
  /\ promoted \subseteq Ids /\ posAssets \subseteq Ids /\ lacking \subseteq Ids
  /\ found \in Scans /\ held \subseteq Constraints /\ boots \in 1..MaxBoots

\* A constraint is recorded with a list of its own, and is counted for the
\* scans that did not find it, at most.
HotListed ==
  \A c \in Constraints : hot[c] \subseteq UNION Lists[c] /\ removal[c] <= absent[c]

\* An asset for which Tier B stays out of the way is on Tier C, or had no room.
PromotedFed == promoted \cap Tokens \subseteq c1 \cup lacking

TiersInv == TiersSound /\ HotListed /\ PromotedFed /\ HotCovered

\* The ids of assets and markets.
LEMMA IdsAre ==
  /\ Tokens \subseteq Ids
  /\ \A c \in Constraints : MarketIds[c] \subseteq Ids /\ IsFiniteSet(MarketIds[c])
                            /\ MarketIds[c] \cap Tokens = {}
BY IdsAssumption DEF Ids

\* What a scan finds.
LEMMA ScanIs ==
  ASSUME NEW scan \in Scans
  PROVE  /\ DOMAIN scan \subseteq Constraints
         /\ \A c \in DOMAIN scan : scan[c] \in Lists[c] /\ scan[c] \in SUBSET Tokens
                                   /\ scan[c] \subseteq UNION Lists[c] /\ scan[c] # {}
<1>1. PICK S \in SUBSET Constraints : scan \in [S -> SUBSET Tokens] /\ \A c \in S : scan[c] \in Lists[c]
  BY DEF Scans
<1>2. \A c \in S : Lists[c] \subseteq (SUBSET Tokens) \ {{}}
  BY <1>1, ListsAssumption
<1>3. DOMAIN scan = S
  BY <1>1
<1>4. ASSUME NEW c \in S
      PROVE  scan[c] \in Lists[c] /\ scan[c] \in SUBSET Tokens
             /\ scan[c] \subseteq UNION Lists[c] /\ scan[c] # {}
  <2>1. scan[c] \in Lists[c]
    BY <1>1
  <2>2. scan[c] \in (SUBSET Tokens) \ {{}}
    BY <1>2, <2>1
  <2> DEFINE list == scan[c]
  <2>3. list \in Lists[c] /\ list \in SUBSET Tokens /\ list # {}
    BY <2>1, <2>2
  <2> HIDE DEF list
  <2>4. list \subseteq UNION Lists[c]
    BY <2>3
  <2> QED BY <2>3, <2>4 DEF list
<1> QED BY <1>1, <1>3, <1>4

\* The assets of a scan can be subscribed.
LEMMA ScanListed ==
  ASSUME NEW scan \in Scans, NEW list \in SetToSeqs(AssetsOf(scan))
  PROVE  list \in Seq(Ids) /\ ToSet(list) \subseteq Tokens
<1>1. AssetsOf(scan) \subseteq Tokens
  BY ScanIs DEF AssetsOf
<1>2. IsFiniteSet(AssetsOf(scan))
  BY <1>1, TokensAssumption, FS_Subset
<1>3. list \in Seq(AssetsOf(scan)) /\ ToSet(list) = AssetsOf(scan)
  BY <1>2, ListedOnce
<1> QED BY <1>1, <1>3, IdsAre

\* The constraints that a scan did not find are counted.
LEMMA AbsentType ==
  ASSUME NEW scan
  PROVE  AbsentFrom(scan) \in [Constraints -> 0..Threshold]
BY TiersBounds DEF AbsentFrom

\* What the start of a process leaves behind.
Fresh ==
  /\ PoolOf(b, ConnsB) /\ c1 = {} /\ promoted = {} /\ posAssets = {}
  /\ hot = Unmonitored /\ removal = NoneCold
  /\ found \in Scans /\ absent \in [Constraints -> 0..Threshold] /\ lacking \subseteq Ids

\* The invariant holds after a start of the process.
LEMMA FreshTiers ==
  ASSUME Fresh, held \subseteq Constraints, boots \in 1..MaxBoots
  PROVE  TiersInv
<1>1. Fits(c1)
  BY FS_EmptySet, TiersBounds DEF Fits, Fresh
<1>2. hot \in [Constraints -> SUBSET Tokens] /\ \A c \in Constraints : hot[c] = {}
  BY DEF Fresh, Unmonitored, NotHot
<1>3. removal \in [Constraints -> 0..(Threshold - 1)] /\ \A c \in Constraints : removal[c] = 0
  BY TiersBounds DEF Fresh, NoneCold
<1>4. TiersSound
  BY <1>1, <1>2, <1>3 DEF TiersSound, Fresh
<1>5. HotListed
  <2> SUFFICES ASSUME NEW c \in Constraints
               PROVE  hot[c] \subseteq UNION Lists[c] /\ removal[c] <= absent[c]
    BY DEF HotListed
  <2>1. absent[c] \in 0..Threshold
    BY DEF Fresh
  <2>2. removal[c] <= absent[c]
    BY <1>3, <2>1, TiersBounds
  <2>3. hot[c] \subseteq UNION Lists[c]
    BY <1>2
  <2> QED BY <2>2, <2>3
<1>6. PromotedFed /\ HotCovered
  BY <1>2 DEF PromotedFed, HotCovered, Fresh
<1> QED BY <1>4, <1>5, <1>6 DEF TiersInv

\* ... the first one ...
LEMMA TiersInitially == TiersInit => TiersInv
<1> SUFFICES ASSUME TiersInit PROVE TiersInv
  OBVIOUS
<1>1. PICK scan \in Scans : \E list \in SetToSeqs(AssetsOf(scan)) :
       /\ b = Started(list, ConnsB)
       /\ found = scan
       /\ absent = AbsentFrom(scan)
       /\ lacking = ToSet(list) \ Tracked(b)
  BY DEF TiersInit
<1>2. PICK list \in SetToSeqs(AssetsOf(scan)) :
       /\ b = Started(list, ConnsB)
       /\ found = scan
       /\ absent = AbsentFrom(scan)
       /\ lacking = ToSet(list) \ Tracked(b)
  BY <1>1
<1>3. list \in Seq(Ids) /\ ToSet(list) \subseteq Tokens
  BY ScanListed
<1>4. PoolOf(b, ConnsB)
  BY <1>2, <1>3, StartedPool, TiersBounds
<1>5. absent \in [Constraints -> 0..Threshold] /\ lacking \subseteq Ids
  BY <1>2, <1>3, AbsentType, IdsAre
<1>6. Fresh
  BY <1>2, <1>4, <1>5 DEF TiersInit, Fresh
<1>7. held \subseteq Constraints /\ boots \in 1..MaxBoots
  BY TiersBounds DEF TiersInit
<1> QED BY <1>6, <1>7, FreshTiers

\* ... and each later one.
LEMMA TiersRestart == ASSUME TiersInv, Restart PROVE TiersInv'
<1>1. PICK scan \in Scans : \E list \in SetToSeqs(AssetsOf(scan)) :
       /\ b' = Started(list, ConnsB)
       /\ found' = scan
       /\ absent' = AbsentFrom(scan)
       /\ lacking' = ToSet(list) \ Tracked(b')
  BY DEF Restart
<1>2. PICK list \in SetToSeqs(AssetsOf(scan)) :
       /\ b' = Started(list, ConnsB)
       /\ found' = scan
       /\ absent' = AbsentFrom(scan)
       /\ lacking' = ToSet(list) \ Tracked(b')
  BY <1>1
<1>3. list \in Seq(Ids) /\ ToSet(list) \subseteq Tokens
  BY ScanListed
<1>4. PoolOf(b', ConnsB)
  BY <1>2, <1>3, StartedPool, TiersBounds
<1>5. absent' \in [Constraints -> 0..Threshold] /\ lacking' \subseteq Ids
  BY <1>2, <1>3, AbsentType, IdsAre
<1>6. /\ c1' = {} /\ promoted' = {} /\ posAssets' = {} /\ hot' = Unmonitored /\ removal' = NoneCold
      /\ held' = held /\ boots < MaxBoots /\ boots' = boots + 1
  BY DEF Restart
<1>7. held' \subseteq Constraints /\ boots' \in 1..MaxBoots
  <2>1. held \subseteq Constraints /\ boots \in 1..MaxBoots
    BY DEF TiersInv, TiersSound
  <2> QED BY <1>6, <2>1, TiersBounds
<1>8. Fits(c1')
  BY <1>6, FS_EmptySet, TiersBounds DEF Fits
<1>9. hot' \in [Constraints -> SUBSET Tokens] /\ \A c \in Constraints : hot'[c] = {}
  BY <1>6 DEF Unmonitored, NotHot
<1>10. removal' \in [Constraints -> 0..(Threshold - 1)] /\ \A c \in Constraints : removal'[c] = 0
  BY <1>6, TiersBounds DEF NoneCold
<1>11. TiersSound'
  BY <1>2, <1>4, <1>5, <1>6, <1>7, <1>8, <1>9, <1>10 DEF TiersSound, PoolOf, Fits
<1>12. HotListed'
  <2> SUFFICES ASSUME NEW c \in Constraints
               PROVE  hot'[c] \subseteq UNION Lists[c] /\ removal'[c] <= absent'[c]
    BY DEF HotListed
  <2>1. absent'[c] \in 0..Threshold
    BY <1>5
  <2>2. removal'[c] <= absent'[c]
    BY <1>10, <2>1, TiersBounds
  <2>3. hot'[c] \subseteq UNION Lists[c]
    BY <1>9
  <2> QED BY <2>2, <2>3
<1>13. PromotedFed' /\ HotCovered'
  BY <1>6, <1>9 DEF PromotedFed, HotCovered
<1> QED BY <1>11, <1>12, <1>13 DEF TiersInv

\* The market ids of a position can be subscribed; none is an asset.
LEMMA MarketsAre ==
  ASSUME NEW c \in Constraints
  PROVE  MarketIds[c] \in SUBSET Ids /\ IsFiniteSet(MarketIds[c])
         /\ \A a \in Tokens : a \notin MarketIds[c]
BY IdsAre

\* What a step that only moves assets between the tiers has to keep.
LEMMA TiersMove ==
  ASSUME TiersInv, UNCHANGED <<hot, removal, found, boots, absent>>,
         PoolOf(b', ConnsB), Fits(c1'), promoted' \subseteq Ids, posAssets' \subseteq Ids,
         lacking' \subseteq Ids, held' \subseteq Constraints,
         \A a \in Tokens : a \in promoted' => a \in c1' \cup lacking',
         \A a \in Tokens : a \in Tracked(b) \cup c1 \cup lacking
                             => a \in Tracked(b') \cup c1' \cup lacking'
  PROVE  TiersInv'
<1>1. TiersSound'
  BY DEF TiersInv, TiersSound, PoolOf, Fits
<1>2. HotListed'
  BY DEF TiersInv, HotListed
<1>3. PromotedFed'
  BY DEF PromotedFed
<1>4. HotCovered'
  <2> SUFFICES ASSUME NEW c \in Constraints, NEW a \in hot[c]
               PROVE  a \in Fed' \cup lacking'
    BY DEF HotCovered
  <2>1. a \in Tokens
    BY DEF TiersInv, TiersSound
  <2>2. a \in Tracked(b) \cup c1 \cup lacking
    BY DEF TiersInv, HotCovered, Fed
  <2>3. a \in Tracked(b') \cup c1' \cup lacking'
    BY <2>1, <2>2
  <2> QED BY <2>3 DEF Fed, Tracked
<1> QED BY <1>1, <1>2, <1>3, <1>4 DEF TiersInv

\* A part of a set that fits, fits.
LEMMA FitsLess ==
  ASSUME NEW s, Fits(s), NEW ids
  PROVE  Fits(s \ ids)
<1>1. s \ ids \in SUBSET s /\ IsFiniteSet(s) /\ Cardinality(s) <= Cap /\ s \subseteq Ids
  BY DEF Fits
<1>2. /\ IsFiniteSet(s \ ids) /\ Cardinality(s \ ids) <= Cardinality(s)
      /\ Cardinality(s) \in Nat /\ Cardinality(s \ ids) \in Nat
  BY <1>1, FS_Subset, FS_CardinalityType
<1>3. Cardinality(s \ ids) <= Cap
  BY <1>1, <1>2, TiersBounds
<1> QED BY <1>1, <1>2, <1>3 DEF Fits

\* A position is opened: its assets go to Tier C and off Tier B.
LEMMA TiersEnter == ASSUME TiersInv, NEW c \in Constraints, Enter(c) PROVE TiersInv'
<1>1. PICK ids \in LoadedLists(c) :
      /\ held' = held \cup {c}
      /\ posAssets' = posAssets \cup ids /\ c1' \in ToC(ids)
      /\ promoted' = promoted \cup ids /\ b' = Unsubscribed(b, ids)
      /\ lacking' = (lacking \ ids) \cup (ids \ c1')
      /\ UNCHANGED <<hot, removal, found, boots, absent>>
  BY DEF Enter, OnEntry, AddPositionAssets, PromoteToC, Refused
<1>2. ids \in SUBSET Tokens
  <2>1. CASE c \in DOMAIN found
    BY <1>1, <2>1, ScanIs DEF TiersInv, TiersSound, LoadedLists
  <2>2. CASE c \notin DOMAIN found
    BY <1>1, <2>2, ListsAssumption DEF LoadedLists
  <2> QED BY <2>1, <2>2
<1>3. ids \in SUBSET Ids /\ IsFiniteSet(ids)
  BY <1>2, IdsAre, TokensAssumption, FS_Subset
<1>4. PoolOf(b, ConnsB) /\ Fits(c1) /\ promoted \subseteq Ids /\ posAssets \subseteq Ids
      /\ lacking \subseteq Ids /\ held \subseteq Constraints
      /\ \A a \in Tokens : a \in promoted => a \in c1 \cup lacking
  BY DEF TiersInv, TiersSound, PromotedFed
<1>5. PoolOf(b', ConnsB) /\ Tracked(b') = Tracked(b) \ ids
  BY <1>1, <1>4, UnsubscribedPool, TiersBounds
<1>6. Fits(c1') /\ c1 \subseteq c1'
  BY <1>1, <1>3, <1>4, ToCPool
<1>7. promoted' \subseteq Ids /\ posAssets' \subseteq Ids /\ lacking' \subseteq Ids
      /\ held' \subseteq Constraints
  BY <1>1, <1>3, <1>4
<1>8. \A a \in Tokens : a \in promoted' => a \in c1' \cup lacking'
  BY <1>1, <1>4, <1>6
<1>9. \A a \in Tokens : a \in Tracked(b) \cup c1 \cup lacking
                           => a \in Tracked(b') \cup c1' \cup lacking'
  BY <1>1, <1>5, <1>6
<1> QED BY <1>1, <1>5, <1>6, <1>7, <1>8, <1>9, TiersMove

\* The feed is told of an exit: only market ids go off Tier C.
LEMMA OnExitKeeps ==
  ASSUME TiersInv, NEW c \in Constraints, OnExit(c)
  PROVE  /\ PoolOf(b', ConnsB) /\ Fits(c1') /\ promoted' \subseteq Ids /\ posAssets' \subseteq Ids
         /\ lacking' \subseteq Ids
         /\ Tracked(b) \subseteq Tracked(b')
         /\ \A a \in Tokens : /\ a \in c1 => a \in c1'
                              /\ a \in lacking => a \in lacking'
                              /\ a \in promoted' => a \in promoted
<1> DEFINE ids == MarketIds[c]
<1>1. ids \in SUBSET Ids /\ IsFiniteSet(ids) /\ \A a \in Tokens : a \notin ids
  BY MarketsAre
<1> HIDE DEF ids
<1>2. /\ posAssets' = posAssets \ ids /\ c1' = c1 \ (ids \cap posAssets)
      /\ \/ UNCHANGED <<promoted, b, lacking>>
         \/ promoted' = promoted \ ids /\ UNCHANGED <<b, lacking>>
         \/ /\ promoted' = promoted \ ids /\ b' \in ToB(ids)
            /\ lacking' = (lacking \ ids) \cup (ids \ (Tracked(b') \cup c1))
  BY DEF OnExit, DemoteFromC, RemovePositionAssets, Refused, ids
<1>3. PoolOf(b, ConnsB) /\ Fits(c1) /\ promoted \subseteq Ids /\ posAssets \subseteq Ids
      /\ lacking \subseteq Ids
  BY DEF TiersInv, TiersSound
<1>4. Fits(c1')
  BY <1>2, <1>3, FitsLess
<1>5. promoted' \subseteq Ids /\ posAssets' \subseteq Ids /\ lacking' \subseteq Ids
  BY <1>1, <1>2, <1>3
<1>6. PoolOf(b', ConnsB) /\ Tracked(b) \subseteq Tracked(b')
  <2>1. CASE b' = b
    BY <1>3, <2>1
  <2>2. CASE b' \in ToB(ids)
    BY <1>1, <1>3, <2>2, ToBPool
  <2> QED BY <1>2, <2>1, <2>2
<1>7. \A a \in Tokens : /\ a \in c1 => a \in c1'
                        /\ a \in lacking => a \in lacking'
                        /\ a \in promoted' => a \in promoted
  BY <1>1, <1>2
<1> QED BY <1>4, <1>5, <1>6, <1>7

\* The steps that tell the feed of an exit.
LEMMA TiersExit ==
  ASSUME TiersInv, NEW c \in Constraints, OnExit(c), held' \subseteq Constraints,
         UNCHANGED <<hot, removal, found, boots, absent>>
  PROVE  TiersInv'
<1>1. /\ PoolOf(b', ConnsB) /\ Fits(c1') /\ promoted' \subseteq Ids /\ posAssets' \subseteq Ids
      /\ lacking' \subseteq Ids
      /\ Tracked(b) \subseteq Tracked(b')
      /\ \A a \in Tokens : /\ a \in c1 => a \in c1'
                           /\ a \in lacking => a \in lacking'
                           /\ a \in promoted' => a \in promoted
  BY OnExitKeeps
<1>2. \A a \in Tokens : a \in promoted => a \in c1 \cup lacking
  BY DEF TiersInv, PromotedFed
<1>3. \A a \in Tokens : a \in promoted' => a \in c1' \cup lacking'
  BY <1>1, <1>2
<1>4. \A a \in Tokens : a \in Tracked(b) \cup c1 \cup lacking
                           => a \in Tracked(b') \cup c1' \cup lacking'
  BY <1>1
<1> QED BY <1>1, <1>3, <1>4, TiersMove

\* What a scan changes about a constraint: the counts of what it missed stay
\* in step, and what is new is recorded with the list that was found.
LEMMA ScannedCounts ==
  ASSUME TiersInv, NEW scan \in Scans, Rescan(scan), NEW c \in Constraints
  PROVE  /\ absent'[c] \in 0..Threshold
         /\ removal'[c] \in 0..(Threshold - 1) /\ removal'[c] <= absent'[c]
         /\ c \in Cooled(scan) => absent'[c] >= Threshold /\ c \notin DOMAIN scan
<1> DEFINE count == IF hot[c] # NotHot /\ c \notin DOMAIN scan THEN removal[c] + 1 ELSE 0
           next == absent[c] + 1
<1>1. removal[c] \in 0..(Threshold - 1) /\ absent[c] \in 0..Threshold /\ removal[c] <= absent[c]
  BY DEF TiersInv, TiersSound, HotListed
<1>2. next \in Nat
  BY <1>1, TiersBounds
<1>3. Min({next, Threshold}) = IF next <= Threshold THEN next ELSE Threshold
  BY <1>2, TiersBounds, MinOfTwo
<1>4. absent'[c] = IF c \in DOMAIN scan THEN 0 ELSE Min({next, Threshold})
  BY DEF Rescan, Missing
<1>5. absent'[c] \in 0..Threshold
  BY <1>1, <1>3, <1>4, TiersBounds
<1>6. Counted(scan)[c] = count
  BY DEF Counted
<1>7. c \in Cooled(scan) <=> count >= Threshold
  BY <1>6 DEF Cooled
<1>8. removal'[c] = IF c \in Cooled(scan) THEN 0 ELSE count
  BY <1>6 DEF Rescan
<1>9. CASE c \in DOMAIN scan
  BY <1>4, <1>5, <1>7, <1>8, <1>9, TiersBounds
<1>10. CASE c \notin DOMAIN scan
  BY <1>1, <1>3, <1>4, <1>5, <1>7, <1>8, <1>10, TiersBounds
<1> QED BY <1>9, <1>10

\* What a scan drops from Tier B belongs to constraints that it did not find,
\* and that it was not the first to miss.
LEMMA ScannedDrop ==
  ASSUME TiersInv, NEW scan \in Scans, Rescan(scan), NEW d \in Cooled(scan), NEW a \in hot[d],
         NEW c \in Constraints, c \in DOMAIN scan \/ c \notin Cooled(scan),
         a \in hot[c] \/ (c \in DOMAIN scan /\ a \in scan[c])
  PROVE  FALSE
<1>1. d \in Constraints
  BY DEF Cooled
<1>2. d \notin DOMAIN scan
  BY <1>1, ScannedCounts
<1>3. c # d
  BY <1>2
<1>4. a \in UNION Lists[d]
  BY <1>1 DEF TiersInv, HotListed
<1>5. a \in UNION Lists[c]
  <2>1. hot[c] \subseteq UNION Lists[c]
    BY DEF TiersInv, HotListed
  <2>2. c \in DOMAIN scan => scan[c] \subseteq UNION Lists[c]
    BY ScanIs
  <2> QED BY <2>1, <2>2
<1> QED BY <1>1, <1>3, <1>4, <1>5, ListsAssumption

\* A scan: what is new goes to Tier B, what is cold leaves it, and what is on
\* Tier C stays out of both.
LEMMA TiersRescan == ASSUME TiersInv, NEW scan \in Scans, Rescan(scan) PROVE TiersInv'
<1> DEFINE new == {c \in DOMAIN scan : hot[c] = NotHot}
           add == (UNION {scan[c] : c \in new}) \ promoted
           drop == (UNION {hot[c] : c \in Cooled(scan)}) \ promoted
<1>1. PICK pool \in ToB(add) : b' = Unsubscribed(pool, drop)
                               /\ lacking' = ((lacking \ add) \cup (add \ Tracked(pool))) \ drop
  BY DEF Rescan, Refused
<1>2. /\ hot' = [c \in Constraints |-> IF c \in new THEN scan[c]
                                       ELSE IF c \in Cooled(scan) THEN NotHot ELSE hot[c]]
      /\ found' = scan /\ UNCHANGED <<c1, promoted, posAssets, held, boots>>
      /\ removal' = [c \in Constraints |-> IF c \in Cooled(scan) THEN 0 ELSE Counted(scan)[c]]
      /\ absent' = [c \in Constraints |-> Missing(c, scan)]
  BY DEF Rescan
<1>3. /\ PoolOf(b, ConnsB) /\ Fits(c1) /\ lacking \subseteq Ids
      /\ hot \in [Constraints -> SUBSET Tokens]
      /\ promoted \subseteq Ids /\ posAssets \subseteq Ids /\ held \subseteq Constraints
      /\ boots \in 1..MaxBoots
      /\ \A a \in Tokens : a \in promoted => a \in c1 \cup lacking
  BY DEF TiersInv, TiersSound, PromotedFed
<1>4. /\ DOMAIN scan \subseteq Constraints
      /\ \A c \in DOMAIN scan : scan[c] \in SUBSET Tokens /\ scan[c] \subseteq UNION Lists[c]
                                /\ scan[c] # {}
  BY ScanIs
<1>5. add \in SUBSET Tokens /\ \A a \in add : a \notin promoted
  <2> SUFFICES ASSUME NEW a \in add PROVE a \in Tokens /\ a \notin promoted
    OBVIOUS
  <2>1. PICK c \in new : a \in scan[c]
    OBVIOUS
  <2>2. scan[c] \in SUBSET Tokens
    BY <1>4
  <2> QED BY <2>1, <2>2
<1>6. add \in SUBSET Ids /\ IsFiniteSet(add)
  BY <1>5, IdsAre, TokensAssumption, FS_Subset
<1>7. \A a \in drop : a \notin promoted /\ \E d \in Cooled(scan) : a \in hot[d]
  <2> DEFINE cold == Cooled(scan)
  <2>1. drop = (UNION {hot[c] : c \in cold}) \ promoted
    OBVIOUS
  <2> HIDE DEF cold, drop
  <2>2. \A a \in drop : a \notin promoted /\ \E d \in cold : a \in hot[d]
    BY <2>1
  <2> QED BY <2>2 DEF cold
<1>8. \A c \in new : \A a \in scan[c] : a \notin promoted => a \in add
  <2> HIDE DEF new
  <2> SUFFICES ASSUME NEW c \in new, NEW a \in scan[c], a \notin promoted PROVE a \in add
    OBVIOUS
  <2>1. scan[c] \in {scan[e] : e \in new}
    OBVIOUS
  <2> QED BY <2>1
<1> HIDE DEF add, drop
<1>9. PoolOf(pool, ConnsB) /\ Tracked(b) \subseteq Tracked(pool)
  BY <1>3, <1>6, ToBPool
<1>10. PoolOf(b', ConnsB) /\ Tracked(b') = Tracked(pool) \ drop
  BY <1>1, <1>9, UnsubscribedPool, TiersBounds
<1>11. lacking' \subseteq Ids
  BY <1>1, <1>3, <1>6
<1>12. ASSUME NEW c \in Constraints
       PROVE  /\ hot'[c] \in SUBSET Tokens /\ hot'[c] \subseteq UNION Lists[c]
              /\ removal'[c] \in 0..(Threshold - 1) /\ absent'[c] \in 0..Threshold
              /\ removal'[c] <= absent'[c]
  <2>1. removal'[c] \in 0..(Threshold - 1) /\ absent'[c] \in 0..Threshold /\ removal'[c] <= absent'[c]
    BY ScannedCounts
  <2>2. hot'[c] = IF c \in new THEN scan[c] ELSE IF c \in Cooled(scan) THEN NotHot ELSE hot[c]
    BY <1>2
  <2>3. hot[c] \in SUBSET Tokens /\ hot[c] \subseteq UNION Lists[c]
    BY <1>3 DEF TiersInv, HotListed
  <2>4. c \in new => scan[c] \in SUBSET Tokens /\ scan[c] \subseteq UNION Lists[c]
    BY <1>4
  <2> HIDE DEF new
  <2>5. hot'[c] \in SUBSET Tokens /\ hot'[c] \subseteq UNION Lists[c]
    BY <2>2, <2>3, <2>4 DEF NotHot
  <2> QED BY <2>1, <2>5
<1>13. /\ hot' \in [Constraints -> SUBSET Tokens] /\ removal' \in [Constraints -> 0..(Threshold - 1)]
       /\ absent' \in [Constraints -> 0..Threshold]
  <2>1. \A c \in Constraints : hot'[c] \in SUBSET Tokens /\ removal'[c] \in 0..(Threshold - 1)
                               /\ absent'[c] \in 0..Threshold
    BY <1>12
  <2>2. /\ hot' = [c \in Constraints |-> hot'[c]] /\ removal' = [c \in Constraints |-> removal'[c]]
        /\ absent' = [c \in Constraints |-> absent'[c]]
    BY <1>2
  <2> QED BY <2>1, <2>2
<1>14. TiersSound'
  BY <1>2, <1>3, <1>10, <1>11, <1>13 DEF TiersSound, PoolOf, Fits
<1>15. HotListed'
  BY <1>12 DEF HotListed
<1>16. PromotedFed'
  <2> SUFFICES ASSUME NEW a \in Tokens, a \in promoted PROVE a \in c1 \cup lacking'
    BY <1>2 DEF PromotedFed
  <2>1. a \in c1 \cup lacking /\ a \notin add /\ a \notin drop
    BY <1>3, <1>5, <1>7
  <2> QED BY <1>1, <2>1
<1>17. HotCovered'
  <2> SUFFICES ASSUME NEW c \in Constraints, NEW a \in hot'[c]
               PROVE  a \in Tracked(b') \cup c1 \cup lacking'
    BY <1>2 DEF HotCovered, Fed, Tracked
  <2>1. a \in Tokens
    BY <1>12
  <2>2. \/ c \in new /\ a \in scan[c]
        \/ c \notin Cooled(scan) /\ a \in hot[c]
    BY <1>2 DEF NotHot
  <2>3. a \notin drop
    <3> SUFFICES ASSUME NEW d \in Cooled(scan), a \in hot[d] PROVE FALSE
      BY <1>7
    <3>1. c \in DOMAIN scan \/ c \notin Cooled(scan)
      BY <2>2
    <3>2. a \in hot[c] \/ (c \in DOMAIN scan /\ a \in scan[c])
      BY <2>2
    <3> QED BY <3>1, <3>2, ScannedDrop
  <2>4. a \in Tracked(pool) \cup c1 \cup (lacking \ add) \cup (add \ Tracked(pool))
    <3>1. CASE c \in new /\ a \in scan[c]
      <4>1. CASE a \in promoted
        BY <1>3, <1>5, <2>1, <4>1
      <4>2. CASE a \notin promoted
        BY <1>8, <3>1, <4>2
      <4> QED BY <4>1, <4>2
    <3>2. CASE a \in hot[c]
      <4>1. a \in Tracked(b) \cup c1 \cup lacking
        BY <3>2 DEF TiersInv, HotCovered, Fed
      <4> QED BY <1>9, <4>1
    <3> QED BY <2>2, <3>1, <3>2
  <2> QED BY <1>1, <1>10, <2>3, <2>4
<1> QED BY <1>14, <1>15, <1>16, <1>17 DEF TiersInv

\* A step of the tiers, or none, keeps the invariant.
LEMMA TiersStep == TiersInv /\ [TiersNext]_tierVars => TiersInv'
<1> SUFFICES ASSUME TiersInv, [TiersNext]_tierVars PROVE TiersInv'
  OBVIOUS
<1>1. /\ PoolOf(b, ConnsB) /\ Fits(c1) /\ promoted \subseteq Ids /\ posAssets \subseteq Ids
      /\ lacking \subseteq Ids /\ held \subseteq Constraints
      /\ \A a \in Tokens : a \in promoted => a \in c1 \cup lacking
  BY DEF TiersInv, TiersSound, PromotedFed
<1>2. ASSUME NEW scan \in Scans, Rescan(scan) PROVE TiersInv'
  BY <1>2, TiersRescan
<1>3. ASSUME NEW c \in Constraints, Enter(c) PROVE TiersInv'
  BY <1>3, TiersEnter
<1>4. ASSUME NEW c \in Constraints, ExitWhole(c) PROVE TiersInv'
  <2>1. OnExit(c) /\ held' = held \ {c} /\ UNCHANGED <<hot, removal, found, boots, absent>>
    BY <1>4 DEF ExitWhole
  <2> QED BY <1>1, <2>1, TiersExit
<1>5. ASSUME NEW c \in Constraints, Announced(c) PROVE TiersInv'
  <2>1. OnExit(c) /\ held' = held /\ UNCHANGED <<hot, removal, found, boots, absent>>
    BY <1>5 DEF Announced
  <2> QED BY <1>1, <2>1, TiersExit
<1>6. ASSUME NEW c \in Constraints, CloseUntold(c) PROVE TiersInv'
  <2>1. /\ held' = held \ {c} /\ b' = b /\ c1' = c1 /\ lacking' = lacking /\ promoted' = promoted
        /\ posAssets' = posAssets /\ UNCHANGED <<hot, removal, found, boots, absent>>
    BY <1>6 DEF CloseUntold, feed
  <2> QED BY <1>1, <2>1, TiersMove
<1>7. ASSUME NEW c \in Constraints, NEW w \in Constraints, ReplaceHeld(c, w) PROVE TiersInv'
  <2>1. OnExit(w) /\ UNCHANGED <<hot, removal, found, boots, absent>>
    BY <1>7 DEF ReplaceHeld
  <2>2. held' \subseteq held \cup {c}
    BY <1>7 DEF ReplaceHeld
  <2> QED BY <1>1, <2>1, <2>2, TiersExit
<1>8. ASSUME Consolidate PROVE TiersInv'
  <2>1. PoolOf(b', ConnsB) /\ Tracked(b) \subseteq Tracked(b')
    BY <1>1, <1>8, Consolidated
  <2>2. /\ held' = held /\ c1' = c1 /\ lacking' = lacking /\ promoted' = promoted
        /\ posAssets' = posAssets /\ UNCHANGED <<hot, removal, found, boots, absent>>
    BY <1>8 DEF Consolidate
  <2> QED BY <1>1, <2>1, <2>2, TiersMove
<1>9. ASSUME Restart PROVE TiersInv'
  BY <1>9, TiersRestart
<1>10. ASSUME UNCHANGED tierVars PROVE TiersInv'
  <2>1. /\ held' = held /\ b' = b /\ c1' = c1 /\ lacking' = lacking /\ promoted' = promoted
        /\ posAssets' = posAssets /\ UNCHANGED <<hot, removal, found, boots, absent>>
    BY <1>10 DEF tierVars
  <2> QED BY <1>1, <2>1, TiersMove
<1> QED BY <1>2, <1>3, <1>4, <1>5, <1>6, <1>7, <1>8, <1>9, <1>10 DEF TiersNext

\* The invariant holds in every state.
LEMMA TiersAlways == TiersSpec => []TiersInv
<1> QED BY TiersInitially, TiersStep, PTL DEF TiersSpec

\* In every state the tiers are what the type invariant says: in particular no
\* connection of Tier B or Tier C is asked for more assets than the venue takes
\* on one, and a constraint leaves removal_candidates before it counts to the
\* threshold (ws_tier_b.rs, ws_tier_c.rs).
THEOREM TiersTyped == TiersSpec => []TiersTypeOK
<1>1. TiersInv => TiersTypeOK
  BY DEF TiersInv, TiersSound, PoolOf, Fits, TiersTypeOK
<1> QED BY <1>1, TiersAlways, PTL

\* Over entries, exits, replacements, rescans, consolidations and restarts no
\* asset of a monitored constraint falls between the tiers (ws_tiered.rs,
\* "overlap > gap").
THEOREM TiersCover == TiersSpec => []HotCovered
<1>1. TiersInv => HotCovered
  BY DEF TiersInv
<1> QED BY <1>1, TiersAlways, PTL

\* What a step takes off Tier B.
ColdStep ==
  boots' = boots =>
    \A a \in (Tracked(b) \cap Tokens) \ Tracked(b') :
      \/ a \in promoted'
      \/ \E c \in Constraints : a \in hot[c] /\ absent'[c] >= Threshold

\* A scan takes off Tier B only what was missing long enough.
LEMMA ColdRescan == ASSUME TiersInv, NEW scan \in Scans, Rescan(scan) PROVE ColdStep
<1> DEFINE add == (UNION {scan[c] : c \in {e \in DOMAIN scan : hot[e] = NotHot}}) \ promoted
           drop == (UNION {hot[c] : c \in Cooled(scan)}) \ promoted
<1>1. PICK pool \in ToB(add) : b' = Unsubscribed(pool, drop)
  BY DEF Rescan
<1>2. PoolOf(b, ConnsB)
  BY DEF TiersInv, TiersSound
<1>3. add \in SUBSET Tokens
  BY ScanIs
<1>4. add \in SUBSET Ids /\ IsFiniteSet(add)
  BY <1>3, IdsAre, TokensAssumption, FS_Subset
<1>5. \A a \in drop : \E c \in Cooled(scan) : a \in hot[c]
  OBVIOUS
<1> HIDE DEF add, drop
<1>6. PoolOf(pool, ConnsB) /\ Tracked(b) \subseteq Tracked(pool)
  BY <1>2, <1>4, ToBPool
<1>7. Tracked(b') = Tracked(pool) \ drop
  BY <1>1, <1>6, UnsubscribedPool, TiersBounds
<1>8. \A c \in Cooled(scan) : c \in Constraints /\ absent'[c] >= Threshold
  BY ScannedCounts DEF Cooled
<1> QED BY <1>5, <1>6, <1>7, <1>8 DEF ColdStep

\* Every other step leaves Tier B what it had, but for what goes to Tier C.
LEMMA ColdOthers ==
  ASSUME TiersInv, TiersNext, ~ \E scan \in Scans : Rescan(scan)
  PROVE  ColdStep
<1>1. PoolOf(b, ConnsB) /\ found \in Scans /\ boots \in 1..MaxBoots
  BY DEF TiersInv, TiersSound
<1>2. ASSUME NEW c \in Constraints, Enter(c) PROVE ColdStep
  <2>1. PICK ids \in LoadedLists(c) : OnEntry(ids)
    BY <1>2 DEF Enter
  <2>2. b' = Unsubscribed(b, ids) /\ promoted' = promoted \cup ids
    BY <2>1 DEF OnEntry, PromoteToC
  <2>3. Tracked(b') = Tracked(b) \ ids
    BY <1>1, <2>2, UnsubscribedPool, TiersBounds
  <2> QED BY <2>2, <2>3 DEF ColdStep
<1>3. ASSUME NEW c \in Constraints, OnExit(c) PROVE ColdStep
  BY <1>3, OnExitKeeps DEF ColdStep
<1>4. ASSUME NEW c \in Constraints, CloseUntold(c) PROVE ColdStep
  BY <1>4 DEF CloseUntold, feed, ColdStep
<1>5. ASSUME Consolidate PROVE ColdStep
  BY <1>1, <1>5, Consolidated DEF ColdStep
<1>6. ASSUME Restart PROVE ColdStep
  BY <1>1, <1>6, TiersBounds DEF Restart, ColdStep
<1> QED BY <1>2, <1>3, <1>4, <1>5, <1>6 DEF TiersNext, ExitWhole, Announced, ReplaceHeld

\* Tier B lets go of an asset only for Tier C, or when its constraint was
\* missing from so many scans in a row (ws_tier_b.rs, "constraints that
\* disappear must stay cold"): a constraint that comes back in between starts
\* from nothing.
THEOREM TiersColdNeverEarly == TiersSpec => ColdNeverEarly
<1>1. TiersInv /\ [TiersNext]_tierVars => [ColdStep]_tierVars
  BY ColdRescan, ColdOthers
<1>2. ColdNeverEarly <=> [][ColdStep]_tierVars
  BY PTL DEF ColdNeverEarly, ColdStep
<1> QED BY <1>1, <1>2, TiersAlways, PTL DEF TiersSpec

-----------------------------------------------------------------------------
(* The members of a sequence.                                              *)

\* The members of a sequence over S are in S.
LEMMA MembersType ==
  ASSUME NEW S, NEW s \in Seq(S) PROVE Members(s) \subseteq S
BY DEF Members

\* Appending adds a member.
LEMMA MembersAppend ==
  ASSUME NEW S, NEW s \in Seq(S), NEW e \in S
  PROVE  Members(Append(s, e)) = Members(s) \cup {e}
<1> DEFINE t == Append(s, e)
<1>1. DOMAIN t = 1..Len(s) + 1 /\ DOMAIN s = 1..Len(s) /\ Len(s) \in Nat
  OBVIOUS
<1>2. \A i \in DOMAIN s : t[i] = s[i]
  OBVIOUS
<1>3. t[Len(s) + 1] = e
  OBVIOUS
<1>4. DOMAIN t = DOMAIN s \cup {Len(s) + 1}
  BY <1>1
<1> HIDE DEF t
<1>5. {t[i] : i \in DOMAIN t} = {s[i] : i \in DOMAIN s} \cup {e}
  BY <1>2, <1>3, <1>4
<1> QED BY <1>5 DEF Members, t

\* Concatenation joins the members.
LEMMA MembersConcat ==
  ASSUME NEW S, NEW s \in Seq(S), NEW t \in Seq(S)
  PROVE  /\ s \o t \in Seq(S)
         /\ Members(s \o t) = Members(s) \cup Members(t)
<1> DEFINE u == s \o t
<1>1. u \in Seq(S) /\ DOMAIN u = 1..Len(s) + Len(t)
  OBVIOUS
<1>2. DOMAIN s = 1..Len(s) /\ DOMAIN t = 1..Len(t) /\ Len(s) \in Nat /\ Len(t) \in Nat
  OBVIOUS
<1>3. \A i \in DOMAIN s : i \in DOMAIN u /\ u[i] = s[i]
  BY <1>1, <1>2
<1>4. \A i \in DOMAIN t : Len(s) + i \in DOMAIN u /\ u[Len(s) + i] = t[i]
  BY <1>1, <1>2
<1>5. \A i \in DOMAIN u :
        i \in DOMAIN s \/ (i - Len(s) \in DOMAIN t /\ u[i] = t[i - Len(s)])
  BY <1>1, <1>2
<1> HIDE DEF u
<1>6. Members(u) \subseteq Members(s) \cup Members(t)
  BY <1>3, <1>5 DEF Members
<1>7. Members(s) \subseteq Members(u) /\ Members(t) \subseteq Members(u)
  BY <1>3, <1>4 DEF Members
<1> QED BY <1>1, <1>6, <1>7 DEF u

\* Splitting a sequence keeps its members.
LEMMA MembersSplit ==
  ASSUME NEW S, NEW s \in Seq(S), NEW n \in 0..Len(s)
  PROVE  /\ First(s, n) \in Seq(S) /\ After(s, n) \in Seq(S)
         /\ Members(First(s, n)) \cup Members(After(s, n)) = Members(s)
<1> DEFINE a == First(s, n)
           t == After(s, n)
<1>1. DOMAIN s = 1..Len(s) /\ Len(s) \in Nat /\ n \in Nat
  OBVIOUS
<1>2. a \in Seq(S) /\ DOMAIN a = 1..n /\ \A i \in 1..n : a[i] = s[i]
  BY <1>1 DEF First
<1>3. t \in Seq(S) /\ DOMAIN t = 1..Len(s) - n /\ \A i \in 1..Len(s) - n : t[i] = s[n + i]
  BY <1>1 DEF After
<1> HIDE DEF a, t
<1>4. Members(a) \subseteq Members(s) /\ Members(t) \subseteq Members(s)
  <2>1. \A i \in DOMAIN a : i \in DOMAIN s /\ a[i] = s[i]
    BY <1>1, <1>2
  <2>2. \A i \in DOMAIN t : n + i \in DOMAIN s /\ t[i] = s[n + i]
    BY <1>1, <1>3
  <2> QED BY <2>1, <2>2 DEF Members
<1>5. \A i \in DOMAIN s :
        (i \in DOMAIN a /\ a[i] = s[i]) \/ (i - n \in DOMAIN t /\ t[i - n] = s[i])
  BY <1>1, <1>2, <1>3
<1>6. Members(s) \subseteq Members(a) \cup Members(t)
  BY <1>5 DEF Members
<1> QED BY <1>2, <1>3, <1>4, <1>6 DEF a, t

\* The head and the rest have all members.
LEMMA MembersTail ==
  ASSUME NEW S, NEW s \in Seq(S), s # <<>>
  PROVE  /\ Head(s) \in S /\ Tail(s) \in Seq(S)
         /\ Members(s) = Members(Tail(s)) \cup {Head(s)}
<1> DEFINE t == Tail(s)
<1>1. DOMAIN s = 1..Len(s) /\ Len(s) \in Nat \ {0} /\ Head(s) = s[1] /\ Head(s) \in S
  OBVIOUS
<1>2. t \in Seq(S) /\ DOMAIN t = 1..Len(s) - 1 /\ \A i \in 1..Len(s) - 1 : t[i] = s[i + 1]
  BY <1>1
<1> HIDE DEF t
<1>3. Members(t) \subseteq Members(s) /\ Head(s) \in Members(s)
  <2>1. \A i \in DOMAIN t : i + 1 \in DOMAIN s /\ t[i] = s[i + 1]
    BY <1>1, <1>2
  <2>2. 1 \in DOMAIN s
    BY <1>1
  <2> QED BY <1>1, <2>1, <2>2 DEF Members
<1>4. \A i \in DOMAIN s : i = 1 \/ (i - 1 \in DOMAIN t /\ t[i - 1] = s[i])
  BY <1>1, <1>2
<1>5. Members(s) \subseteq Members(t) \cup {Head(s)}
  BY <1>1, <1>4 DEF Members
<1> QED BY <1>1, <1>2, <1>3, <1>5 DEF t

\* The empty sequence has none.
LEMMA MembersEmpty == Members(<<>>) = {}
BY DEF Members

-----------------------------------------------------------------------------
(* The queue.                                                              *)

\* A queue whose sets name only entries that are in the lists beside them: a
\* push that finds its constraint in a set may be dropped.
Follows(q) == q.urgentSet \subseteq Members(q.urgent) /\ q.bgSet \subseteq Members(q.background)
Good(q) == q \in Queue /\ Follows(q)

\* The empty queue is in step.
LEMMA EmptyQueueGood == Good(EmptyQueue) /\ Waiting(EmptyQueue) = {}
BY MembersEmpty DEF Good, Follows, EmptyQueue, Queue, Waiting

\* An urgent push keeps the queue in step, and its constraint waits.
LEMMA PushUrgentGood ==
  ASSUME NEW q, Good(q), NEW c \in Constraints
  PROVE  /\ Good(PushUrgent(q, c))
         /\ Waiting(PushUrgent(q, c)) = Waiting(q) \cup {c}
<1> DEFINE p == PushUrgent(q, c)
           u == IF c \in q.urgentSet THEN q.urgent ELSE Append(q.urgent, c)
<1>1. /\ q.urgent \in Seq(Constraints) /\ q.background \in Seq(Constraints)
      /\ q.urgentSet \subseteq Members(q.urgent) /\ q.bgSet \subseteq Members(q.background)
      /\ q.urgentSet \subseteq Constraints /\ q.bgSet \subseteq Constraints
  BY DEF Good, Follows, Queue
<1>2. u \in Seq(Constraints) /\ Members(u) = Members(q.urgent) \cup {c}
  <2>1. CASE c \in q.urgentSet
    BY <2>1, <1>1
  <2>2. CASE c \notin q.urgentSet
    BY <2>2, <1>1, MembersAppend
  <2> QED BY <2>1, <2>2
<1>3. /\ p.urgent = u /\ p.background = q.background
      /\ p.urgentSet = q.urgentSet \cup {c} /\ p.bgSet = q.bgSet \ {c}
  BY DEF PushUrgent, Good, Queue
<1>4. p \in Queue
  BY <1>1, <1>2 DEF PushUrgent, Good, Queue
<1> HIDE DEF p, u
<1>5. Good(p) /\ Waiting(p) = Waiting(q) \cup {c}
  BY <1>1, <1>2, <1>3, <1>4 DEF Good, Follows, Waiting
<1> QED BY <1>5 DEF p

\* So does one in the background, which leaves the urgent list alone.
LEMMA PushBackgroundGood ==
  ASSUME NEW q, Good(q), NEW c \in Constraints
  PROVE  /\ Good(PushBackground(q, c))
         /\ Waiting(PushBackground(q, c)) = Waiting(q) \cup {c}
         /\ PushBackground(q, c).urgent = q.urgent
<1>1. /\ q.urgent \in Seq(Constraints) /\ q.background \in Seq(Constraints)
      /\ q.urgentSet \subseteq Members(q.urgent) /\ q.bgSet \subseteq Members(q.background)
      /\ q.urgentSet \subseteq Constraints /\ q.bgSet \subseteq Constraints
  BY DEF Good, Follows, Queue
<1>2. CASE c \in q.urgentSet \cup q.bgSet
  BY <1>1, <1>2 DEF PushBackground, Waiting
<1>3. CASE c \notin q.urgentSet \cup q.bgSet
  <2> DEFINE p == PushBackground(q, c)
             k == Append(q.background, c)
  <2>1. k \in Seq(Constraints) /\ Members(k) = Members(q.background) \cup {c}
    BY <1>1, MembersAppend
  <2>2. p = [urgent |-> q.urgent, background |-> k,
             urgentSet |-> q.urgentSet, bgSet |-> q.bgSet \cup {c}]
    BY <1>3 DEF PushBackground, Good, Queue
  <2> HIDE DEF p, k
  <2>3. Good(p) /\ Waiting(p) = Waiting(q) \cup {c} /\ p.urgent = q.urgent
    BY <1>1, <2>1, <2>2 DEF Good, Follows, Queue, Waiting
  <2> QED BY <2>3 DEF p
<1> QED BY <1>2, <1>3

\* So does either.
LEMMA PushGood ==
  ASSUME NEW q, Good(q), NEW c \in Constraints, NEW isUrgent \in BOOLEAN
  PROVE  /\ Good(Push(q, c, isUrgent))
         /\ Waiting(Push(q, c, isUrgent)) = Waiting(q) \cup {c}
         /\ ~isUrgent => Push(q, c, isUrgent).urgent = q.urgent
BY PushUrgentGood, PushBackgroundGood DEF Push

\* A drain takes what it removes and keeps the sets in step.
LEMMA DrainGood ==
  ASSUME NEW q, Good(q), NEW max \in Nat
  PROVE  /\ Good(AfterDrain(q, max))
         /\ Drained(q, max) \in Seq(Constraints)
         /\ Members(Drained(q, max)) \cup Waiting(AfterDrain(q, max)) = Waiting(q)
<1> DEFINE u == TakenUrgent(q, max)
           k == TakenBackground(q, max)
           p == AfterDrain(q, max)
<1>1. /\ q.urgent \in Seq(Constraints) /\ q.background \in Seq(Constraints)
      /\ q.urgentSet \subseteq Members(q.urgent) /\ q.bgSet \subseteq Members(q.background)
      /\ q.urgentSet \subseteq Constraints /\ q.bgSet \subseteq Constraints
  BY DEF Good, Follows, Queue
<1>2. u \in 0..Len(q.urgent) /\ k \in 0..Len(q.background)
  <2>1. Len(q.urgent) \in Nat /\ Len(q.background) \in Nat
    BY <1>1
  <2>2. u \in 0..Len(q.urgent) /\ u <= max
    BY <2>1 DEF TakenUrgent, Least
  <2>3. k \in 0..Len(q.background)
    BY <2>1, <2>2 DEF TakenBackground, Least
  <2> QED BY <2>2, <2>3
<1> DEFINE fu == First(q.urgent, u)
           fb == First(q.background, k)
           au == After(q.urgent, u)
           ab == After(q.background, k)
<1>3. /\ fu \in Seq(Constraints) /\ au \in Seq(Constraints)
      /\ Members(fu) \cup Members(au) = Members(q.urgent)
  BY <1>1, <1>2, MembersSplit
<1>4. /\ fb \in Seq(Constraints) /\ ab \in Seq(Constraints)
      /\ Members(fb) \cup Members(ab) = Members(q.background)
  BY <1>1, <1>2, MembersSplit
<1>5. Drained(q, max) = fu \o fb
  BY DEF Drained
<1>6. p = [urgent |-> au, background |-> ab,
           urgentSet |-> q.urgentSet \ Members(fu), bgSet |-> q.bgSet \ Members(fb)]
  BY DEF AfterDrain
<1> HIDE DEF u, k, p, fu, fb, au, ab
<1>7. Drained(q, max) \in Seq(Constraints) /\ Members(Drained(q, max)) = Members(fu) \cup Members(fb)
  BY <1>3, <1>4, <1>5, MembersConcat
<1>8. Good(p)
  BY <1>1, <1>3, <1>4, <1>6 DEF Good, Follows, Queue
<1>9. Waiting(p) = Members(au) \cup Members(ab)
  BY <1>6 DEF Waiting
<1>10. Members(Drained(q, max)) \cup Waiting(p) = Waiting(q)
  BY <1>3, <1>4, <1>7, <1>9 DEF Waiting
<1> QED BY <1>7, <1>8, <1>10 DEF p

-----------------------------------------------------------------------------
(* The inductive invariant.                                                *)

Loaded == store \subseteq Constraints /\ index \in [Assets -> SUBSET Constraints]
Pushes == pushing \in [Feeds -> [cons : SUBSET Constraints, urgent : BOOLEAN]]
\* Nothing is drained over a batch that is not worked off.
Batch == batch \in Seq(Constraints) /\ (batch # <<>> => pc = "eval")
\* NoLostWakeup, at every phase between a drain and the next tick.
Awake == pc # "tick" /\ queue.urgent # <<>> => wake = TRUE \/ signals # {} \/ left = TRUE

PipelineInv == Loaded /\ Pushes /\ Good(queue) /\ Batch /\ NoChangeLost /\ Awake

\* Any index maps assets to constraints.
LEMMA IndexType ==
  ASSUME NEW S \in SUBSET Constraints
  PROVE  IndexOf(S) \in [Assets -> SUBSET Constraints]
BY DEF IndexOf

\* The pipeline starts with nothing to do.
LEMMA PipelineInitially == Init => PipelineInv
<1> SUFFICES ASSUME Init PROVE PipelineInv
  OBVIOUS
<1>1. Loaded
  BY IndexType DEF Init, Loaded
<1>2. Pushes
  BY DEF Init, Pushes, NoEvals
<1>3. Good(queue) /\ queue.urgent = <<>>
  BY EmptyQueueGood DEF Init, EmptyQueue
<1>4. Batch /\ NoChangeLost /\ Awake
  BY <1>3 DEF Init, Batch, NoChangeLost, Awake
<1> QED BY <1>1, <1>2, <1>3, <1>4 DEF PipelineInv

\* A step that leaves alone what is on its way keeps the parts about it.
LEMMA OnItsWayKeeps ==
  ASSUME PipelineInv, UNCHANGED <<pushing, queue, batch, owed>>
  PROVE  Pushes' /\ Good(queue)' /\ NoChangeLost'
<1>1. Pushes'
  BY DEF PipelineInv, Pushes
<1>2. Good(queue)'
  BY DEF PipelineInv, Good, Follows, Queue, Members
<1>3. BeingPushed' = BeingPushed /\ Waiting(queue)' = Waiting(queue) /\ Members(batch)' = Members(batch)
  BY DEF BeingPushed, Waiting, Members
<1> QED BY <1>1, <1>2, <1>3 DEF PipelineInv, NoChangeLost

\* What most steps of the loop leave alone.
Quiet ==
  UNCHANGED <<store, index, pushing, signals, queue, wake, batch, owed, left>>

\* A step that touches neither queue nor batch keeps the invariant.
LEMMA QuietKeeps ==
  ASSUME PipelineInv, Quiet, batch # <<>> => pc' = "eval", pc' = "tick" \/ pc # "tick"
  PROVE  PipelineInv'
<1>1. Loaded' /\ Batch' /\ Awake'
  BY DEF PipelineInv, Quiet, Loaded, Batch, Awake
<1> QED BY <1>1, OnItsWayKeeps DEF PipelineInv, Quiet

\* A price changes: the constraints it belongs to are on their way.
LEMMA UpdateKeeps ==
  ASSUME PipelineInv, NEW f \in Feeds, NEW a \in Assets, Update(f, a)
  PROVE  PipelineInv'
<1> PICK drifted \in BOOLEAN :
      pushing' = [pushing EXCEPT ![f] = IF index[a] = {} THEN NoEvals
                    ELSE [cons |-> index[a], urgent |-> drifted]]
  BY DEF Update
<1>1. /\ pushing[f] = NoEvals /\ owed' = owed \cup index[a]
      /\ UNCHANGED <<store, index, signals, queue, wake, batch, pc, left>>
  BY DEF Update, loopVars
<1>2. index[a] \subseteq Constraints
  BY DEF PipelineInv, Loaded
<1>3. Pushes'
  BY <1>2 DEF PipelineInv, Pushes, NoEvals
<1>4. /\ pushing'[f].cons = index[a]
      /\ \A g \in Feeds : g # f => pushing'[g] = pushing[g]
  BY DEF PipelineInv, Pushes, NoEvals
<1>5. BeingPushed' = BeingPushed \cup index[a]
  <2>1. pushing[f].cons = {}
    BY <1>1 DEF NoEvals
  <2> QED BY <1>4, <2>1 DEF BeingPushed
<1>6. NoChangeLost'
  BY <1>1, <1>5 DEF PipelineInv, NoChangeLost, Waiting, Members
<1>7. Loaded' /\ Good(queue)' /\ Batch' /\ Awake'
  BY <1>1 DEF PipelineInv, Loaded, Good, Follows, Members, Queue, Batch, Awake
<1> QED BY <1>3, <1>6, <1>7 DEF PipelineInv

\* One of them is pushed.
LEMMA PushNextKeeps ==
  ASSUME PipelineInv, NEW f \in Feeds, PushNext(f)
  PROVE  PipelineInv' /\ \E c \in Constraints : Waiting(queue)' = Waiting(queue) \cup {c}
<1> PICK c \in pushing[f].cons :
      /\ queue' = Push(queue, c, pushing[f].urgent)
      /\ pushing' = [pushing EXCEPT ![f] =
           IF pushing[f].cons \ {c} = {} THEN NoEvals
           ELSE [@ EXCEPT !.cons = pushing[f].cons \ {c}]]
  BY DEF PushNext
<1>1. /\ signals' = IF pushing[f].urgent THEN signals \cup {f} ELSE signals
      /\ UNCHANGED <<store, index, wake, batch, pc, left, owed>>
  BY DEF PushNext, loopVars
<1>2. c \in Constraints /\ pushing[f].urgent \in BOOLEAN
  BY DEF PipelineInv, Pushes
<1>3. /\ Good(queue') /\ Waiting(queue') = Waiting(queue) \cup {c}
      /\ ~pushing[f].urgent => queue'.urgent = queue.urgent
  BY <1>2, PushGood DEF PipelineInv
<1>4. Pushes'
  BY <1>2 DEF PipelineInv, Pushes, NoEvals
<1>5. /\ pushing'[f].cons = pushing[f].cons \ {c}
      /\ \A g \in Feeds : g # f => pushing'[g] = pushing[g]
  BY DEF PipelineInv, Pushes, NoEvals
<1>6. BeingPushed \subseteq BeingPushed' \cup {c}
  BY <1>5 DEF BeingPushed
<1>7. NoChangeLost'
  BY <1>1, <1>3, <1>6 DEF PipelineInv, NoChangeLost, Members, Waiting
<1>8. Awake'
  <2>1. CASE pushing[f].urgent
    BY <1>1, <2>1 DEF Awake
  <2>2. CASE ~pushing[f].urgent
    BY <1>1, <1>3, <2>2 DEF PipelineInv, Awake
  <2> QED BY <2>1, <2>2
<1>9. Loaded' /\ Batch'
  BY <1>1 DEF PipelineInv, Loaded, Batch
<1>10. Good(queue)'
  BY <1>3 DEF Good, Follows, Queue, Members
<1>11. Waiting(queue)' = Waiting(queue) \cup {c}
  BY <1>3 DEF Waiting, Members
<1> QED BY <1>2, <1>4, <1>7, <1>8, <1>9, <1>10, <1>11 DEF PipelineInv

\* A batch is drained.
LEMMA DrainKeeps ==
  ASSUME PipelineInv, DrainBatch
  PROVE  /\ PipelineInv' /\ batch = <<>>
         /\ Members(batch)' \cup Waiting(queue)' = Waiting(queue)
<1>1. /\ pc = "tick" /\ pc' = "eval"
      /\ batch' = Drained(queue, MaxEvals) /\ queue' = AfterDrain(queue, MaxEvals)
      /\ left' = (queue'.urgent # <<>>)
      /\ UNCHANGED <<store, index, pushing, signals, owed>>
  BY DEF DrainBatch, feedVars
<1>2. batch = <<>>
  BY <1>1 DEF PipelineInv, Batch
<1>3. /\ Good(queue') /\ batch' \in Seq(Constraints)
      /\ Members(batch') \cup Waiting(queue') = Waiting(queue)
  BY <1>1, DrainGood, LimitsAssumption DEF PipelineInv
<1>4. Good(queue)' /\ Members(batch)' \cup Waiting(queue)' = Waiting(queue)
  BY <1>3 DEF Good, Follows, Queue, Members, Waiting
<1>5. NoChangeLost'
  <2>1. BeingPushed' = BeingPushed
    BY <1>1 DEF BeingPushed
  <2>2. Members(batch) = {}
    BY <1>2, MembersEmpty
  <2> QED BY <1>1, <1>4, <2>1, <2>2 DEF PipelineInv, NoChangeLost
<1>6. Loaded' /\ Pushes' /\ Batch' /\ Awake'
  BY <1>1, <1>3 DEF PipelineInv, Loaded, Pushes, Batch, Awake
<1> QED BY <1>2, <1>4, <1>5, <1>6 DEF PipelineInv

\* A constraint of the batch is evaluated.
LEMMA EvaluateKeeps ==
  ASSUME PipelineInv, EvaluateNext
  PROVE  /\ PipelineInv' /\ Head(batch) \in Members(batch)
         /\ Members(batch)' \in {Members(batch), Members(batch) \ {Head(batch)}}
         /\ UNCHANGED queue
<1>1. /\ pc = "eval" /\ batch # <<>> /\ batch' = Tail(batch)
      /\ owed' = owed \ {Head(batch)}
      /\ UNCHANGED <<store, index, pushing, signals, queue, wake, pc, left>>
  BY DEF EvaluateNext, feedVars
<1>2. /\ batch' \in Seq(Constraints)
      /\ Members(batch) = Members(batch') \cup {Head(batch)}
  BY <1>1, MembersTail DEF PipelineInv, Batch
<1>3. NoChangeLost'
  <2>1. BeingPushed' = BeingPushed
    BY <1>1 DEF BeingPushed
  <2>2. Waiting(queue)' = Waiting(queue) /\ Members(batch)' = Members(batch')
    BY <1>1 DEF Waiting, Members
  <2> QED BY <1>1, <1>2, <2>1, <2>2 DEF PipelineInv, NoChangeLost
<1>4. Loaded' /\ Pushes' /\ Good(queue)' /\ Batch' /\ Awake'
  BY <1>1, <1>2 DEF PipelineInv, Loaded, Pushes, Good, Follows, Queue, Members, Batch, Awake
<1>5. Members(batch)' = Members(batch')
  BY DEF Members
<1> QED BY <1>1, <1>2, <1>3, <1>4, <1>5 DEF PipelineInv

\* The loop is woken.
LEMMA SignalKeeps ==
  ASSUME PipelineInv, NEW f \in Feeds, Signal(f)
  PROVE  PipelineInv' /\ UNCHANGED <<queue, batch>>
<1>1. Loaded' /\ Batch' /\ Awake' /\ UNCHANGED <<pushing, queue, batch, owed>>
  BY DEF Signal, loopVars, PipelineInv, Loaded, Batch, Awake
<1> QED BY <1>1, OnItsWayKeeps DEF PipelineInv

\* The tick begins, whatever the flag was.
LEMMA WakeKeeps ==
  ASSUME PipelineInv, Wake
  PROVE  PipelineInv' /\ UNCHANGED <<queue, batch>>
<1>1. Loaded' /\ Batch' /\ Awake' /\ UNCHANGED <<pushing, queue, batch, owed>>
  BY DEF Wake, feedVars, PipelineInv, Loaded, Batch, Awake
<1> QED BY <1>1, OnItsWayKeeps DEF PipelineInv

\* A tick that is halted does nothing.
LEMMA HaltedKeeps ==
  ASSUME PipelineInv, Halted
  PROVE  PipelineInv' /\ UNCHANGED <<queue, batch>>
<1>1. Loaded' /\ Batch' /\ Awake' /\ UNCHANGED <<pushing, queue, batch, owed>>
  BY DEF Halted, feedVars, PipelineInv, Loaded, Batch, Awake
<1> QED BY <1>1, OnItsWayKeeps DEF PipelineInv

\* A scan replaces the constraints in the store.
LEMMA ScanKeeps ==
  ASSUME PipelineInv, Scan
  PROVE  PipelineInv' /\ UNCHANGED <<queue, batch>>
<1>1. /\ pc = "rest" /\ pc' = "index" /\ store' \in ScanResults
      /\ index' = [a \in Assets |-> {}]
      /\ UNCHANGED <<pushing, signals, queue, wake, batch, owed, left>>
  BY DEF Scan, feedVars
<1>2. Loaded'
  BY <1>1, ScansAssumption DEF Loaded
<1>3. Batch' /\ Awake'
  BY <1>1 DEF PipelineInv, Batch, Awake
<1> QED BY <1>1, <1>2, <1>3, OnItsWayKeeps DEF PipelineInv

\* The index takes over the new constraints, an asset at a time.
LEMMA IndexNextKeeps ==
  ASSUME PipelineInv, NEW a \in Assets, IndexNext(a)
  PROVE  PipelineInv' /\ UNCHANGED <<queue, batch>>
<1>1. /\ index' = [index EXCEPT ![a] = IndexOf(store)[a]]
      /\ UNCHANGED <<store, pushing, signals, queue, wake, batch, pc, owed, left>>
  BY DEF IndexNext, feedVars, loopVars
<1>2. IndexOf(store)[a] \subseteq Constraints
  BY IndexType DEF PipelineInv, Loaded
<1>3. Loaded'
  BY <1>1, <1>2 DEF PipelineInv, Loaded
<1>4. Batch' /\ Awake'
  BY <1>1 DEF PipelineInv, Batch, Awake
<1> QED BY <1>1, <1>3, <1>4, OnItsWayKeeps DEF PipelineInv

\* What follows the evaluation of a batch, and closes by other threads, touch
\* neither the queue nor what it owes.
Rest ==
  \/ BeginEntries \/ EndEntries \/ NoReplacement \/ Indexed \/ Sleep
  \/ \E c \in Constraints : EnterNext(c) \/ ClosedUnnoticed(c) \/ Exit(c)
  \/ \E c, w \in Constraints : Replace(c, w)

\* So do the steps that follow the evaluation.
LEMMA RestKeeps ==
  ASSUME PipelineInv, Rest
  PROVE  PipelineInv' /\ UNCHANGED <<queue, batch>>
<1>1. /\ Quiet /\ (pc' = "tick" \/ pc # "tick")
      /\ batch # <<>> => pc' = "eval"
  <2>1. CASE BeginEntries
    BY <2>1 DEF BeginEntries, BatchGone, feedVars, Quiet
  <2>2. CASE EndEntries
    BY <2>2 DEF EndEntries, BatchGone, BatchKept, feedVars, Quiet, PipelineInv, Batch
  <2>3. CASE NoReplacement
    BY <2>3 DEF NoReplacement, BatchGone, feedVars, Quiet, PipelineInv, Batch
  <2>4. CASE Indexed
    BY <2>4 DEF Indexed, feedVars, Quiet, PipelineInv, Batch
  <2>5. CASE Sleep
    BY <2>5 DEF Sleep, feedVars, Quiet, PipelineInv, Batch
  <2>6. CASE \E c \in Constraints : EnterNext(c)
    BY <2>6 DEF EnterNext, feedVars, Quiet, PipelineInv, Batch
  <2>7. CASE \E c \in Constraints : ClosedUnnoticed(c)
    BY <2>7 DEF ClosedUnnoticed, feedVars, loopVars, Quiet, PipelineInv, Batch
  <2>8. CASE \E c \in Constraints : Exit(c)
    BY <2>8 DEF Exit, feedVars, loopVars, Quiet, PipelineInv, Batch
  <2>9. CASE \E c, w \in Constraints : Replace(c, w)
    BY <2>9 DEF Replace, BatchGone, feedVars, Quiet, PipelineInv, Batch
  <2> QED BY <2>1, <2>2, <2>3, <2>4, <2>5, <2>6, <2>7, <2>8, <2>9 DEF Rest
<1>2. UNCHANGED <<queue, batch>>
  BY <1>1 DEF Quiet
<1> QED BY <1>1, <1>2, QuietKeeps

\* The steps, the last ones of a tick together.
LEMMA NextCases ==
  ASSUME Next
  PROVE  \/ \E f \in Feeds, a \in Assets : Update(f, a)
         \/ \E f \in Feeds : PushNext(f) \/ Signal(f)
         \/ Wake \/ Halted \/ DrainBatch \/ EvaluateNext \/ Scan
         \/ \E a \in Assets : IndexNext(a)
         \/ Rest
BY DEF Next, Loop, Rest

-----------------------------------------------------------------------------
(* The theorems.                                                           *)

\* No step changes nothing.
LEMMA Stutters ==
  ASSUME PipelineInv, UNCHANGED vars
  PROVE  PipelineInv' /\ UNCHANGED <<queue, batch>>
<1>1. Quiet /\ UNCHANGED <<pc, queue, batch>>
  BY DEF vars, feedVars, loopVars, Quiet
<1> QED BY <1>1, QuietKeeps DEF PipelineInv, Batch

\* Every step keeps the invariant and is a step of DueSet.
LEMMA PipelineSteps ==
  ASSUME PipelineInv, [Next]_vars
  PROVE  PipelineInv' /\ [Due!Next]_<<Waiting(queue), Members(batch)>>
<1>0. ASSUME UNCHANGED <<queue, batch>>
      PROVE  UNCHANGED <<Waiting(queue), Members(batch)>>
  BY <1>0 DEF Waiting, Members
<1>1. CASE \E f \in Feeds, a \in Assets : Update(f, a)
  BY <1>0, <1>1, UpdateKeeps DEF Update, loopVars
<1>2. CASE \E f \in Feeds : PushNext(f)
  <2> PICK f \in Feeds : PushNext(f)
    BY <1>2
  <2>1. PipelineInv' /\ \E c \in Constraints : Waiting(queue)' = Waiting(queue) \cup {c}
    BY PushNextKeeps
  <2>2. Members(batch)' = Members(batch)
    BY DEF PushNext, loopVars, Members
  <2>3. \E c \in Constraints : Due!Add(c)
    BY <2>1, <2>2 DEF Due!Add
  <2> QED BY <2>1, <2>3 DEF Due!Next
<1>3. CASE \E f \in Feeds : Signal(f)
  BY <1>0, <1>3, SignalKeeps
<1>4. CASE Wake \/ Halted \/ Scan
  BY <1>0, <1>4, WakeKeeps, HaltedKeeps, ScanKeeps
<1>5. CASE DrainBatch
  <2>1. /\ PipelineInv' /\ Members(batch) = {}
        /\ Members(batch)' \cup Waiting(queue)' = Waiting(queue)
    BY <1>5, DrainKeeps, MembersEmpty
  <2>2. Members(batch)' \subseteq Constraints
    BY <2>1, MembersType DEF PipelineInv, Batch
  <2>3. Due!Take(Members(batch)')
    BY <2>1 DEF Due!Take
  <2> QED BY <2>1, <2>2, <2>3 DEF Due!Next
<1>6. CASE EvaluateNext
  <2>1. /\ PipelineInv' /\ Head(batch) \in Members(batch)
        /\ Members(batch)' \in {Members(batch), Members(batch) \ {Head(batch)}}
        /\ UNCHANGED queue
    BY <1>6, EvaluateKeeps
  <2>2. Waiting(queue)' = Waiting(queue)
    BY <2>1 DEF Waiting, Members
  <2>3. Due!Evaluate(Head(batch))
    BY <2>1, <2>2 DEF Due!Evaluate
  <2> QED BY <2>1, <2>3 DEF Due!Next
<1>7. CASE \E a \in Assets : IndexNext(a)
  BY <1>0, <1>7, IndexNextKeeps
<1>8. CASE Rest
  BY <1>0, <1>8, RestKeeps
<1>9. CASE UNCHANGED vars
  BY <1>0, <1>9, Stutters
<1> QED BY <1>1, <1>2, <1>3, <1>4, <1>5, <1>6, <1>7, <1>8, <1>9, NextCases

\* The invariant holds in every state.
LEMMA PipelineAlways == Spec => []PipelineInv
<1>1. Init => PipelineInv
  BY PipelineInitially
<1>2. PipelineInv /\ [Next]_vars => PipelineInv'
  BY PipelineSteps
<1> QED BY <1>1, <1>2, PTL DEF Spec

\* A change that check_efp_drift reported is being pushed, waiting or in the
\* batch until its constraint is evaluated (book.rs, queue.rs, eval.rs).
THEOREM PipelineLosesNoChange == Spec => []NoChangeLost
<1>1. PipelineInv => NoChangeLost
  BY DEF PipelineInv
<1> QED BY <1>1, PipelineAlways, PTL

\* The loop never sleeps on urgent work that nobody is about to wake it for,
\* with any number of feeds (queue.rs, push and wait_for_work).
THEOREM PipelineWakes == Spec => []NoLostWakeup
<1>1. PipelineInv => NoLostWakeup
  BY DEF PipelineInv, Awake, NoLostWakeup
<1> QED BY <1>1, PipelineAlways, PTL

\* The queue with its two lists and sets implements DueSet.
THEOREM PipelineKeepsDue == Spec => KeepsDue
<1>1. Init => Due!Init
  BY EmptyQueueGood, MembersEmpty DEF Init, Due!Init
<1>2. PipelineInv /\ [Next]_vars => [Due!Next]_<<Waiting(queue), Members(batch)>>
  BY PipelineSteps
<1> QED BY <1>1, <1>2, PipelineAlways, PTL DEF Spec, KeepsDue, Due!Spec

-----------------------------------------------------------------------------
(* What is held.                                                           *)

\* The cache may name too much but never too little; so may the copy that a
\* batch works with, compared with what was held when it began.
HeldInv ==
  /\ open \in [Constraints -> Nat]
  /\ cache = NotCached \/ Held(open) \subseteq cache
  /\ old \subseteq snap

\* What a step may buy is nothing the batch's copy stands against.
BuysUnblocked ==
  \A c \in Constraints : open'[c] > open[c] =>
    \A d \in snap : d # c /\ Legs[d] \cap Legs[c] = {}

\* Steps that leave alone what is held and what the loop knows of it.
LEMMA SameHeld ==
  ASSUME HeldInv, UNCHANGED <<open, cache>>, UNCHANGED <<old, snap>> \/ (old' = {} /\ snap' = {})
  PROVE  HeldInv' /\ BuysUnblocked
BY DEF HeldInv, BuysUnblocked, Held

\* A position closes: the caches name too much, not too little.
LEMMA ClosingKeepsHeld ==
  ASSUME HeldInv, NEW c \in Constraints, open[c] > 0,
         open' = [open EXCEPT ![c] = @ - 1],
         cache' \in {cache, NotCached}, UNCHANGED <<old, snap>>
  PROVE  HeldInv' /\ BuysUnblocked
<1>1. open' \in [Constraints -> Nat] /\ \A d \in Constraints : open'[d] <= open[d]
  BY DEF HeldInv
<1>2. Held(open') \subseteq Held(open)
  BY <1>1 DEF Held, HeldInv
<1>3. Held(open)' = Held(open')
  BY DEF Held
<1>4. BuysUnblocked
  BY <1>1 DEF BuysUnblocked, HeldInv
<1> QED BY <1>1, <1>2, <1>3, <1>4 DEF HeldInv

\* A batch begins with a copy of what is held.
LEMMA DrainKeepsHeld ==
  ASSUME HeldInv, DrainBatch
  PROVE  HeldInv' /\ BuysUnblocked
<1>1. /\ cache' = CurrentHeld /\ snap' = CurrentHeld /\ old' = Held(open)
      /\ open' = open
  BY DEF DrainBatch
<1>2. Held(open) \subseteq CurrentHeld
  BY DEF HeldInv, CurrentHeld
<1>3. Held(open)' = Held(open)
  BY <1>1 DEF Held
<1>4. BuysUnblocked
  BY <1>1 DEF BuysUnblocked, HeldInv
<1> QED BY <1>1, <1>2, <1>3, <1>4 DEF HeldInv

\* A position is opened: nothing of it was held.
LEMMA EnterKeepsHeld ==
  ASSUME HeldInv, NEW c \in Constraints, EnterNext(c)
  PROVE  HeldInv' /\ BuysUnblocked
<1>0. UNCHANGED <<old, snap>>
  BY DEF EnterNext
<1>1. CASE UNCHANGED <<open, cache>>
  BY <1>0, <1>1, SameHeld
<1>2. CASE cache' = NotCached /\ open' = open
  BY <1>0, <1>2 DEF HeldInv, BuysUnblocked
<1>3. CASE ~Blocked(c) /\ cache' = NotCached /\ open' = [open EXCEPT ![c] = @ + 1]
  BY <1>0, <1>3 DEF HeldInv, BuysUnblocked, Blocked
<1> QED BY <1>1, <1>2, <1>3 DEF EnterNext

\* One position makes room for another.
LEMMA ReplaceKeepsHeld ==
  ASSUME HeldInv, NEW c \in Constraints, NEW w \in Constraints, Replace(c, w)
  PROVE  HeldInv' /\ BuysUnblocked
<1>1. /\ cache' = NotCached /\ old' = {} /\ snap' = {} /\ ~Blocked(c) /\ open[w] > 0
  BY DEF Replace, BatchGone
<1>2. PICK sold \in {open, [open EXCEPT ![w] = @ - 1]} :
        open' = sold \/ open' = [sold EXCEPT ![c] = @ + 1]
  BY DEF Replace
<1>3. sold \in [Constraints -> Nat] /\ \A d \in Constraints : sold[d] <= open[d]
  BY <1>1, <1>2 DEF HeldInv
<1>4. /\ open' \in [Constraints -> Nat]
      /\ \A d \in Constraints : open'[d] > open[d] => d = c
  BY <1>2, <1>3 DEF HeldInv
<1>5. BuysUnblocked
  BY <1>1, <1>4 DEF BuysUnblocked, Blocked
<1> QED BY <1>1, <1>4, <1>5 DEF HeldInv

\* Every step keeps what the loop knows of the positions.
LEMMA HeldSteps ==
  ASSUME HeldInv, [Next]_vars
  PROVE  HeldInv' /\ BuysUnblocked
<1>1. CASE \E f \in Feeds, a \in Assets : Update(f, a)
  BY <1>1, SameHeld DEF Update, loopVars
<1>2. CASE \E f \in Feeds : PushNext(f) \/ Signal(f)
  BY <1>2, SameHeld DEF PushNext, Signal, loopVars
<1>3. CASE Wake \/ Halted \/ EvaluateNext \/ Scan
  BY <1>3, SameHeld DEF Wake, Halted, EvaluateNext, Scan
<1>4. CASE \E a \in Assets : IndexNext(a)
  BY <1>4, SameHeld DEF IndexNext, loopVars
<1>5. CASE DrainBatch
  BY <1>5, DrainKeepsHeld
<1>6. CASE BeginEntries \/ EndEntries \/ NoReplacement \/ Indexed \/ Sleep
  BY <1>6, SameHeld DEF BeginEntries, EndEntries, NoReplacement, Indexed, Sleep,
                        BatchGone, BatchKept
<1>7. CASE \E c \in Constraints : EnterNext(c)
  BY <1>7, EnterKeepsHeld
<1>8. CASE \E c \in Constraints : ClosedUnnoticed(c)
  BY <1>8, ClosingKeepsHeld DEF ClosedUnnoticed, loopVars
<1>9. CASE \E c \in Constraints : Exit(c)
  BY <1>9, ClosingKeepsHeld DEF Exit, loopVars
<1>10. CASE \E c, w \in Constraints : Replace(c, w)
  BY <1>10, ReplaceKeepsHeld
<1>11. CASE UNCHANGED vars
  BY <1>11, SameHeld DEF vars, loopVars
<1> QED BY <1>1, <1>2, <1>3, <1>4, <1>5, <1>6, <1>7, <1>8, <1>9, <1>10, <1>11, NextCases
        DEF Rest

\* Nothing held when a batch began is bought again in it, nor anything on one
\* of its markets, whatever closes meanwhile and however old the cache of the
\* held ids is (orchestrator.rs, tick and validate_opportunity).
THEOREM PipelineNeverReenters == Spec => NoReentry
<1>1. Init => HeldInv
  BY DEF Init, HeldInv, None
<1>2. HeldInv /\ [Next]_vars => HeldInv' /\ BuysUnblocked
  BY HeldSteps
<1>3. HeldInv /\ BuysUnblocked =>
        \A c \in Constraints : open'[c] > open[c] =>
          \A d \in old : d # c /\ Legs[c] \cap Legs[d] = {}
  BY DEF HeldInv, BuysUnblocked
<1>4. HeldInv /\ [Next]_vars =>
        [\A c \in Constraints : open'[c] > open[c] =>
           \A d \in old : d # c /\ Legs[c] \cap Legs[d] = {}]_vars
  BY <1>2, <1>3
<1>5. Spec => []HeldInv
  BY <1>1, <1>2, PTL DEF Spec
<1> QED BY <1>4, <1>5, PTL DEF Spec, NoReentry
=============================================================================
