----------------------- MODULE OrderSubmission_proofs -----------------------
(***************************************************************************)
(* Theorems about OrderSubmission, for any positions, any finite set of    *)
(* legs, any batch limit, any number of orders and restarts.               *)
(***************************************************************************)
EXTENDS OrderSubmission, SequenceTheorems, FoldTheorems

-----------------------------------------------------------------------------
(* The invariant.                                                          *)

OrderType == [pos : Positions, leg : Legs, kind : {"entry", "exit"},
              state : {"live", "matched", "gone"}]

CallType ==
  [at : {"idle", "batch", "sequence", "answered"}, kind : {"none", "entry", "exit"},
   pos : Positions \cup {"none"}, todo : SUBSET Legs, results : [Legs -> Results]]

\* An order was heard of or it is a stray, and never both.
OrdersInv ==
  /\ orders \in Seq(OrderType) /\ Len(orders) <= MaxOrders
  /\ DOMAIN tracked \cup (forgotten \cup strays) = Ids
  /\ (DOMAIN tracked \cup forgotten) \cap strays = {}
  /\ DOMAIN tracked \cap forgotten = {}
  /\ tracked \in [DOMAIN tracked -> Statuses]

BooksInv ==
  /\ position \in [Positions -> {"free", "open", "undone"}]
  /\ mark \in [Positions -> [Legs -> {"none", "pending", "rejected"}]]
  /\ restarts \in 0..MaxRestarts

\* The orders of a leg the process has ever heard of.
HeardOf(p, l) == Entries(p, l) \cap Heard

\* At most one for each leg, one behind a pending leg, none behind a rejected
\* one, and none before the position is entered.
LegInv ==
  \A p \in Positions, l \in Legs :
    /\ \A o1, o2 \in HeardOf(p, l) : o1 = o2
    /\ mark[p][l] = "pending" => HeardOf(p, l) # {}
    /\ mark[p][l] = "rejected" => HeardOf(p, l) = {}
    /\ position[p] = "free" => Entries(p, l) = {} /\ mark[p][l] = "none"

Busy == call.at # "idle"
Entering == Busy /\ call.kind = "entry"

\* While an entry is submitted its legs are unmarked, and the results so far
\* say of which legs an order was heard of.
CallInv ==
  /\ call \in CallType
  /\ Busy => call.pos \in Positions /\ call.kind \in {"entry", "exit"}
  /\ call.at = "batch" => \A l \in Legs : call.results[l] = "none"
  /\ call.at = "sequence" => \A l \in call.todo : call.results[l] = "none"
  /\ Entering =>
       /\ position[call.pos] # "free"
       /\ \A l \in Legs :
            /\ mark[call.pos][l] = "none"
            /\ call.results[l] = "accepted" <=> HeardOf(call.pos, l) # {}

IInv == OrdersInv /\ BooksInv /\ LegInv /\ CallInv

LEMMA InitInv == Init => IInv
<1> SUFFICES ASSUME Init PROVE IInv
  OBVIOUS
<1>1. OrdersInv
  <2>1. MaxOrders \in Nat /\ Len(<<>>) = 0 /\ <<>> \in Seq(OrderType)
    BY LimitsAssumption
  <2>2. DOMAIN <<>> = {}
    OBVIOUS
  <2>3. <<>> \in [{} -> Statuses]
    OBVIOUS
  <2> QED BY <2>1, <2>2, <2>3 DEF Init, OrdersInv, Ids
<1>2. BooksInv
  BY LimitsAssumption DEF Init, BooksInv
<1>3. LegInv
  <2>1. Ids = {}
    BY DEF Init, Ids
  <2> QED BY <2>1 DEF Init, LegInv, HeardOf, Entries
<1>4. CallInv
  BY DEF Init, CallInv, NoCall, CallType, Busy, Entering, Results
<1> QED BY <1>1, <1>2, <1>3, <1>4 DEF IInv

-----------------------------------------------------------------------------
(* The venue takes orders.                                                 *)

\* What the list of orders is after the venue took one for each of these legs.
LEMMA TakeFacts ==
  ASSUME OrdersInv, CallInv, Busy, NEW legs \in SUBSET Legs, Take(legs)
  PROVE  /\ orders' \in Seq(OrderType) /\ Len(orders') <= MaxOrders
         /\ Ids \subseteq Ids' /\ \A o \in Ids : orders'[o] = orders[o]
         /\ \A o \in Ids' \ Ids :
              orders'[o].pos = call.pos /\ orders'[o].kind = call.kind
                /\ orders'[o].leg \in legs
         /\ \A l \in legs : \E o \in Ids' \ Ids : orders'[o].leg = l
         /\ \A o1, o2 \in Ids' \ Ids : orders'[o1].leg = orders'[o2].leg => o1 = o2
<1> DEFINE n == Cardinality(legs)
           new == SetToSeq(legs)
           tail == [i \in DOMAIN new |-> Order(new[i])]
           m == Len(orders)
<1>1. IsFiniteSet(legs)
  BY LimitsAssumption, FS_Subset
<1>2. /\ n \in Nat /\ new \in [1..n -> legs]
      /\ \A i, j \in 1..n : new[i] = new[j] => i = j
      /\ \A x \in legs : \E i \in 1..n : new[i] = x
  BY <1>1, OneEach
<1>3. \A l \in Legs : Order(l) \in OrderType /\ Order(l).pos = call.pos
                      /\ Order(l).kind = call.kind /\ Order(l).leg = l
  BY DEF Order, OrderType, CallInv
<1>4. tail \in Seq(OrderType) /\ Len(tail) = n /\ \A i \in 1..n : tail[i] = Order(new[i])
  BY <1>2, <1>3
<1>5. orders \in Seq(OrderType) /\ m \in Nat /\ Ids = 1..m
  BY DEF OrdersInv, Ids
<1>6. orders' = orders \o tail /\ m + n <= MaxOrders
  BY DEF Take
<1> HIDE DEF tail, new, n, m
<1>7. /\ orders' \in Seq(OrderType) /\ Len(orders') = m + n
      /\ \A i \in 1..m : orders'[i] = orders[i]
      /\ \A i \in (m + 1)..(m + n) : orders'[i] = tail[i - m]
  <2>1. orders' \in Seq(OrderType) /\ Len(orders') = m + n
    BY <1>4, <1>5, <1>6, ConcatProperties DEF m
  <2>2. ASSUME NEW i \in 1..m PROVE orders'[i] = orders[i]
    BY <1>4, <1>5, <1>6, ConcatProperties DEF m
  <2>3. ASSUME NEW i \in (m + 1)..(m + n) PROVE orders'[i] = tail[i - m]
    BY <1>2, <1>4, <1>5, <1>6 DEF m
  <2> QED BY <2>1, <2>2, <2>3
<1>8. Ids' = 1..(m + n) /\ Ids' \ Ids = (m + 1)..(m + n)
  BY <1>2, <1>5, <1>7 DEF Ids
<1>9. \A i \in (m + 1)..(m + n) :
        /\ i - m \in 1..n /\ orders'[i] = Order(new[i - m])
        /\ new[i - m] \in legs
  BY <1>2, <1>4, <1>5, <1>7
<1>10. \A o \in Ids' \ Ids :
         orders'[o].pos = call.pos /\ orders'[o].kind = call.kind
           /\ orders'[o].leg = new[o - m] /\ orders'[o].leg \in legs
  BY <1>3, <1>8, <1>9
<1>11. ASSUME NEW l \in legs PROVE \E o \in Ids' \ Ids : orders'[o].leg = l
  <2>1. PICK i \in 1..n : new[i] = l
    BY <1>2
  <2>2. m + i \in Ids' \ Ids /\ (m + i) - m = i
    BY <1>2, <1>5, <1>8
  <2> QED BY <1>10, <2>1, <2>2
<1>12. ASSUME NEW o1 \in Ids' \ Ids, NEW o2 \in Ids' \ Ids,
              orders'[o1].leg = orders'[o2].leg
       PROVE  o1 = o2
  <2>1. new[o1 - m] = new[o2 - m]
    BY <1>10, <1>12
  <2>2. o1 - m = o2 - m
    BY <1>2, <1>8, <1>9, <2>1
  <2> QED BY <1>2, <1>5, <1>8, <2>2
<1>13. Len(orders') <= MaxOrders /\ Ids \subseteq Ids' /\ \A o \in Ids : orders'[o] = orders[o]
  BY <1>2, <1>5, <1>6, <1>7, <1>8
<1> QED BY <1>7, <1>10, <1>11, <1>12, <1>13

-----------------------------------------------------------------------------
(* What is heard of.                                                       *)

\* Orders keep their position, leg and kind; nothing new is heard of.
Kept ==
  /\ orders' \in Seq(OrderType) /\ Ids' = Ids
  /\ \A o \in Ids : /\ orders'[o].pos = orders[o].pos /\ orders'[o].leg = orders[o].leg
                    /\ orders'[o].kind = orders[o].kind
  /\ Heard' = Heard

LEMMA KeptLegs ==
  ASSUME Kept, NEW p, NEW l
  PROVE  HeardOf(p, l)' = HeardOf(p, l) /\ Entries(p, l)' = Entries(p, l)
<1>1. Entries(p, l)' = Entries(p, l)
  BY DEF Kept, Entries
<1> QED BY <1>1 DEF Kept, HeardOf

LEMMA UnchangedKept ==
  ASSUME OrdersInv, orders' = orders, Heard' = Heard
  PROVE  Kept
BY DEF Kept, OrdersInv, Ids

\* The venue took the orders of some legs and was heard of a part of them.
LEMMA TakeHeard ==
  ASSUME IInv, Busy, NEW legs \in SUBSET Legs, NEW heard \in SUBSET legs, Take(legs),
         tracked' = Track(NewIds(heard)), strays' = strays \cup NewIds(legs \ heard),
         forgotten' = forgotten
  PROVE  /\ OrdersInv'
         /\ \A p \in Positions, l \in Legs :
              /\ Entering /\ p = call.pos /\ l \in heard /\ HeardOf(p, l) = {}
                   => HeardOf(p, l)' # {} /\ \A o1, o2 \in HeardOf(p, l)' : o1 = o2
              /\ ~(Entering /\ p = call.pos /\ l \in heard)
                   => HeardOf(p, l)' = HeardOf(p, l)
              /\ ~(Entering /\ p = call.pos) => Entries(p, l)' = Entries(p, l)
<1>1. OrdersInv /\ CallInv
  BY DEF IInv
<1>2. /\ orders' \in Seq(OrderType) /\ Len(orders') <= MaxOrders
      /\ Ids \subseteq Ids' /\ \A o \in Ids : orders'[o] = orders[o]
      /\ \A o \in Ids' \ Ids :
           orders'[o].pos = call.pos /\ orders'[o].kind = call.kind
             /\ orders'[o].leg \in legs
      /\ \A l \in legs : \E o \in Ids' \ Ids : orders'[o].leg = l
      /\ \A o1, o2 \in Ids' \ Ids : orders'[o1].leg = orders'[o2].leg => o1 = o2
  BY <1>1, TakeFacts
<1>3. NewIds(heard) = {o \in Ids' \ Ids : orders'[o].leg \in heard}
      /\ NewIds(legs \ heard) = {o \in Ids' \ Ids : orders'[o].leg \in legs \ heard}
  BY DEF NewIds, Ids
<1>4. NewIds(heard) \cup NewIds(legs \ heard) = Ids' \ Ids
  BY <1>2, <1>3
<1>5. NewIds(heard) \cap NewIds(legs \ heard) = {}
  BY <1>3
<1>6. /\ DOMAIN tracked \cup (forgotten \cup strays) = Ids
      /\ (DOMAIN tracked \cup forgotten) \cap strays = {}
      /\ DOMAIN tracked \cap forgotten = {}
      /\ tracked \in [DOMAIN tracked -> Statuses]
  BY <1>1 DEF OrdersInv
<1>7. /\ DOMAIN tracked' = DOMAIN tracked \cup NewIds(heard)
      /\ tracked' \in [DOMAIN tracked' -> Statuses]
  BY <1>6 DEF Track, Statuses
<1>8. NewIds(heard) \cap Ids = {} /\ NewIds(legs \ heard) \cap Ids = {}
  BY <1>3
<1>9. /\ DOMAIN tracked' \cup (forgotten' \cup strays') = Ids'
      /\ (DOMAIN tracked' \cup forgotten') \cap strays' = {}
      /\ DOMAIN tracked' \cap forgotten' = {}
  BY <1>2, <1>4, <1>5, <1>6, <1>7, <1>8
<1>10. OrdersInv'
  BY <1>2, <1>7, <1>9 DEF OrdersInv
<1>11. Heard' = Heard \cup NewIds(heard) /\ Heard \subseteq Ids
  BY <1>6, <1>7 DEF Heard
<1>12. ASSUME NEW p \in Positions, NEW l \in Legs
       PROVE  /\ Entering /\ p = call.pos /\ l \in heard /\ HeardOf(p, l) = {}
                   => HeardOf(p, l)' # {} /\ \A o1, o2 \in HeardOf(p, l)' : o1 = o2
              /\ ~(Entering /\ p = call.pos /\ l \in heard)
                   => HeardOf(p, l)' = HeardOf(p, l)
              /\ ~(Entering /\ p = call.pos) => Entries(p, l)' = Entries(p, l)
  <2> DEFINE N == {o \in Ids' \ Ids : call.kind = "entry" /\ call.pos = p
                                       /\ orders'[o].leg = l}
  <2>1. Entries(p, l)' = Entries(p, l) \cup N
    BY <1>2 DEF Entries
  <2>2. HeardOf(p, l)' = HeardOf(p, l) \cup (N \cap NewIds(heard))
    BY <1>3, <1>11, <2>1 DEF HeardOf, Entries
  <2>3. ASSUME ~(Entering /\ p = call.pos) PROVE N = {}
    BY <2>3 DEF Entering
  <2>4. ASSUME ~(Entering /\ p = call.pos /\ l \in heard)
        PROVE  N \cap NewIds(heard) = {}
    BY <1>3, <2>3, <2>4
  <2>5. ASSUME Entering, p = call.pos, l \in heard, HeardOf(p, l) = {}
        PROVE  HeardOf(p, l)' # {} /\ \A o1, o2 \in HeardOf(p, l)' : o1 = o2
    <3>1. HeardOf(p, l)' = {o \in Ids' \ Ids : orders'[o].leg = l}
      BY <1>3, <2>2, <2>5 DEF Entering
    <3> QED BY <1>2, <2>5, <3>1
  <2> QED BY <2>1, <2>2, <2>3, <2>4, <2>5
<1> QED BY <1>10, <1>12

-----------------------------------------------------------------------------
(* The executor.                                                           *)

\* A call goes on; these legs of it were heard of.
Continues(heard) ==
  /\ position' = position /\ mark' = mark /\ restarts' = restarts
  /\ call' \in CallType /\ call'.at \in {"sequence", "answered"}
  /\ call'.kind = call.kind /\ call'.pos = call.pos
  /\ \A l \in Legs :
       call'.results[l] = "accepted" <=> l \in heard \/ call.results[l] = "accepted"
  /\ call'.at = "sequence" => \A l \in call'.todo : call'.results[l] = "none"

\* The legs a call still has to submit were not heard of.
LEMMA TodoUnheard ==
  ASSUME IInv, Entering, call.at \in {"batch", "sequence"}, NEW l \in call.todo
  PROVE  HeardOf(call.pos, l) = {}
<1>1. l \in Legs
  BY DEF IInv, CallInv, CallType
<1>2. call.results[l] = "none"
  BY <1>1 DEF IInv, CallInv
<1> QED BY <1>1, <1>2 DEF IInv, CallInv

LEMMA Submitted ==
  ASSUME IInv, call.at \in {"batch", "sequence"},
         NEW legs \in SUBSET call.todo, NEW heard \in SUBSET legs, Take(legs),
         tracked' = Track(NewIds(heard)), strays' = strays \cup NewIds(legs \ heard),
         forgotten' = forgotten, Continues(heard)
  PROVE  IInv'
<1>1. Busy /\ legs \in SUBSET Legs
  BY DEF Busy, IInv, CallInv, CallType
<1>2. OrdersInv'
  BY <1>1, TakeHeard
<1>3. BooksInv'
  BY DEF IInv, BooksInv, Continues
<1>4. \A p \in Positions, l \in Legs :
        /\ Entering /\ p = call.pos /\ l \in heard /\ HeardOf(p, l) = {}
             => HeardOf(p, l)' # {} /\ \A o1, o2 \in HeardOf(p, l)' : o1 = o2
        /\ ~(Entering /\ p = call.pos /\ l \in heard) => HeardOf(p, l)' = HeardOf(p, l)
        /\ ~(Entering /\ p = call.pos) => Entries(p, l)' = Entries(p, l)
  BY <1>1, TakeHeard
<1>5. ASSUME Entering
      PROVE  /\ call.pos \in Positions /\ position[call.pos] # "free"
             /\ \A l \in heard : HeardOf(call.pos, l) = {}
             /\ \A l \in Legs : mark[call.pos][l] = "none"
  BY <1>1, <1>5, TodoUnheard DEF IInv, CallInv
<1>6. LegInv'
  <2> SUFFICES ASSUME NEW p \in Positions, NEW l \in Legs
               PROVE  /\ \A o1, o2 \in HeardOf(p, l)' : o1 = o2
                      /\ mark[p][l] = "pending" => HeardOf(p, l)' # {}
                      /\ mark[p][l] = "rejected" => HeardOf(p, l)' = {}
                      /\ position[p] = "free" => Entries(p, l)' = {} /\ mark[p][l] = "none"
    BY DEF LegInv, Continues
  <2>1. /\ \A o1, o2 \in HeardOf(p, l) : o1 = o2
        /\ mark[p][l] = "pending" => HeardOf(p, l) # {}
        /\ mark[p][l] = "rejected" => HeardOf(p, l) = {}
        /\ position[p] = "free" => Entries(p, l) = {} /\ mark[p][l] = "none"
    BY DEF IInv, LegInv
  <2>2. CASE Entering /\ p = call.pos /\ l \in heard
    BY <1>4, <1>5, <2>2
  <2>3. CASE ~(Entering /\ p = call.pos /\ l \in heard)
    BY <1>4, <1>5, <2>1, <2>3
  <2> QED BY <2>2, <2>3
<1>7. CallInv'
  <2>1. ASSUME Entering', NEW l \in Legs
        PROVE  call'.results[l] = "accepted" <=> HeardOf(call.pos, l)' # {}
    <3>1. Entering
      BY <1>1, <2>1 DEF Entering, Continues
    <3>2. call.results[l] = "accepted" <=> HeardOf(call.pos, l) # {}
      BY <3>1 DEF IInv, CallInv
    <3> QED BY <1>4, <1>5, <3>1, <3>2 DEF Continues
  <2>2. Entering' => Entering
    BY <1>1 DEF Entering, Continues
  <2>3. call.pos \in Positions /\ call.kind \in {"entry", "exit"}
    BY <1>1 DEF IInv, CallInv
  <2>4. Entering' => /\ position'[call'.pos] # "free"
                     /\ \A l \in Legs : mark'[call'.pos][l] = "none"
    BY <1>5, <2>2 DEF Continues
  <2>5. Entering' => \A l \in Legs :
          call'.results[l] = "accepted" <=> HeardOf(call.pos, l)' # {}
    BY <2>1
  <2> QED BY <2>3, <2>4, <2>5 DEF CallInv, Continues
<1> QED BY <1>2, <1>3, <1>6, <1>7 DEF IInv

\* Nothing was taken, or nothing was sent.
LEMMA NothingSent ==
  ASSUME IInv, Busy, orders' = orders, tracked' = tracked, strays' = strays,
         forgotten' = forgotten, Continues({})
  PROVE  IInv'
<1>1. Kept
  BY UnchangedKept DEF IInv, Heard
<1>2. OrdersInv'
  BY DEF IInv, OrdersInv, Ids
<1>3. BooksInv'
  BY DEF IInv, BooksInv, Continues
<1>4. LegInv'
  BY <1>1, KeptLegs DEF IInv, LegInv, Continues
<1>5. CallInv'
  <2>1. Entering' => Entering
    BY DEF Entering, Busy, Continues
  <2>2. Entering' => \A l \in Legs :
          call'.results[l] = "accepted" <=> HeardOf(call.pos, l)' # {}
    <3>1. \A l \in Legs : HeardOf(call.pos, l)' = HeardOf(call.pos, l)
      BY <1>1, KeptLegs DEF Continues
    <3> QED BY <2>1, <3>1 DEF IInv, CallInv, Continues
  <2>3. Entering' => /\ position'[call'.pos] # "free"
                     /\ \A l \in Legs : mark'[call'.pos][l] = "none"
    BY <2>1 DEF IInv, CallInv, Continues
  <2>4. call.pos \in Positions /\ call.kind \in {"entry", "exit"}
    BY DEF IInv, CallInv
  <2> QED BY <2>2, <2>3, <2>4 DEF CallInv, Continues
<1> QED BY <1>2, <1>3, <1>4, <1>5 DEF IInv

LEMMA AnsweredCall ==
  ASSUME call \in CallType, NEW results \in [Legs -> Results]
  PROVE  /\ Answered(results) \in CallType /\ Answered(results).at = "answered"
         /\ Answered(results).kind = call.kind /\ Answered(results).pos = call.pos
         /\ Answered(results).results = results
<1>1. DOMAIN call = {"at", "kind", "pos", "todo", "results"}
  BY DEF CallType
<1>2. /\ Answered(results).at = "answered" /\ Answered(results).todo = {}
      /\ Answered(results).kind = call.kind /\ Answered(results).pos = call.pos
      /\ Answered(results).results = results
  BY <1>1 DEF Answered
<1>3. Answered(results) \in CallType
  <2> DEFINE waiting == [call EXCEPT !.at = "answered", !.todo = {}]
  <2>1. waiting \in CallType
    BY DEF CallType
  <2>2. Answered(results) = [waiting EXCEPT !.results = results]
    BY DEF Answered
  <2> HIDE DEF waiting
  <2> QED BY <2>1, <2>2 DEF CallType
<1> QED BY <1>2, <1>3

LEMMA RefusedInv ==
  ASSUME IInv, PrepareFails \/ BatchLimited \/ TooLong \/ Sequenced
  PROVE  IInv'
<1>1. Busy /\ call \in CallType
  BY DEF IInv, CallInv, PrepareFails, BatchLimited, TooLong, Sequenced, Busy
<1>2. /\ orders' = orders /\ tracked' = tracked /\ strays' = strays
      /\ forgotten' = forgotten /\ position' = position /\ mark' = mark
      /\ restarts' = restarts
  BY DEF PrepareFails, BatchLimited, TooLong, Sequenced, books
<1>3. CASE PrepareFails \/ BatchLimited
  <2>1. PICK bad \in SUBSET Legs : call' = Answered(Rejected(bad))
    BY <1>1, <1>3 DEF PrepareFails, BatchLimited, CallType
  <2>2. \A l \in Legs : call.results[l] = "none"
    BY <1>3 DEF PrepareFails, BatchLimited, IInv, CallInv
  <2>3. Rejected(bad) \in [Legs -> Results]
    BY <2>2 DEF Rejected, Results
  <2>4. \A l \in Legs : Rejected(bad)[l] # "accepted"
    BY <2>2 DEF Rejected
  <2>5. Continues({})
    BY <1>1, <1>2, <2>1, <2>2, <2>3, <2>4, AnsweredCall DEF Continues
  <2> QED BY <1>1, <1>2, <2>5, NothingSent
<1>4. CASE TooLong
  <2>1. call' = [at |-> "sequence", kind |-> call.kind, pos |-> call.pos,
                 todo |-> call.todo, results |-> call.results]
    BY <1>1, <1>4 DEF TooLong, CallType
  <2>2. \A l \in call.todo : call.results[l] = "none"
    BY <1>1, <1>4 DEF TooLong, IInv, CallInv, CallType
  <2>3. call' \in CallType
    BY <1>1, <2>1 DEF CallType
  <2>4. Continues({})
    BY <1>2, <2>1, <2>2, <2>3 DEF Continues
  <2> QED BY <1>1, <1>2, <2>4, NothingSent
<1>5. CASE Sequenced
  <2>1. call' = [at |-> "answered", kind |-> call.kind, pos |-> call.pos,
                 todo |-> call.todo, results |-> call.results]
    BY <1>1, <1>5 DEF Sequenced, CallType
  <2>2. call' \in CallType
    BY <1>1, <2>1 DEF CallType
  <2>3. Continues({})
    BY <1>2, <2>1, <2>2 DEF Continues
  <2> QED BY <1>1, <1>2, <2>3, NothingSent
<1> QED BY <1>3, <1>4, <1>5

LEMMA PostBatchInv ==
  ASSUME IInv, PostBatch
  PROVE  IInv'
<1>1. /\ call.at = "batch" /\ call \in CallType /\ Busy
      /\ \A l \in Legs : call.results[l] = "none"
      /\ forgotten' = forgotten /\ position' = position /\ mark' = mark
      /\ restarts' = restarts
  BY DEF PostBatch, IInv, CallInv, Busy, books
<1>2. call.todo \subseteq Legs /\ tracked \in [DOMAIN tracked -> Statuses]
  BY <1>1 DEF IInv, OrdersInv, CallType
<1>3. PICK taken \in SUBSET call.todo :
        /\ Take(taken)
        /\ \/ \E heard \in SUBSET taken :
                /\ tracked' = Track(NewIds(heard))
                /\ strays' = strays \cup NewIds(taken \ heard)
                /\ call' = Answered([l \in Legs |-> IF l \in LegsOf(heard) THEN "accepted"
                                      ELSE IF l \in call.todo THEN "rejected" ELSE "none"])
           \/ /\ FallsBack(taken) /\ call' = [call EXCEPT !.at = "sequence"]
              /\ tracked' = Track(NewIds(taken)) /\ UNCHANGED strays
           \/ /\ call' = [call EXCEPT !.at = "sequence"]
              /\ strays' = strays \cup NewIds(taken) /\ UNCHANGED tracked
  BY DEF PostBatch
<1>4. NewIds({}) = {} /\ Track({}) = tracked
  BY <1>2 DEF NewIds, Track
<1>5. ASSUME NEW heard \in SUBSET taken, tracked' = Track(NewIds(heard)),
             strays' = strays \cup NewIds(taken \ heard),
             call' = Answered([l \in Legs |-> IF l \in LegsOf(heard) THEN "accepted"
                                ELSE IF l \in call.todo THEN "rejected" ELSE "none"])
      PROVE  IInv'
  <2> DEFINE results == [l \in Legs |-> IF l \in LegsOf(heard) THEN "accepted"
                          ELSE IF l \in call.todo THEN "rejected" ELSE "none"]
  <2>1. results \in [Legs -> Results]
    BY DEF Results
  <2>2. \A l \in Legs : results[l] = "accepted" <=> l \in heard
    BY DEF LegsOf
  <2>3. Continues(heard)
    <3> HIDE DEF results
    <3>1. /\ call' \in CallType /\ call'.at = "answered" /\ call'.kind = call.kind
          /\ call'.pos = call.pos /\ call'.results = results
      BY <1>1, <1>5, <2>1, AnsweredCall DEF results
    <3> QED BY <1>1, <2>2, <3>1 DEF Continues
  <2> QED BY <1>1, <1>3, <1>5, <2>3, Submitted
<1>6. ASSUME call' = [call EXCEPT !.at = "sequence"], tracked' = tracked,
             strays' = strays \cup NewIds(taken)
      PROVE  IInv'
  <2>1. call' = [at |-> "sequence", kind |-> call.kind, pos |-> call.pos,
                 todo |-> call.todo, results |-> call.results]
    BY <1>1, <1>6 DEF CallType
  <2>2. call' \in CallType
    BY <1>1, <2>1 DEF CallType
  <2>3. Continues({})
    BY <1>1, <1>2, <2>1, <2>2 DEF Continues
  <2>4. taken \ {} = taken
    OBVIOUS
  <2> QED BY <1>1, <1>3, <1>4, <1>6, <2>3, <2>4, Submitted
<1>7. FallsBack(taken) => NewIds(taken) = {} /\ Track(NewIds(taken)) = tracked
  BY <1>4 DEF FallsBack
<1> QED BY <1>3, <1>5, <1>6, <1>7

LEMMA SingleInv ==
  ASSUME IInv, NEW l \in Legs, LegRefused(l) \/ PostLeg(l)
  PROVE  IInv'
<1>1. /\ call.at = "sequence" /\ l \in call.todo /\ call \in CallType /\ Busy
      /\ \A k \in call.todo : call.results[k] = "none"
      /\ forgotten' = forgotten /\ position' = position /\ mark' = mark
      /\ restarts' = restarts
  BY DEF LegRefused, PostLeg, IInv, CallInv, Busy, books
<1>2. tracked \in [DOMAIN tracked -> Statuses]
  BY DEF IInv, OrdersInv
<1>3. ASSUME NEW r \in {"accepted", "rejected"},
             call' = [call EXCEPT !.todo = @ \ {l}, !.results[l] = r]
      PROVE  Continues(IF r = "accepted" THEN {l} ELSE {})
  <2> DEFINE results == [call.results EXCEPT ![l] = r]
  <2>1. call' = [at |-> "sequence", kind |-> call.kind, pos |-> call.pos,
                 todo |-> call.todo \ {l}, results |-> results]
    BY <1>1, <1>3 DEF CallType
  <2>2. results \in [Legs -> Results] /\ results[l] = r
        /\ \A k \in Legs \ {l} : results[k] = call.results[k]
    BY <1>1 DEF CallType, Results
  <2> HIDE DEF results
  <2>3. call' \in CallType
    BY <1>1, <2>1, <2>2 DEF CallType
  <2>4. \A k \in call'.todo : call'.results[k] = "none"
    BY <1>1, <2>1, <2>2 DEF CallType
  <2>5. \A k \in Legs : call'.results[k] = "accepted" <=>
          k \in (IF r = "accepted" THEN {l} ELSE {}) \/ call.results[k] = "accepted"
    BY <1>1, <2>1, <2>2
  <2> QED BY <1>1, <2>1, <2>3, <2>4, <2>5 DEF Continues
<1>4. NewIds({}) = {} /\ Track({}) = tracked
  BY <1>2 DEF NewIds, Track
<1>5. ASSUME Take({l}), tracked' = Track(NewIds({l})), strays' = strays,
             call' = [call EXCEPT !.todo = @ \ {l}, !.results[l] = "accepted"]
      PROVE  IInv'
  <2>1. Continues({l})
    BY <1>3, <1>5
  <2>2. strays' = strays \cup NewIds({l} \ {l}) /\ {l} \in SUBSET call.todo
    BY <1>1, <1>4, <1>5
  <2> QED BY <1>1, <1>5, <2>1, <2>2, Submitted
<1>6. ASSUME call' = [call EXCEPT !.todo = @ \ {l}, !.results[l] = "rejected"],
             tracked' = tracked
      PROVE  /\ Take({l}) /\ strays' = strays \cup NewIds({l}) => IInv'
             /\ orders' = orders /\ strays' = strays => IInv'
  <2>1. Continues({})
    BY <1>3, <1>6
  <2>2. {l} \ {} = {l} /\ {l} \in SUBSET call.todo
    BY <1>1
  <2>3. Take({l}) /\ strays' = strays \cup NewIds({l}) => IInv'
    BY <1>1, <1>4, <1>6, <2>1, <2>2, Submitted
  <2>4. orders' = orders /\ strays' = strays => IInv'
    BY <1>1, <1>6, <2>1, NothingSent
  <2> QED BY <2>3, <2>4
<1>7. CASE LegRefused(l)
  BY <1>6, <1>7 DEF LegRefused
<1>8. CASE PostLeg(l)
  <2>1. orders' = orders => NewIds({l}) = {}
    BY DEF NewIds
  <2>2. orders' = orders /\ strays' = strays \cup NewIds({l}) => strays' = strays
    BY <2>1
  <2> QED BY <1>5, <1>6, <1>8, <2>2 DEF PostLeg
<1> QED BY <1>7, <1>8

-----------------------------------------------------------------------------
(* Before and after a call.                                                *)

LEMMA BeginInv ==
  ASSUME IInv, NEW p \in Positions, NEW kind \in {"entry", "exit"},
         NEW legs \in SUBSET Legs, Begin(p, kind, legs)
  PROVE  IInv'
<1>1. /\ position[p] = (IF kind = "exit" THEN "open" ELSE "free")
      /\ position' = [position EXCEPT ![p] = "open"] /\ mark' = mark
      /\ orders' = orders /\ tracked' = tracked /\ strays' = strays
      /\ forgotten' = forgotten /\ restarts' = restarts
  BY DEF Begin
<1>2. /\ position \in [Positions -> {"free", "open", "undone"}]
      /\ mark \in [Positions -> [Legs -> {"none", "pending", "rejected"}]]
  BY DEF IInv, BooksInv
<1>3. position' \in [Positions -> {"free", "open", "undone"}]
      /\ \A q \in Positions : position'[q] = "free" => position[q] = "free"
      /\ position'[p] = "open"
  BY <1>1, <1>2
<1>4. Kept
  BY <1>1, UnchangedKept DEF IInv, Heard
<1>5. OrdersInv' /\ BooksInv'
  BY <1>1, <1>3 DEF IInv, OrdersInv, BooksInv, Ids
<1>6. LegInv'
  BY <1>1, <1>3, <1>4, KeptLegs DEF IInv, LegInv
<1>7. call' = [at |-> IF kind = "exit" THEN "sequence" ELSE "batch", kind |-> kind,
               pos |-> p, todo |-> legs, results |-> [l \in Legs |-> "none"]]
  BY DEF Begin, NoCall
<1>8. call' \in CallType
  BY <1>7 DEF CallType, Results
<1>9. ASSUME kind = "entry", NEW l \in Legs
      PROVE  mark'[p][l] = "none" /\ HeardOf(p, l)' = {}
  <2>1. Entries(p, l) = {} /\ mark[p][l] = "none"
    BY <1>1, <1>9 DEF IInv, LegInv
  <2> QED BY <1>1, <1>4, <2>1, KeptLegs DEF HeardOf
<1>10. CallInv'
  <2>1. call'.at # "idle" /\ call'.pos = p /\ call'.kind = kind
        /\ call'.todo \subseteq Legs
        /\ \A l \in Legs : call'.results[l] = "none"
    BY <1>7
  <2>2. Entering' => kind = "entry"
    BY <2>1 DEF Entering
  <2>3. Entering' => \A l \in Legs : HeardOf(call.pos, l)' = {}
    BY <1>9, <2>1, <2>2
  <2> QED BY <1>3, <1>8, <1>9, <2>1, <2>2, <2>3 DEF CallInv, Busy
<1> QED BY <1>5, <1>6, <1>10 DEF IInv

LEMMA IdleCall ==
  ASSUME call' = NoCall
  PROVE  CallInv'
BY DEF CallInv, NoCall, CallType, Busy, Entering, Results

LEMMA FinishInv ==
  ASSUME IInv, Finish
  PROVE  IInv'
<1>1. /\ orders' = orders /\ tracked' = tracked /\ strays' = strays
      /\ forgotten' = forgotten /\ restarts' = restarts /\ call' = NoCall /\ Busy
      /\ call.pos \in Positions /\ call.kind \in {"entry", "exit"} /\ call \in CallType
  BY DEF Finish, Busy, IInv, CallInv
<1>2. Kept /\ OrdersInv' /\ CallInv'
  BY <1>1, UnchangedKept, IdleCall DEF IInv, OrdersInv, Ids, Heard
<1>3. /\ position \in [Positions -> {"free", "open", "undone"}]
      /\ mark \in [Positions -> [Legs -> {"none", "pending", "rejected"}]]
  BY DEF IInv, BooksInv
<1>4. CASE call.kind = "exit"
  <2>1. position' = position /\ mark' = mark
    BY <1>4 DEF Finish, books
  <2>2. BooksInv' /\ LegInv'
    BY <1>1, <1>2, <2>1, KeptLegs DEF IInv, BooksInv, LegInv
  <2> QED BY <1>2, <2>2 DEF IInv
<1>5. CASE call.kind = "entry"
  <2> DEFINE row == [l \in Legs |-> IF l \in Accepted THEN "pending"
                       ELSE IF l \in RejectedLegs THEN "rejected" ELSE mark[call.pos][l]]
  <2>1. /\ mark' = [mark EXCEPT ![call.pos] = row]
        /\ position' = IF Undo THEN [position EXCEPT ![call.pos] = "undone"] ELSE position
    BY <1>1, <1>3, <1>5 DEF Finish
  <2>2. row \in [Legs -> {"none", "pending", "rejected"}]
    BY <1>1, <1>3
  <2>3. \A l \in Legs : /\ row[l] = "pending" => HeardOf(call.pos, l) # {}
                        /\ row[l] = "rejected" => HeardOf(call.pos, l) = {}
    BY <1>1, <1>5 DEF Accepted, RejectedLegs, IInv, CallInv, Entering
  <2> HIDE DEF row
  <2>4. /\ mark' \in [Positions -> [Legs -> {"none", "pending", "rejected"}]]
        /\ mark'[call.pos] = row
        /\ \A p \in Positions \ {call.pos} : mark'[p] = mark[p]
    BY <1>1, <1>3, <2>1, <2>2
  <2>5. /\ position' \in [Positions -> {"free", "open", "undone"}]
        /\ position'[call.pos] # "free"
        /\ \A p \in Positions \ {call.pos} : position'[p] = position[p]
    <3>1. position[call.pos] # "free"
      BY <1>1, <1>5 DEF IInv, CallInv, Entering
    <3> QED BY <1>1, <1>3, <2>1, <3>1
  <2>6. BooksInv'
    BY <1>1, <2>4, <2>5 DEF IInv, BooksInv
  <2>7. LegInv'
    <3> SUFFICES ASSUME NEW p \in Positions, NEW l \in Legs
                 PROVE  /\ \A o1, o2 \in HeardOf(p, l) : o1 = o2
                        /\ mark'[p][l] = "pending" => HeardOf(p, l) # {}
                        /\ mark'[p][l] = "rejected" => HeardOf(p, l) = {}
                        /\ position'[p] = "free" => Entries(p, l) = {}
                                                    /\ mark'[p][l] = "none"
      BY <1>2, KeptLegs DEF LegInv
    <3>1. /\ \A o1, o2 \in HeardOf(p, l) : o1 = o2
          /\ mark[p][l] = "pending" => HeardOf(p, l) # {}
          /\ mark[p][l] = "rejected" => HeardOf(p, l) = {}
          /\ position[p] = "free" => Entries(p, l) = {} /\ mark[p][l] = "none"
      BY DEF IInv, LegInv
    <3>2. CASE p = call.pos
      BY <2>3, <2>4, <2>5, <3>1, <3>2
    <3>3. CASE p # call.pos
      BY <2>4, <2>5, <3>1, <3>3
    <3> QED BY <3>2, <3>3
  <2> QED BY <1>2, <2>6, <2>7 DEF IInv
<1> QED BY <1>1, <1>4, <1>5

-----------------------------------------------------------------------------
(* The orders between the calls.                                           *)

LEMMA OrdersAside ==
  ASSUME IInv, Kept, Len(orders') = Len(orders), strays' = strays,
         DOMAIN tracked' \cup forgotten' = DOMAIN tracked \cup forgotten,
         DOMAIN tracked' \cap forgotten' = {}, tracked' \in [DOMAIN tracked' -> Statuses],
         position' = position, mark' = mark, restarts' \in 0..MaxRestarts,
         call' = call \/ call' = NoCall
  PROVE  IInv'
<1>1. OrdersInv'
  BY DEF IInv, Kept, OrdersInv
<1>2. BooksInv'
  BY DEF IInv, BooksInv
<1>3. LegInv'
  BY KeptLegs DEF IInv, LegInv
<1>4. CallInv'
  <2>1. CASE call' = call
    <3>1. \A l \in Legs : HeardOf(call.pos, l)' = HeardOf(call.pos, l)
      BY <2>1, KeptLegs
    <3> QED BY <2>1, <3>1 DEF IInv, CallInv, Busy, Entering
  <2> QED BY <2>1, IdleCall
<1> QED BY <1>1, <1>2, <1>3, <1>4 DEF IInv

\* A change of the states of orders changes nothing else of them.
LEMMA StatesOnly ==
  ASSUME OrdersInv, NEW f \in [Ids -> {"live", "matched", "gone"}],
         orders' = [o \in Ids |-> [orders[o] EXCEPT !.state = f[o]]]
  PROVE  /\ orders' \in Seq(OrderType) /\ Len(orders') = Len(orders) /\ Ids' = Ids
         /\ \A o \in Ids : /\ orders'[o].pos = orders[o].pos
                           /\ orders'[o].leg = orders[o].leg
                           /\ orders'[o].kind = orders[o].kind
<1>1. orders \in Seq(OrderType) /\ Ids = 1..Len(orders) /\ Len(orders) \in Nat
  BY DEF OrdersInv, Ids
<1>2. ASSUME NEW o \in Ids PROVE [orders[o] EXCEPT !.state = f[o]] \in OrderType
  <2>1. orders[o] \in OrderType /\ f[o] \in {"live", "matched", "gone"}
    BY <1>1
  <2> QED BY <2>1 DEF OrderType
<1>3. orders' \in [1..Len(orders) -> OrderType]
  BY <1>1, <1>2
<1>4. orders' \in Seq(OrderType) /\ Len(orders') = Len(orders)
  BY <1>1, <1>3
<1>5. Ids' = Ids
  BY <1>1, <1>4 DEF Ids
<1>6. \A o \in Ids : orders[o] \in OrderType
  BY <1>1
<1> QED BY <1>4, <1>5, <1>6 DEF OrderType

LEMMA WithoutKeeps ==
  ASSUME OrdersInv, NEW ids, orders' = orders \/ orders' = Without(ids), Heard' = Heard
  PROVE  Kept /\ Len(orders') = Len(orders)
<1> DEFINE f == [o \in Ids |-> IF o \in ids /\ orders[o].state = "live" THEN "gone"
                               ELSE orders[o].state]
<1>1. \A o \in Ids : orders[o] \in OrderType
  BY DEF OrdersInv, Ids
<1>2. f \in [Ids -> {"live", "matched", "gone"}]
  BY <1>1 DEF OrderType
<1>3. \A o \in Ids : orders[o] = [orders[o] EXCEPT !.state = orders[o].state]
  BY <1>1 DEF OrderType
<1>4. Without(ids) = [o \in Ids |-> [orders[o] EXCEPT !.state = f[o]]]
  BY <1>3 DEF Without
<1> HIDE DEF f
<1> QED BY <1>2, <1>4, StatesOnly, UnchangedKept DEF Kept

LEMMA SettleInv ==
  ASSUME IInv, NEW o \in Ids, Settle(o)
  PROVE  IInv'
<1>1. PICK s \in {"matched", "gone"} : orders' = [orders EXCEPT ![o].state = s]
  BY DEF Settle
<1>2. /\ tracked' = tracked /\ call' = call /\ position' = position /\ mark' = mark
      /\ strays' = strays /\ forgotten' = forgotten /\ restarts' = restarts
  BY DEF Settle, books
<1> DEFINE f == [x \in Ids |-> IF x = o THEN s ELSE orders[x].state]
<1>3. orders \in Seq(OrderType) /\ \A x \in Ids : orders[x] \in OrderType
  BY DEF IInv, OrdersInv, Ids
<1>4. f \in [Ids -> {"live", "matched", "gone"}]
  BY <1>3 DEF OrderType
<1>5. \A x \in Ids : orders[x] = [orders[x] EXCEPT !.state = orders[x].state]
  BY <1>3 DEF OrderType
<1>6. orders' = [x \in Ids |-> [orders[x] EXCEPT !.state = f[x]]]
  BY <1>1, <1>3, <1>5 DEF Ids
<1> HIDE DEF f
<1>7. Kept /\ Len(orders') = Len(orders)
  BY <1>2, <1>4, <1>6, StatesOnly DEF IInv, Kept, Heard
<1> QED BY <1>2, <1>7, OrdersAside DEF IInv, OrdersInv, BooksInv

LEMMA UpdateInv ==
  ASSUME IInv, NEW o \in Ids, NEW status \in {"Matched", "Confirmed"}, Update(o, status)
  PROVE  IInv'
<1>1. /\ tracked' = [tracked EXCEPT ![o] = status] /\ o \in DOMAIN tracked
      /\ orders' = orders /\ call' = call /\ position' = position /\ mark' = mark
      /\ strays' = strays /\ forgotten' = forgotten /\ restarts' = restarts
  BY DEF Update, books
<1>2. DOMAIN tracked' = DOMAIN tracked /\ tracked' \in [DOMAIN tracked' -> Statuses]
  BY <1>1 DEF IInv, OrdersInv, Statuses
<1>3. Kept
  BY <1>1, <1>2, UnchangedKept DEF IInv, Heard
<1> QED BY <1>1, <1>2, <1>3, OrdersAside DEF IInv, OrdersInv, BooksInv

LEMMA CancelAllInv ==
  ASSUME IInv, CancelAll
  PROVE  IInv'
<1>1. /\ tracked' = [o \in DOMAIN tracked |-> IF o \in Pending THEN "Cancelled"
                                              ELSE tracked[o]]
      /\ orders' = orders \/ orders' = Without(Ids)
      /\ call' = call /\ position' = position /\ mark' = mark
      /\ strays' = strays /\ forgotten' = forgotten /\ restarts' = restarts
  BY DEF CancelAll, books
<1>2. DOMAIN tracked' = DOMAIN tracked /\ tracked' \in [DOMAIN tracked' -> Statuses]
  BY <1>1 DEF IInv, OrdersInv, Statuses
<1>3. Kept /\ Len(orders') = Len(orders)
  BY <1>1, <1>2, WithoutKeeps DEF IInv, Heard
<1> QED BY <1>1, <1>2, <1>3, OrdersAside DEF IInv, OrdersInv, BooksInv

LEMMA RestartInv ==
  ASSUME IInv, Restart
  PROVE  IInv'
<1>1. /\ tracked' = <<>> /\ forgotten' = forgotten \cup DOMAIN tracked /\ call' = NoCall
      /\ orders' = orders \/ orders' = Without(Ids \ Protected(tracked'))
      /\ position' = position /\ mark' = mark /\ strays' = strays
      /\ restarts' = restarts + 1 /\ restarts < MaxRestarts
  BY DEF Restart
<1>2. DOMAIN tracked' = {} /\ tracked' \in [DOMAIN tracked' -> Statuses]
  BY <1>1
<1>3. Heard' = Heard
  BY <1>1, <1>2 DEF Heard
<1>4. Kept /\ Len(orders') = Len(orders)
  BY <1>1, <1>3, WithoutKeeps DEF IInv
<1>5. restarts' \in 0..MaxRestarts
  BY <1>1, LimitsAssumption DEF IInv, BooksInv
<1> QED BY <1>1, <1>2, <1>4, <1>5, OrdersAside

-----------------------------------------------------------------------------
(* The theorems.                                                           *)

LEMMA StepInv ==
  ASSUME IInv, Next
  PROVE  IInv'
<1>1. ASSUME NEW p \in Positions, NEW kind \in {"entry", "exit"},
             NEW legs \in SUBSET Legs, Begin(p, kind, legs)
      PROVE  IInv'
  BY <1>1, BeginInv
<1>2. CASE Executor
  BY <1>2, RefusedInv, PostBatchInv, SingleInv, FinishInv DEF Executor
<1>3. ASSUME NEW o \in Ids, Settle(o) PROVE IInv'
  BY <1>3, SettleInv
<1>4. ASSUME NEW o \in Ids, NEW status \in {"Matched", "Confirmed"}, Update(o, status)
      PROVE  IInv'
  BY <1>4, UpdateInv
<1>5. CASE CancelAll \/ Restart
  BY <1>5, CancelAllInv, RestartInv
<1> QED BY <1>1, <1>2, <1>3, <1>4, <1>5 DEF Next

LEMMA StutterInv ==
  ASSUME IInv, UNCHANGED vars
  PROVE  IInv'
BY DEF IInv, OrdersInv, BooksInv, LegInv, CallInv, HeardOf, Heard, Entries, Ids, Busy,
       Entering, vars, books

\* The invariant of orders, marks and the running call.
THEOREM OrdersInvariant == Spec => []IInv
BY InitInv, StepInv, StutterInv, PTL DEF Spec

\* Orders, tracked ids, the running call and the marks have their types, and
\* no stray is tracked.
THEOREM OrdersTypeOK == Spec => []TypeOK
<1>1. IInv => TypeOK
  BY DEF IInv, OrdersInv, BooksInv, CallInv, CallType, OrderType, TypeOK
<1> QED BY <1>1, OrdersInvariant, PTL

\* A pending leg of a position stands for exactly one order of that leg that
\* the executor heard of, a rejected one for none.
THEOREM MarksHold == Spec => []MarksMatchOrders
<1>1. ASSUME IInv, NEW p \in Positions, NEW l \in Legs
      PROVE  /\ mark[p][l] = "pending" => Cardinality(Entries(p, l) \cap Heard) = 1
             /\ mark[p][l] = "rejected" => Entries(p, l) \cap Heard = {}
  <2>1. ASSUME mark[p][l] = "pending"
        PROVE  Cardinality(Entries(p, l) \cap Heard) = 1
    <3>1. PICK o \in HeardOf(p, l) : HeardOf(p, l) = {o}
      BY <1>1, <2>1 DEF IInv, LegInv
    <3> QED BY <3>1, FS_Singleton DEF HeardOf
  <2>2. mark[p][l] = "rejected" => Entries(p, l) \cap Heard = {}
    BY <1>1 DEF IInv, LegInv, HeardOf
  <2> QED BY <2>1, <2>2
<1>2. IInv => MarksMatchOrders
  BY <1>1 DEF MarksMatchOrders
<1> QED BY <1>2, OrdersInvariant, PTL

\* Two orders of one leg of an entry: of one of them the answer was not heard.
THEOREM TwiceHolds == Spec => []TwiceOnlyUnheard
<1>1. ASSUME IInv, NEW p \in Positions, NEW l \in Legs,
             Cardinality(Entries(p, l)) > 1, Entries(p, l) \cap strays = {}
      PROVE  FALSE
  <2>1. Entries(p, l) \subseteq Heard
    BY <1>1 DEF IInv, OrdersInv, Heard, Entries
  <2>2. HeardOf(p, l) = Entries(p, l)
    BY <2>1 DEF HeardOf
  <2>3. Entries(p, l) = {} \/ \E o : Entries(p, l) = {o}
    <3>1. \A o1, o2 \in Entries(p, l) : o1 = o2
      BY <1>1, <2>2 DEF IInv, LegInv
    <3> QED BY <3>1
  <2>4. Cardinality(Entries(p, l)) = 0 \/ Cardinality(Entries(p, l)) = 1
    BY <2>3, FS_EmptySet, FS_Singleton
  <2> QED BY <1>1, <2>4
<1>2. IInv => TwiceOnlyUnheard
  BY <1>1 DEF TwiceOnlyUnheard
<1> QED BY <1>2, OrdersInvariant, PTL
=============================================================================
