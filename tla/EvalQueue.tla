----------------------------- MODULE EvalQueue -----------------------------
(***************************************************************************)
(* EvalQueue (rust_engine/src/queue.rs): the constraints waiting to be     *)
(* evaluated, in two lists, each with a set beside it that keeps an entry  *)
(* from being queued twice.  Every operator is a method called with the    *)
(* one mutex held.  An entry is the id of its constraint.                  *)
(***************************************************************************)
EXTENDS Catalogue, Sequences, Naturals

Queue == [urgent : Seq(Constraints), background : Seq(Constraints),
          urgentSet : SUBSET Constraints, bgSet : SUBSET Constraints]

EmptyQueue == [urgent |-> <<>>, background |-> <<>>, urgentSet |-> {}, bgSet |-> {}]

PushUrgent(q, c) ==
  [q EXCEPT !.urgent = IF c \in q.urgentSet THEN @ ELSE Append(@, c),
            !.urgentSet = @ \cup {c},
            !.bgSet = @ \ {c}]

PushBackground(q, c) ==
  IF c \in q.urgentSet \cup q.bgSet THEN q
  ELSE [q EXCEPT !.background = Append(@, c), !.bgSet = @ \cup {c}]

Push(q, c, isUrgent) == IF isUrgent THEN PushUrgent(q, c) ELSE PushBackground(q, c)

\* drain(max): urgent entries first, what is left of max from the background.
Least(a, b) == IF a <= b THEN a ELSE b
TakenUrgent(q, max) == Least(Len(q.urgent), max)
TakenBackground(q, max) == Least(Len(q.background), max - TakenUrgent(q, max))
First(s, n) == SubSeq(s, 1, n)
After(s, n) == SubSeq(s, n + 1, Len(s))
Members(s) == {s[i] : i \in DOMAIN s}

Drained(q, max) == First(q.urgent, TakenUrgent(q, max))
                     \o First(q.background, TakenBackground(q, max))

\* Mutants: drained entries stay in the set; the background is cleared with
\* them.
MutDrainKeepsSet(q, max) ==
  [q EXCEPT !.urgent = After(@, TakenUrgent(q, max)),
            !.background = After(@, TakenBackground(q, max)),
            !.bgSet = @ \ Members(First(q.background, TakenBackground(q, max)))]
MutDrainClears(q, max) ==
  LET u == TakenUrgent(q, max)
  IN [urgent |-> After(q.urgent, u), background |-> <<>>,
      urgentSet |-> q.urgentSet \ Members(First(q.urgent, u)), bgSet |-> {}]

AfterDrain(q, max) ==
  LET u == TakenUrgent(q, max)
      b == TakenBackground(q, max)
  IN [urgent |-> After(q.urgent, u),
      background |-> After(q.background, b),
      urgentSet |-> q.urgentSet \ Members(First(q.urgent, u)),
      bgSet |-> q.bgSet \ Members(First(q.background, b))]

Waiting(q) == Members(q.urgent) \cup Members(q.background)
=============================================================================
