------------------------------- MODULE DueSet -------------------------------
(***************************************************************************)
(* What the evaluation queue promises its two sides: what a feed puts in   *)
(* stays due until the evaluator takes it, what the evaluator takes was    *)
(* due, and everything taken is worked off before more is taken.  It does  *)
(* not promise that something taken is no longer due.                      *)
(***************************************************************************)
CONSTANT Constraints
VARIABLES due, taken

Init == due = {} /\ taken = {}

Add(c) == due' = due \cup {c} /\ UNCHANGED taken

Take(T) ==
  /\ taken = {} /\ T \subseteq due
  /\ taken' = T
  /\ due' \in SUBSET due /\ due \ T \subseteq due'

Evaluate(c) == taken' \in {taken, taken \ {c}} /\ UNCHANGED due

Next ==
  \/ \E c \in Constraints : Add(c)
  \/ \E T \in SUBSET Constraints : Take(T)
  \/ \E c \in taken : Evaluate(c)

Spec == Init /\ [][Next]_<<due, taken>>
=============================================================================
