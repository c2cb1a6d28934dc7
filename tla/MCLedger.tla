------------------------------ MODULE MCLedger ------------------------------
(* The instance of Ledger that TLC checks, and the mutants of its code.    *)
EXTENDS Ledger, TLC
Symmetry == Permutations(Positions) \cup Permutations(Trades)
             \cup Permutations(Keys)
=============================================================================
