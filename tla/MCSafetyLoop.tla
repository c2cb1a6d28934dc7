---------------------------- MODULE MCSafetyLoop ----------------------------
(* The instances of SafetyLoop that TLC checks.  The intervals keep the    *)
(* order of the shipped configuration: save (10 s) <= poll (60 s) <        *)
(* scan (495 s), error window 300 s < scan, probes (3600 s) rarest.        *)
EXTENDS SafetyLoop

MCEvery == [scan |-> 2, save |-> 1, poll |-> 1, gas |-> 2, usdc |-> 2]
MCValues == {90, 100}
=============================================================================
