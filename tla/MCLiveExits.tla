---------------------------- MODULE MCLiveExits ----------------------------
(* The instance of LiveExits that TLC checks.                              *)
EXTENDS LiveExits, TLC

CONSTANTS l1, l2

Sizes == l1 :> 2 @@ l2 :> 1
=============================================================================
