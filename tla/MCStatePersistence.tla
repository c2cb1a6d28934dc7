------------------------ MODULE MCStatePersistence ------------------------
(* The instance of StatePersistence that TLC checks.                       *)
EXTENDS StatePersistence
=============================================================================
