------------------------- MODULE MCOrderSubmission -------------------------
(* The instance of OrderSubmission that TLC checks.                        *)
EXTENDS OrderSubmission

CONSTANTS p1, a, b, c
=============================================================================
