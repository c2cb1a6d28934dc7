------------------------------ MODULE MCWsPool ------------------------------
(* The instance of WsPool that TLC checks.                                 *)
EXTENDS WsPool
=============================================================================
