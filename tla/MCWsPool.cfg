CONSTANTS
  Tokens = {a1, a2}
  Cap = 1
  MaxConns = 2
  ThresholdPerConn = 2
  Room = 2
  MaxOps = 3
SPECIFICATION PoolFairSpec
INVARIANTS PoolTypeOK NothingForgotten
PROPERTIES Served
CHECK_DEADLOCK FALSE
