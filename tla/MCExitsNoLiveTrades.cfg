CONSTANTS
  l1 = l1
  l2 = l2
  Legs = {l1, l2}
  Size <- Sizes
  Room = 1
  MaxSales = 2
SPECIFICATION ExitsSpec
INVARIANT NoLiveTrades
CHECK_DEADLOCK FALSE
