CONSTANTS
  x = x
  y = y
  Constraints = {x, y}
  a1 = a1
  a2 = a2
  a3 = a3
  Tokens = {a1, a2, a3}
  mx = mx
  my = my
  Lists <- ListsOf
  MarketIds <- MarketsOf
  Cap = 2
  ConnsB = 2
  Threshold = 2
  Consolidation = 2
  MaxHeld = 2
  MaxBoots = 2
SPECIFICATION TiersSpec
INVARIANTS TiersTypeOK HotCovered
PROPERTIES ColdNeverEarly
