CONSTANTS
  c1 = c1
  c2 = c2
  c3 = c3
  Constraints = {c1, c2, c3}
  a1 = a1
  a2 = a2
  Assets = {a1, a2}
  Legs <- SameMarket
  Feeds = {f1}
  MaxEvals = 2
  MaxPositions = 1
  MaxOpen = 2
  ScanResults = {{c1, c2}}
  MaxScans = 1
  NotCached = NotCached
SYMMETRY Symmetry
SPECIFICATION Spec
INVARIANTS NoChangeLost NoLostWakeup
PROPERTIES NoReentry KeepsDue
