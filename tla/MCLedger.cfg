CONSTANTS
  Positions = {p1, p2}
  Assets = {a1}
  Trades = {t1, t2}
  Keys = {k1, k2}
  Openings = {10}
  RestoredCash = {7}
  Capitals = {2}
  Proceeds = {1, 3}
  Fees = {1}
  Shares = {1}
  Prices = {3}
  MaxAdjustments = 1
SYMMETRY Symmetry
SPECIFICATION Spec
INVARIANTS BooksBalance RunningCoversJournal SuspenseBacked
CHECK_DEADLOCK FALSE
