CONSTANTS
  Pids = {p1, p2}
  m1 = m1
  m2 = m2
  Markets = {m1, m2}
  Nobody = Nobody
  Unit = 100
  FeeNum = 1
  FeeDen = 10
  Modes = {TRUE, FALSE}
  StartCapital = 300
  Orders <- AllOrders
  Bids <- AllBids
  PaperBids <- AllPaperBids
  Replacements = {0, 20}
  MaxShares = 2
SYMMETRY Symmetry
SPECIFICATION ManagerSpec
INVARIANTS PayoutIsRedeemable BooksClose
PROPERTY CashMovesTogether
CHECK_DEADLOCK FALSE
