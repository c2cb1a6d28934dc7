CONSTANTS
  p1 = p1
  a = a
  b = b
  c = c
  Positions = {p1}
  Legs = {a, b, c}
  BatchLimit = 2
  MaxOrders = 2
  MaxRestarts = 1
SPECIFICATION Spec
INVARIANTS TypeOK MarksMatchOrders TwiceOnlyUnheard
CHECK_DEADLOCK FALSE
