CONSTANTS
  Pids = {p1}
  Markets = {m1, m2}
  Nobody = Nobody
  Unit = 5
  FeeNum = 1
  FeeDen = 4
  Order <- Even
  StartCapital = 20
  Sizes = {1, 2}
  Threshold = 0
  Exempt = {}
  MaxQueued = 2
  MaxBoots = 2
SYMMETRY Symmetry
SPECIFICATION Spec
INVARIANTS TypeOK ActualIsSettled PayoutIsReal
