SPECIFICATION TillSpec
CONSTANTS
  Registers = {r1, r2}
  Sessions = {i1, i2}
  NoSession = none
  SaleRefs = {s1, s2}
  Totals = {2}
  Tenders <- TendersValue
  Floats = {1}
  MoveTypes = {"PAID_IN", "CASH_DROP"}
  MoveAmounts = {1}
  MaxMoves = 1
  MaxRefunds = 1
SYMMETRY Symmetry
INVARIANT TillTypeOK
INVARIANT ExpectedFollowsDrawer
INVARIANT RecordedIsExpected
CHECK_DEADLOCK FALSE
