CONSTANTS
  k1 = k1
  s1 = s1
  o1 = o1
  o2 = o2
  Keys = {k1}
  SaleRefs = {s1}
  Orders = {o1, o2}
  Quantities <- MCQuantities
  OpeningStock <- MCOpeningStock
  Totals <- MCTotals
  Amounts <- MCAmounts
  MaxSending = 2
  MaxOnHand = 2
SYMMETRY Symmetry
CHECK_DEADLOCK FALSE
SPECIFICATION Spec
INVARIANT TypeOK
INVARIANT ReservedIsHeld
INVARIANT HeldOrderIsDeliverable
INVARIANT MoneyIsSafe
PROPERTY ImplementsStockBook
