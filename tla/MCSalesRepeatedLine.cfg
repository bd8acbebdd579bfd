CONSTANTS
  k1 = k1
  k2 = k2
  s1 = s1
  Keys = {k1, k2}
  SaleRefs = {s1}
  Quantities <- MCQuantities
  OpeningStock <- MCOpeningStock
  LineTotals <- MCLineTotals
  Costs <- MCCosts
  BaseCost = 2
  MaxUncosted = 0
  MaxOnHand = 2
  MaxReturnLines = 2
CHECK_DEADLOCK FALSE
SPECIFICATION MCSpec
INVARIANT NeverReturnsMoreThanSold
