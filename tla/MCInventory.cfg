CONSTANTS
  k1 = k1
  k2 = k2
  s1 = s1
  s2 = s2
  Keys = {k1, k2}
  SaleRefs = {s1, s2}
  Quantities <- MCQuantities
  OpeningStock <- MCOpeningStock
  MaxOnHand = 1
SYMMETRY Symmetry
CHECK_DEADLOCK FALSE
SPECIFICATION StockSpec
INVARIANT StockTypeOK
INVARIANT LedgerIsTruth
INVARIANT ShortfallsOnRecord
INVARIANT BucketsHold
PROPERTY ImplementsStockBook
