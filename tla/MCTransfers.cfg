CONSTANTS
  l1 = l1
  l2 = l2
  v1 = v1
  u1 = u1
  u2 = u2
  t1 = t1
  t2 = t2
  s1 = s1
  Locations = {l1, l2}
  Variants = {v1}
  Serials = {u1, u2}
  Transfers = {t1, t2}
  Keys <- MCKeys
  SerialsOf <- MCSerialsOf
  SaleRefs = {s1}
  Quantities <- MCQuantities
  OpeningStock <- MCOpeningStock
  Costs <- MCCosts
  BaseCost = 3
  MaxUncosted = 1
  MaxApproving = 2
  MaxOnHand = 2
SYMMETRY Symmetry
CHECK_DEADLOCK FALSE
SPECIFICATION MCSpec
INVARIANT TypeOK
INVARIANT LedgerTellsTransfer
INVARIANT UnitsAreOnTheShelf
INVARIANT LayersFollowStock
PROPERTY TransfersKeepValue
