CONSTANTS
  l1 = l1
  l2 = l2
  v1 = v1
  u1 = u1
  u2 = u2
  u3 = u3
  t1 = t1
  t2 = t2
  Locations = {l1, l2}
  Variants = {v1}
  Serials = {u1, u2, u3}
  Transfers = {t1, t2}
  Keys <- MCKeys
  SerialsOf <- MCSerialsOf
  SaleRefs = {}
  Quantities <- MCQuantities
  OpeningStock <- MCOpeningStock
  Costs <- MCCosts
  BaseCost = 3
  MaxUncosted = 0
  MaxApproving = 2
  MaxOnHand = 3
CHECK_DEADLOCK FALSE
SPECIFICATION MCSpec
PROPERTY TakesAvailableUnits
