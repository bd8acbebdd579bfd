CONSTANTS
  k1 = k1
  k2 = k2
  c1 = c1
  Keys = {k1, k2}
  SaleRefs = {}
  Counts = {c1}
  Quantities <- MCQuantities
  Counted <- MCCounted
  OpeningStock <- MCOpeningStock
  MaxOnHand = 2
  MaxEntering = 2
  MaxSubmitting = 2
SYMMETRY Symmetry
CHECK_DEADLOCK FALSE
SPECIFICATION Spec
INVARIANT CountPostsItsVariance
INVARIANT SubmittedIsCounted
