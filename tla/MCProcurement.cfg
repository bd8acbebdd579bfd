CONSTANTS
  k1 = k1
  k2 = k2
  p1 = p1
  Keys = {k1, k2}
  PurchaseOrders = {p1}
  SaleRefs = {}
  Quantities <- MCQuantities
  OpeningStock <- MCOpeningStock
  Costs <- MCCosts
  Extras <- MCExtras
  MaxReceipts = 3
  MaxReceiptLines = 2
  MaxUncosted = 1
  MaxOnHand = 3
SYMMETRY Symmetry
CHECK_DEADLOCK FALSE
SPECIFICATION PoSpec
INVARIANT ReceiptsWithinOrder
INVARIANT PaidIsInStock
