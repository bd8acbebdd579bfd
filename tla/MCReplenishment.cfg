CONSTANTS
  k1 = k1
  k2 = k2
  p1 = p1
  p2 = p2
  h1 = h1
  h2 = h2
  worker = worker
  button = button
  Items = {k1, k2}
  Supplied = {k1, k2}
  Terms <- MCTerms
  Policies <- MCPolicies
  Forecasts <- MCForecasts
  LeadTimes <- MCLeadTimes
  Orders = {p1, p2}
  Shipments = {h1, h2}
  Runs = {worker, button}
  Worker = worker
  Newest = 1
  MaxDue = 2
  MaxFree = 2
  MaxOversold = 0
  MaxAborts = 1
  MaxKnown = 12
CHECK_DEADLOCK FALSE
SPECIFICATION MCSpec
INVARIANT TypeOK
INVARIANT OrderFillsTarget
INVARIANT AlarmsInTime
INVARIANT NothingCountedTwice
INVARIANT OrdersWithinTarget
PROPERTY ShortageIsAlerted
