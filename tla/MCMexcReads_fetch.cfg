SPECIFICATION Spec
CONSTANTS
  r1 = r1
  r2 = r2
  Requests = {r1, r2}
  Deals <- SomeDeals
  StopOrders <- SomeStops
  Positions <- SomePositions
  Froms = {1, 2}
  PageSize = 2
  MaxRetries = 3
  Lookback = 1
  Lookahead = 2
  MaxTime = 5
  UnknownTime = 9999
  None = None
INVARIANTS ImportComplete StopIsTheOpeningOne
SYMMETRY Symmetry
CHECK_DEADLOCK FALSE
