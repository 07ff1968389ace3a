SPECIFICATION Spec
CONSTANTS
  u1 = u1
  u2 = u2
  btc = btc
  eth = eth
  sol = sol
  manual = manual
  tick = tick
  Users = {u1, u2}
  Items = {btc, eth, sol}
  UserOf <- TwoBaskets
  Sessions = {manual, tick}
  Schedulers = {tick}
  Stale <- StaleSoon
  Overlap = 1
  Lookback = 3
  Lag = 1
  MaxTime = 0
  MaxDeals = 0
  MaxSyncs = 1
  Endless = {}
  MaxEdits = 1
  MaxCrashes = 0
  MaxOutages = 1
  Free = Free
SYMMETRY SameBasket
PROPERTIES ItemsIsolated
CHECK_DEADLOCK FALSE
