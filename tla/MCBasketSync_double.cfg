SPECIFICATION Spec
CONSTANTS
  u1 = u1
  u2 = u2
  btc = btc
  eth = eth
  sol = sol
  manual = manual
  tick = tick
  Users = {u1}
  Items = {btc, eth}
  UserOf <- OneBasket
  Sessions = {manual, tick}
  Schedulers = {tick}
  Stale <- StaleNever
  Overlap = 1
  Lookback = 3
  Lag = 1
  MaxTime = 0
  MaxDeals = 0
  MaxSyncs = 1
  Endless = {}
  MaxEdits = 0
  MaxCrashes = 0
  MaxOutages = 0
  Free = Free
INVARIANTS OneSyncPerItem
CHECK_DEADLOCK FALSE
