SPECIFICATION Spec
CONSTANTS
  u1 = u1
  u2 = u2
  btc = btc
  eth = eth
  sol = sol
  manual = manual
  tick = tick
  Users = {u1}
  Items = {btc}
  UserOf <- OneItem
  Sessions = {manual, tick}
  Schedulers = {tick}
  Stale <- StaleSoon
  Overlap = 1
  Lookback = 3
  Lag = 1
  MaxTime = 2
  MaxDeals = 1
  MaxSyncs = 2
  Endless = {}
  MaxEdits = 0
  MaxCrashes = 0
  MaxOutages = 0
  Free = Free
INVARIANTS HistoryImported
CHECK_DEADLOCK FALSE
