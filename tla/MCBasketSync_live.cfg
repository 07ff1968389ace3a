SPECIFICATION FairSpec
CONSTANTS
  u1 = u1
  u2 = u2
  btc = btc
  eth = eth
  sol = sol
  manual = manual
  tick = tick
  Users = {u1}
  Items = {btc}
  UserOf <- OneItem
  Sessions = {manual, tick}
  Schedulers = {tick}
  Stale <- StaleSoon
  Overlap = 1
  Lookback = 3
  Lag = 1
  MaxTime = 1
  MaxDeals = 0
  MaxSyncs = 1
  Endless = {tick}
  MaxEdits = 0
  MaxCrashes = 1
  MaxOutages = 1
  Free = Free
PROPERTIES SyncEnds StaleItemRecovers
CHECK_DEADLOCK FALSE
