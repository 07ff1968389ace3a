SPECIFICATION Spec
CONSTANTS
  u1 = u1
  u2 = u2
  btc = btc
  eth = eth
  sol = sol
  manual = manual
  tick = tick
  Users = {u1}
  Items = {btc}
  UserOf <- OneItem
  Sessions = {manual, tick}
  Schedulers = {tick}
  Stale <- StaleSoon
  Overlap = 1
  Lookback = 3
  Lag = 1
  MaxTime = 3
  MaxDeals = 2
  MaxSyncs = 1
  Endless = {}
  MaxEdits = 2
  MaxCrashes = 1
  MaxOutages = 1
  Free = Free
INVARIANTS TypeOK NoSilentGap CursorFromRun NothingLeftRunning OneSyncPerItem
PROPERTIES SuccessMeansRebuilt CursorNeverMovesBack
CHECK_DEADLOCK FALSE
