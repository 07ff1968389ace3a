SPECIFICATION Spec
CONSTANTS
  Sessions = {s1, s2}
  Timeframes <- Tfs
  Canonical <- Canon
  Missing = Missing
  NotNumeric = NotNumeric
  NoPlan = NoPlan
  Payloads <- SomePayloads
  MaxPuts = 3
  Contexts <- SomeContexts
INVARIANTS PlanIsOnePut ReadableAsStored DecidedStays DirectionsMirror
PROPERTIES AlonePutTakesEffect RequestsEnd
CHECK_DEADLOCK FALSE
