\* Two threads that reconstruct once each.
SPECIFICATION Spec
CONSTANTS
  Rebuilders = {sync, thread1}
  MaxDeals = 1
  MaxRuns = 1
INVARIANTS NoDuplicates
CHECK_DEADLOCK FALSE
