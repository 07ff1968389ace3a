\* Three threads that reconstruct twice each while two deals are imported.
SPECIFICATION Spec
CONSTANTS
  Rebuilders = {sync, thread1, thread2}
  MaxDeals = 2
  MaxRuns = 2
INVARIANTS TypeOK OneCopyPerRebuilder
PROPERTIES NothingUnshown AloneRepairs RebuildsEnd
CHECK_DEADLOCK FALSE
