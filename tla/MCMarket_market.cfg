SPECIFICATION Spec
CONSTANTS
  r1 = r1
  r2 = r2
  Requests = {r1, r2}
  Positions <- SomePositions
  Width <- Widths
  Orders <- SomeOrders
  Warmup = 4
  MaxPerRequest = 3
  Moments = {12, 14}
  Charts <- SomeCharts
  Lengths <- ShortLengths
  None = None
INVARIANTS WindowWhole SnapshotSound MirrorTurns
CHECK_DEADLOCK FALSE
SYMMETRY Symmetry
