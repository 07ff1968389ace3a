SPECIFICATION Spec
CONSTANTS
  Deals <- AllDeals
  MaxDeals = 6
  NoLedger = NoLedger
CONSTRAINT Explored
INVARIANTS TypeOK VolumesBalance EachDealOnce PositionsFollow LinksWithinTimeline
INVARIANTS OpenIsNetAboveLowest FiguresFromLinks DashboardReconciles
PROPERTIES ImplementsHedgeBook
CHECK_DEADLOCK FALSE
