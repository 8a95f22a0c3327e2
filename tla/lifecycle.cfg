CONSTANTS
  a1 = a1
  p1 = p1
  Admins = {a1}
  Producers = {p1}
  MaxOps = 4
  MaxRoutes = 2
  MaxEvents = 2
SPECIFICATION FairSpec
INVARIANTS TypeOK LanesMatchRoutes RunningAgrees GracefulLosesNothing CloseFlushes RouteOrder FatalFlushed
PROPERTY CallsReturn
