CONSTANTS
  t1 = t1
  t2 = t2
  Loggers = {t1, t2}
  Events <- MCEvents
  RouteChoices <- MCRouteChoices
  FilterChoices <- MCFilterChoices
  PrefixChoices <- MCPrefixChoices
  MaskBits = 2
  MaxChanges = 2
  MaxEdits = 0
SPECIFICATION Spec
INVARIANT OptimizationOnly
