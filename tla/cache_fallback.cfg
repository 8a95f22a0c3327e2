CONSTANTS
  t1 = t1
  Loggers = {t1}
  Events <- MCEvents
  RouteChoices <- MCRouteChoices
  FilterChoices <- MCFilterChoices
  PrefixChoices <- MCPrefixChoices
  MaskBits = 2
  MaxChanges = 1
  MaxEdits = 0
SPECIFICATION Spec
INVARIANT SevereFallsBack
