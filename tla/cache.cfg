CONSTANTS
  t1 = t1
  Loggers = {t1}
  Events <- MCEvents
  RouteChoices <- MCRouteChoices
  FilterChoices <- MCFilterChoices
  PrefixChoices <- MCPrefixChoices
  MaskBits = 2
  MaxChanges = 3
  MaxEdits = 1
SPECIFICATION Spec
INVARIANTS TypeOK CacheCoherent DeliveryExact StaleMaskHarmless
