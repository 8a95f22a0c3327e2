\* Two producers, one of them filtered out by the route, on a lane of two slots.
CONSTANTS
  p1 = p1
  p2 = p2
  Producers = {p1, p2}
  Passing = {p1}
  QueueCapacity = 2
  MaxEvents <- MCEvents
SPECIFICATION FairSpec
INVARIANTS TypeOK SlotAccounting DrainComplete NothingLost ProducerOrder
PROPERTIES LaneRefinement StopReturns QueuedIsProcessed DroppingReturns
