CONSTANTS
  p1 = p1
  p2 = p2
  Producers = {p1, p2}
  Passing = {p1}
  QueueCapacity = 1
  MaxEvents <- MCEvents
SPECIFICATION FairSpec
PROPERTY BlockedProducerWakes
