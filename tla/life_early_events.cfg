\* One thread, which logs before start().
CONSTANTS
  a1 = a1
  p1 = p1
  Admins = {a1}
  Producers = {p1}
  MaxOps = 3
  MaxRoutes = 2
  MaxEvents = 1
SPECIFICATION Spec
INVARIANT QueuedUntilStarted
