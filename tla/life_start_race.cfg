CONSTANTS
  a1 = a1
  a2 = a2
  p1 = p1
  Admins = {a1, a2}
  Producers = {p1}
  MaxOps = 3
  MaxRoutes = 1
  MaxEvents = 1
SPECIFICATION Spec
INVARIANT RunningAgrees
