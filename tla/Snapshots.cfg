CONSTANTS
  p = p
  q = q
  None = None
  Paths <- Either
  Directions = {"both", "push", "pull"}
  MaxVersion = 3
  MaxTime = 4
  Second = 2
  Lifetime = 2
  Start = 2
  Leads <- EitherWay
  MaxFaults = 1
SPECIFICATION Spec
SYMMETRY EitherSymmetric
CHECK_DEADLOCK FALSE
INVARIANTS StaleCacheIsReported NarrowMissesNothing
