\* One path under two-way, push-only and pull-only passes, every kind of interference.
CONSTANTS
  None = None
  a = a
  b = b
  c = c
  n = n
  m = m
  Path = {n}
  Mergeable = {n}
  Content = {a, b}
  Time = {1, 2}
  Now = 2
  Uuid = {1, 2, 3, 4, 5, 6}
  SizeOf <- SizesOfContents
  Digests = {TRUE}
  Directions = {"both", "push", "pull"}
  Workers = 2
  MaxEdits = 2
  MaxSilent = 1
  MaxFaults = 1
SPECIFICATION Spec
SYMMETRY ContentSymmetry
INVARIANTS
  TypeOK
  BaselineHonest
  LocalWriteIsSafe
  RemoteWriteIsSafe
PROPERTIES
  RemoteDeletionIsKnown
  ApprovedOnly
  DirectionRespected
