\* Convergence under fairness, once edits and silent edits cease.
CONSTANTS
  None = None
  a = a
  b = b
  c = c
  n = n
  m = m
  Path = {n}
  Mergeable = {}
  Content = {a, b}
  Time = {1}
  Now = 1
  Uuid = {1, 2, 3, 4, 5, 6}
  SizeOf <- SizesOfContents
  Digests = {TRUE}
  Directions = {"both"}
  Workers = 2
  MaxEdits = 2
  MaxSilent = 1
  MaxFaults = 1
SPECIFICATION FairSpec
PROPERTIES
  Converges
