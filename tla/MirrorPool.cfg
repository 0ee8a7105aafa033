\* Two notes sharing the transfer pool, whose files carry no digests.
CONSTANTS
  None = None
  a = a
  b = b
  c = c
  n = n
  m = m
  Path <- Pair
  Mergeable = {}
  Content = {a, c}
  Time = {1}
  Now = 1
  Uuid = {1, 2, 3, 4, 5, 6, 7, 8, 9, 10, 11}
  SizeOf <- SizesOfContents
  Digests = {FALSE}
  Directions = {"both"}
  Workers = 2
  MaxEdits = 2
  MaxSilent = 0
  MaxFaults = 1
SPECIFICATION Spec
SYMMETRY PathSymmetry
INVARIANTS
  BaselineHonest
  LocalWriteIsSafe
