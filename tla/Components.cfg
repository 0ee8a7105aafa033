\* The planner's cases: three contents, two times.
CONSTANTS
  None = None
  a = a
  b = b
  c = c
  Content = {a, b, c}
  Time = {1, 2}
  SizeOf <- SizesOfContents
\* The folders: two, one within the other.
  outer = outer
  inner = inner
  NoDir = NoDir
  Dirs <- Nested
  Parent <- Within
  Directions = {"both", "push", "pull"}
  MaxActs = 3
  MaxOneWay = 1
  MaxFaults = 1
\* The recovery lookups: two keys, room for one of them.
  Targets = {t1}
  Paths = {p1, p2}
  Readers = {x1}
  OwnWrites = {o1, o2}
  ForeignWrites = {f1}
  Unread = Unread
  MaxPaths = 1
  Lifetime = 2
  MaxClock = 3
\* The pool: four jobs of any of five sizes, two workers.
  Jobs = 4
  JobSizes = {0, 1, 3, 5, 9}
  MaxWorkers = 2
  MaxBytes = 6
  LargeAt = 9
  Factor = 2
\* The transfers: two, of up to three chunks, two workers each.
  Transfers = {u, v}
  Nobody = Nobody
  MaxChunks = 3
  Concurrency = 2
SPECIFICATION ComponentsSpec
CHECK_DEADLOCK FALSE
INVARIANTS
  AgreesWithReference OverwritesOnlySynced RestsOnlyWhenEqual
  LookupsKnowOwnWrites StalenessIsBounded
  BudgetIsKept OutcomesAreFinal
PROPERTIES
  PruneTakesOnlyLateComers DeletionIsNotUndone FoldersConverge
  PoolEnds
