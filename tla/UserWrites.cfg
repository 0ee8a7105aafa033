\* A note, a conflict copy of it, and every way to write either.
CONSTANTS
  None = None
  note = note
  twin = twin
  Path = {note, twin}
  CopiesOf <- Copied
  Content = {a, b}
  a = a
  b = b
  Id = {i1, i2, i3, i4, i5, i6}
  MaxEdits = 2
  MaxRenames = 1
  MaxActs = 2
  MaxFaults = 1
SPECIFICATION AnyNote
INVARIANTS
  TypeOK
  HistoryIsHonest
PROPERTIES
  OriginalsAreKept
  RemoteWritesAreAgreed
  ImplementsResolution
  ApprovalsSettle
CHECK_DEADLOCK FALSE
