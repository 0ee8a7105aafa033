\* A note that the user renames while it is being uploaded by force.
CONSTANTS
  None = None
  note = note
  twin = twin
  Path = {note, twin}
  CopiesOf <- Copied
  Content = {a, b}
  a = a
  b = b
  Id = {i1, i2, i3, i4, i5, i6}
  MaxEdits = 0
  MaxRenames = 1
  MaxActs = 1
  MaxFaults = 0
SPECIFICATION Spec
INVARIANT HistoryIsOfItsPath
CHECK_DEADLOCK FALSE
