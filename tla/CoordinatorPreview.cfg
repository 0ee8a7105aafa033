SPECIFICATION Spec
CONSTANTS
  Path = {p1}
  Waiter = {w1}
  None = None
  Direction = {"both"}
  Commands = {"preview"}
  SyncOnSave = TRUE
  IntervalOn = TRUE
  MaxReplans = 1
  MaxEdits = 1
  MaxActs = 1
  MaxFaults = 0
INVARIANT PreviewIsInProgress
CHECK_DEADLOCK FALSE
