SPECIFICATION FairSpec
CONSTANTS
  Path = {p1}
  Waiter = {w1, w2}
  None = None
  Direction = {"both", "pull"}
  Commands = {"sync", "network", "pause", "review", "preview"}
  SyncOnSave = TRUE
  IntervalOn = TRUE
  MaxReplans = 1
  MaxEdits = 1
  MaxActs = 3
  MaxFaults = 1
PROPERTIES EditsAreSynced ConflictsAreServed
CHECK_DEADLOCK FALSE
