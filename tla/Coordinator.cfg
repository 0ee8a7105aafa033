SPECIFICATION Spec
CONSTANTS
  Path = {p1, p2}
  Waiter = {w1, w2}
  None = None
  Direction = {"both", "pull"}
  Commands = {"sync", "focus", "network", "pause", "settings", "review", "preview", "force", "unload"}
  SyncOnSave = TRUE
  IntervalOn = TRUE
  MaxReplans = 1
  MaxEdits = 2
  MaxActs = 2
  MaxFaults = 2
INVARIANTS TypeOK OneOperation NoEditForgotten
PROPERTIES RunsStartWhenAllowed NoLostWakeup
SYMMETRY Interchangeable
CHECK_DEADLOCK FALSE
