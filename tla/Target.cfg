\* Two targets, every caller, two drops of the client.
CONSTANTS
  Targets = {t1, t2}
  Nothing = Nothing
  MaxChanges = 2
SYMMETRY Interchangeable
SPECIFICATION TargetSpec
CHECK_DEADLOCK FALSE
INVARIANTS HistoryIsOfTheSettings ForcedUploadsAreRecordedWhereMade
PROPERTIES EngineIsOfOneTarget VerifiedIsCurrent
