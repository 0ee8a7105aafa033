\* A run works with a history that was opened for the deleted-files window.
CONSTANTS
  Targets = {t1}
  Nothing = Nothing
  MaxChanges = 0
SPECIFICATION TargetSpec
CHECK_DEADLOCK FALSE
INVARIANTS RunsCanRecord
