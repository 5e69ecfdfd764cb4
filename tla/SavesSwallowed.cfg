SPECIFICATION Spec
CONSTANTS
  Coll = {1, 2}
  Req = {"r1", "r2"}
  MaxVersion = 2
  MaxCommands = 3
  MaxFailures = 1
  MaxCrashes = 0
CHECK_DEADLOCK FALSE
INVARIANT FailedEditIsSavedInFull
