SPECIFICATION Spec
CONSTANTS
  Coll = {1, 2}
  Req = {"r1", "r2"}
  MaxVersion = 2
  MaxCommands = 4
  MaxFailures = 0
  MaxCrashes = 0
CHECK_DEADLOCK FALSE
INVARIANT HeadersNeverTakeRequests
