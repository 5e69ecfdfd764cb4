SPECIFICATION WsSpec
CONSTANTS
  Sessions = {"a"}
  MaxSockets = 1
  MaxNavigations = 0
  Nobody = "none"
CHECK_DEADLOCK FALSE
PROPERTY
  ClearingTearsDown
