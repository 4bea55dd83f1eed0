CONSTANTS
  MaxSockets = 5
  MaxRetry = 2
SPECIFICATION ClientSpec
PROPERTIES
  ClosedDeliversNothing
CHECK_DEADLOCK FALSE
