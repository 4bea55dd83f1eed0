\* A handle under the status its predecessor left.
CONSTANTS
  MaxSockets = 2
  MaxRetry = 1
SPECIFICATION ClientSpec
INVARIANTS
  LiveIsConnected
CHECK_DEADLOCK FALSE
