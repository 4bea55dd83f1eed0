\* Five sockets, a backoff capped after two; the buttons pressed at any moment
\* they are on screen.
CONSTANTS
  MaxSockets = 5
  MaxRetry = 2
SPECIFICATION ClientSpec
INVARIANTS
  ClientTypeOK
  ConnectionIsAsShown
PROPERTIES
  StoppedStaysStopped
  TriesAgain
\* A handle that is closed stops.
CHECK_DEADLOCK FALSE
