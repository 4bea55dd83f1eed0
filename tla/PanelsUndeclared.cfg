SPECIFICATION Spec
CONSTANTS
  Workloads <- MCWorkloads
  Cards <- MCCards
  Hosts <- MCHosts
  Links <- MCLinks
  Declared <- MCDeclared
  MaxClicks = 5
  MaxRev = 1
INVARIANTS
  UndeclaredIsTrue
CHECK_DEADLOCK FALSE
