SPECIFICATION Spec
CONSTANTS
  Workloads <- MCWorkloads
  Cards <- MCCards
  Hosts <- MCHosts
  Links <- MCLinks
  Declared <- MCDeclared
  MaxClicks = 5
  MaxRev = 1
PROPERTIES
  ResetOnOpenOnly
  \* EscapeBelongsToTheList (violated in its place)
CHECK_DEADLOCK FALSE
