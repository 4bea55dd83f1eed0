SPECIFICATION Spec
CONSTANTS
  Workloads <- MCWorkloads
  Cards <- MCCards
  Hosts <- MCHosts
  Links <- MCLinks
  Declared <- MCDeclared
  MaxClicks = 5
  MaxRev = 1
INVARIANTS
  TypeOK
  AnswersFit
PROPERTIES
  TypingIsKept
  WorkloadsFinishLoading
CHECK_DEADLOCK FALSE
