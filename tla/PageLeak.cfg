\* A second connection outlives its query.
CONSTANTS
  MaxQueries = 2
  MaxRev = 1
  MaxLoads = 2
  MaxFailures = 1
SPECIFICATION Spec
PROPERTIES
  OnlyThisQuery
CHECK_DEADLOCK FALSE
