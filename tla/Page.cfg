\* Two queries, two States, two summaries in flight, one failure.
CONSTANTS
  MaxQueries = 2
  MaxRev = 2
  MaxLoads = 2
  MaxFailures = 1
SPECIFICATION Spec
INVARIANTS
  TypeOK
PROPERTIES
  GraphAnswersItsQuery
  PageSettles
\* A page with nothing on its way waits.
CHECK_DEADLOCK FALSE
