\* Violated: a template is edited while pods of the former one run.
CONSTANTS
  None = None
  deployment = deployment
  replicaSet = replicaSet
  cronJob = cronJob
  job = job
  rollout = rollout
  one = one
  two = two
  run = run
  Objects <- MCObjects
  KindOf <- MCKindOf
  OwnerOf <- MCOwnerOf
  Standing <- MCStanding
  Labels = {"old", "new"}
  MaxChanges = 2
SPECIFICATION Spec
INVARIANT
  PodsShareTheirNodesLabels
  \* BadgesShowWhatExists (violated in its place)
CHECK_DEADLOCK FALSE
