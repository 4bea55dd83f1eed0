\* A Deployment, a CronJob with a running Job and a Rollout stand; any two changes.
CONSTANTS
  None = None
  deployment = deployment
  replicaSet = replicaSet
  cronJob = cronJob
  job = job
  rollout = rollout
  one = one
  two = two
  run = run
  Objects <- MCObjects
  KindOf <- MCKindOf
  OwnerOf <- MCOwnerOf
  Standing <- MCStanding
  Labels = {"old", "new"}
  MaxChanges = 2
SPECIFICATION Spec
INVARIANT
  PodsAreAttributed
PROPERTY
  AttributionSettles
\* The changes are bounded, and then all is read.
CHECK_DEADLOCK FALSE
