--------------------------- MODULE MCAttribution ---------------------------
(***************************************************************************)
(* A Deployment with its ReplicaSet, a CronJob with its Job, a Rollout,    *)
(* which Marsad does not read, and pods of them.                           *)
(***************************************************************************)
EXTENDS Attribution

CONSTANTS deployment, replicaSet, cronJob, job, rollout, one, two, run

MCObjects == {deployment, replicaSet, cronJob, job, rollout, one, two, run}

MCKindOf ==
  [o \in MCObjects |->
     CASE o = deployment -> "Deployment"
       [] o = replicaSet -> "ReplicaSet"
       [] o = cronJob -> "CronJob"
       [] o = job -> "Job"
       [] o = rollout -> "Rollout"
       [] OTHER -> "Pod"]

MCOwnerOf ==
  [o \in MCObjects |->
     CASE o = replicaSet -> deployment
       [] o = one -> replicaSet
       [] o = job -> cronJob
       [] o = run -> job
       [] o = two -> rollout
       [] OTHER -> None]

MCStanding ==
  [o \in MCObjects |-> IF o \in {deployment, replicaSet, cronJob, job, run, rollout} THEN "old" ELSE Absent]
============================================================================
