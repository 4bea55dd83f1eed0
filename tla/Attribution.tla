---------------------------- MODULE Attribution ----------------------------
(***************************************************************************)
(* collectWorkloads and rootRef in pkg/cluster: which controller a pod is  *)
(* drawn as, worked out from informer caches that show different moments   *)
(* of a cluster whose controllers create, replace and collect one another. *)
(*                                                                         *)
(* An object is known by its reference; what it contains is the label of   *)
(* its pod template, or of itself.  That a change of a cache is followed   *)
(* by a rebuild is what module Watcher is about; here the token is set in  *)
(* the step that changes the cache.                                        *)
(***************************************************************************)
EXTENDS Naturals, FiniteSets, Sequences, FiniteSetsExt

CONSTANTS
  Objects,     \* references of the objects there may be
  KindOf,      \* the kind of each
  OwnerOf,     \* the controlling owner of each; None without one
  None,
  Labels,
  Standing,    \* the cluster when Marsad starts
  MaxChanges   \* bound: how often somebody changes the cluster

\* The listers in the order collectWorkloads reads them.  Objects of any other
\* kind are never read.
Order == <<"Deployment", "StatefulSet", "DaemonSet", "CronJob", "Job", "ReplicaSet", "Pod">>
ReadKinds == {Order[i] : i \in 1..Len(Order)}

Controllers == {"Deployment", "StatefulSet", "DaemonSet", "CronJob"}

Absent == "absent"
Done == "done"       \* a pod that has succeeded or failed

ASSUME AttributionAssumption ==
  /\ IsFiniteSet(Objects) /\ None \notin Objects
  /\ {Absent, Done} \cap Labels = {}
  /\ OwnerOf \in [Objects -> Objects \cup {None}]
  /\ MaxChanges \in Nat
  \* What Kubernetes has own what: pods own nothing, Jobs and ReplicaSets own pods.
  /\ \A o \in Objects : OwnerOf[o] # None =>
       /\ KindOf[OwnerOf[o]] # "Pod"
       /\ KindOf[OwnerOf[o]] \in {"Job", "ReplicaSet"} => KindOf[o] = "Pod"

Values == Labels \cup {Absent, Done}

\* Only pods finish.
ASSUME StandingAssumption ==
  /\ Standing \in [Objects -> Values]
  /\ \A o \in Objects : KindOf[o] # "Pod" => Standing[o] # Done

VARIABLES
  cluster,   \* what the API server has
  cache,     \* what the informers' stores have
  dirty,     \* the token
  next,      \* the position of the lister rebuild reads next; 0 between rebuilds
  read,      \* what the rebuild has read, or the last one read
  status,    \* in each of the three, what the controllers' statuses say exists of each
  nodes,     \* the workloads of the published State
  changes

vars == <<cluster, cache, dirty, next, read, status, nodes, changes>>

\* s with the objects of kind k as t has them.
Updated(s, k, t) == [o \in Objects |-> IF KindOf[o] = k THEN t[o] ELSE s[o]]

-----------------------------------------------------------------------------
(* collectWorkloads *)

\* The nodes made of what the listers of controllers and of Jobs return.
Known(r) ==
  {o \in Objects : r[o] # Absent /\ (KindOf[o] \in Controllers \/ (KindOf[o] = "Job" /\ OwnerOf[o] = None))}

Live(r) == {p \in Objects : KindOf[p] = "Pod" /\ r[p] \in Labels}

\* Wrong: only a ReplicaSet is looked through.
RootOfReplicaSets(r, p) ==
  LET owner == OwnerOf[p]
  IN IF owner = None THEN p
     ELSE IF KindOf[owner] = "ReplicaSet" /\ r[owner] # Absent /\ OwnerOf[owner] # None
     THEN OwnerOf[owner]
     ELSE owner

\* rootRef
Root(r, p) ==
  LET owner == OwnerOf[p]
  IN IF owner = None THEN p
     ELSE IF KindOf[owner] \in {"ReplicaSet", "Job"} /\ r[owner] # Absent /\ OwnerOf[owner] # None
     THEN OwnerOf[owner]
     ELSE owner

PodsOf(r, ref) == {p \in Live(r) : Root(r, p) = ref}

\* References of nodes made from a pod.
Synthetic(r) == {Root(r, p) : p \in Live(r)} \ Known(r)

\* What collectWorkloads may return: the labels of a synthetic node are those of
\* the pod the lister happens to return first.  A node without live pods keeps
\* the number in its controller's status.
Workloads(r, s) ==
  {[ref \in Known(r) \cup Synthetic(r) |->
      [labels |-> IF ref \in Known(r) THEN r[ref] ELSE r[first[ref]],
       replicas |-> IF PodsOf(r, ref) = {} THEN s[ref] ELSE Cardinality(PodsOf(r, ref))]] :
     first \in {f \in [Synthetic(r) -> Live(r)] : \A ref \in Synthetic(r) : f[ref] \in PodsOf(r, ref)}}

-----------------------------------------------------------------------------
(* What the controllers say. *)

\* A Job with a pod that is done is finished.
Unfinished(cronJob) ==
  {j \in Objects : /\ KindOf[j] = "Job" /\ OwnerOf[j] = cronJob /\ cluster[j] # Absent
                  /\ \A p \in Objects : OwnerOf[p] = j => cluster[p] # Done}

\* A CronJob's status lists its Jobs, the others count their pods.
Counted(o) ==
  IF KindOf[o] = "CronJob" THEN Cardinality(Unfinished(o)) ELSE Cardinality(PodsOf(cluster, o))

-----------------------------------------------------------------------------

Init ==
  /\ cluster = Standing
  /\ cache = cluster
  /\ dirty = FALSE
  /\ next = 0
  /\ read = cache
  /\ LET counts == [o \in Objects |-> IF o \in Known(cluster) THEN Counted(o) ELSE 0]
     IN status = [cluster |-> counts, cache |-> counts, read |-> counts]
  /\ nodes \in Workloads(read, status.read)
  /\ changes = 0

\* A status goes with its object.
Put(o, v) ==
  /\ cluster' = [cluster EXCEPT ![o] = v]
  /\ status' = [status EXCEPT !.cluster[o] = IF v = Absent THEN 0 ELSE @]
  /\ UNCHANGED <<cache, dirty, next, read, nodes>>

Change(o, v) ==
  /\ changes < MaxChanges
  /\ changes' = changes + 1
  /\ Put(o, v)

\* Somebody, or the owner's controller, creates an object: a child gets its
\* owner's template.
Create(o) ==
  /\ cluster[o] = Absent
  /\ IF OwnerOf[o] = None
     THEN \E l \in Labels : Change(o, l)
     ELSE cluster[OwnerOf[o]] # Absent /\ Change(o, cluster[OwnerOf[o]])

\* A controller's template is edited; ReplicaSets, Jobs and pods keep theirs.
Retemplate(o) ==
  /\ cluster[o] # Absent
  /\ KindOf[o] \notin {"ReplicaSet", "Job", "Pod"}
  /\ \E l \in Labels \ {cluster[o]} : Change(o, l)

Finish(p) ==
  /\ p \in Live(cluster)
  /\ Change(p, Done)

Delete(o) ==
  /\ cluster[o] # Absent
  /\ Change(o, Absent)

\* The garbage collector.
Collect(o) ==
  /\ cluster[o] # Absent
  /\ OwnerOf[o] # None
  /\ cluster[OwnerOf[o]] = Absent
  /\ Put(o, Absent)
  /\ UNCHANGED changes

\* A controller notices that what exists of it changed, and writes its status.
Recount(o) ==
  /\ o \in Known(cluster)
  /\ status.cluster[o] # Counted(o)
  /\ status' = [status EXCEPT !.cluster[o] = Counted(o)]
  /\ UNCHANGED <<cluster, cache, dirty, next, read, nodes, changes>>

\* The stores of the informers of kind k, with what the API server has.
Caught(k) ==
  /\ cache' = Updated(cache, k, cluster)
  /\ status' = [status EXCEPT !.cache = Updated(status.cache, k, status.cluster)]
  /\ cache' # cache \/ status' # status
  /\ UNCHANGED <<cluster, next, read, nodes, changes>>

\* Wrong: only pods have a handler.
CatchUpPods(k) == Caught(k) /\ dirty' = (dirty \/ k = "Pod")

\* An informer of kind k catches up with the API server, and its handler marks.
CatchUp(k) == Caught(k) /\ dirty' = TRUE

\* rebuild() begins; the loop has taken the token.
Start ==
  /\ next = 0
  /\ dirty
  /\ dirty' = FALSE
  /\ next' = 1
  /\ UNCHANGED <<cluster, cache, read, status, nodes, changes>>

ReadLister ==
  /\ next \in 1..Len(Order)
  /\ read' = Updated(read, Order[next], cache)
  /\ status' = [status EXCEPT !.read = Updated(status.read, Order[next], status.cache)]
  /\ next' = next + 1
  /\ UNCHANGED <<cluster, cache, dirty, nodes, changes>>

Publish ==
  /\ next = Len(Order) + 1
  /\ nodes' \in Workloads(read, status.read)
  /\ next' = 0
  /\ UNCHANGED <<cluster, cache, dirty, read, status, changes>>

Rebuild == Start \/ ReadLister \/ Publish

Next ==
  \/ \E o \in Objects : Create(o) \/ Retemplate(o) \/ Finish(o) \/ Delete(o) \/ Collect(o) \/ Recount(o)
  \/ \E k \in ReadKinds : CatchUp(k)
  \/ Rebuild

Fairness ==
  /\ \A o \in Objects : WF_vars(Collect(o)) /\ WF_vars(Recount(o))
  /\ \A k \in ReadKinds : WF_vars(CatchUp(k))
  /\ WF_vars(Rebuild)

Spec == Init /\ [][Next]_vars /\ Fairness

-----------------------------------------------------------------------------
(* Properties. *)

TypeOK ==
  /\ cluster \in [Objects -> Values] /\ cache \in [Objects -> Values] /\ read \in [Objects -> Values]
  /\ status \in [{"cluster", "cache", "read"} -> [Objects -> Nat]]
  /\ dirty \in BOOLEAN
  /\ next \in 0..(Len(Order) + 1)
  /\ DOMAIN nodes \subseteq Objects
  /\ \A ref \in DOMAIN nodes : nodes[ref].labels \in Labels /\ nodes[ref].replicas \in Nat
  /\ changes \in 0..MaxChanges

\* "ReplicaSets are an implementation detail and must not be nodes"
\* (pkg/cluster/watcher_test.go:152), nor is a Job of a CronJob: who has an
\* owner above it is drawn as that owner.
Details == {o \in Objects : KindOf[o] \in {"ReplicaSet", "Job"} /\ OwnerOf[o] # None}

Replicas(refs) == MapThenSumSet(LAMBDA ref : nodes[ref].replicas, refs)

\* The nodes that have pods of those read.
Manned == {ref \in DOMAIN nodes : PodsOf(read, ref) # {}}

\* Whatever moments of the cluster the listers showed, every pod that was read and
\* runs is counted once, finished ones never, and a node without pods was
\* returned by a lister and shows what its controller said of it; a pod is drawn by
\* itself only when nothing owns it; and where the caches made a detail a
\* node, that is corrected by a rebuild that is due, or the detail is gone and its
\* pods are to be collected.
PodsAreAttributed ==
  /\ TypeOK
  /\ next = 0 =>
       /\ Replicas(Manned) = Cardinality(Live(read))
       /\ \A ref \in DOMAIN nodes \ Manned :
            read[ref] # Absent /\ nodes[ref].replicas = status.read[ref]
       /\ \A p \in Live(read) : OwnerOf[p] # None => p \notin DOMAIN nodes
  /\ \A ref \in DOMAIN nodes \cap Details :
       dirty \/ next # 0 \/ cache # cluster \/ cluster[ref] = Absent

\* The workloads of the cluster as it is, whatever the informers showed: its
\* controllers, and what stands above its pods.
Above(p) == IF OwnerOf[p] \in Details THEN OwnerOf[OwnerOf[p]] ELSE IF OwnerOf[p] = None THEN p ELSE OwnerOf[p]

WorkloadsOfCluster ==
  {ref \in Objects \ Details : cluster[ref] # Absent /\ KindOf[ref] \in Controllers \cup {"Job"}}
    \cup {Above(p) : p \in Live(cluster)}

\* Each with as many replicas as pods run under it; a CronJob without any, with as
\* many as Jobs of it are unfinished.
Accurate ==
  /\ DOMAIN nodes = WorkloadsOfCluster
  /\ \A ref \in DOMAIN nodes :
       /\ LET pods == {p \in Live(cluster) : Above(p) = ref}
          IN nodes[ref].replicas =
               Cardinality(IF pods = {} /\ KindOf[ref] = "CronJob" THEN Unfinished(ref) ELSE pods)
       /\ KindOf[ref] \in Controllers => nodes[ref].labels = cluster[ref]

\* Once nobody changes the cluster any more, the graph comes to show its
\* workloads and nothing else.
AttributionSettles == <>[]Accurate

\* The comment at pkg/cluster/watcher.go:541: the count preferred over the
\* controller's status "is what the replica badge should show, and it is what
\* actually exists".
BadgesShowWhatExists == next = 0 => Replicas(DOMAIN nodes) = Cardinality(Live(read))

\* The comment at pkg/cluster/workloads.go:25: "a Deployment's pods all share the
\* same template labels, so they are selected identically by every policy".
PodsShareTheirNodesLabels ==
  next = 0 => \A p \in Live(read) :
    KindOf[Root(read, p)] = "Deployment" => read[p] = nodes[Root(read, p)].labels
=============================================================================
