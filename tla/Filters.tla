------------------------------- MODULE Filters -------------------------------
(***************************************************************************)
(* web/src/lib/filters.ts: what the browser hides of the graph it holds,   *)
(* and what the rail says about it.  A graph is what ClusterGraph!Build    *)
(* returns.                                                                *)
(***************************************************************************)
EXTENDS Naturals, FiniteSets, FiniteSetsExt

EdgeKinds == {"allowed", "approximate", "default"}

DefaultFilters ==
  [edgeKinds |-> EdgeKinds, workloadKinds |-> {}, hideDNS |-> FALSE,
   onlyUnprotected |-> FALSE, hideIsolatedNodes |-> FALSE, onlyExposed |-> FALSE]

Member(n) == n.kind \in {"workload", "namespace"}

\* For a workload: isolated in no direction, and known to be.
IsUnprotectedNode(n) == Member(n) /\ n.unprotected > 0

PresentWorkloadKinds(g) == {n.wkind : n \in {m \in g.nodes : m.kind = "workload"}}

KeepsNode(f, n) ==
  /\ f.onlyUnprotected /\ Member(n) => IsUnprotectedNode(n)
  /\ f.onlyExposed /\ Member(n) => n.exposed
  /\ f.workloadKinds # {} /\ n.kind = "workload" => n.wkind \in f.workloadKinds

KeepsEdge(f, ids, e) ==
  /\ {e.source, e.target} \subseteq ids
  /\ e.kind \in f.edgeKinds
  /\ ~(f.hideDNS /\ e.dns)

ApplyFilters(g, f) ==
  LET kept == {n \in g.nodes : KeepsNode(f, n)}
      edges == {e \in g.edges : KeepsEdge(f, {n.id : n \in kept}, e)}
      connected == {e.source : e \in edges} \cup {e.target : e \in edges}
  IN [g EXCEPT !.nodes = IF f.hideIsolatedNodes
                         THEN {n \in kept : n.id \in connected} ELSE kept,
               !.edges = edges]

HiddenCount(g, shown) == Cardinality(g.nodes) - Cardinality(shown.nodes)

\* The count beside a connection toggle; the server's omission is no zero.
EdgeKindCounts(g, includeDefault) ==
  [k \in EdgeKinds \ (IF includeDefault THEN {} ELSE {"default"})
     |-> Cardinality({e \in g.edges : e.kind = k})]

\* Wrong: a namespace counts no workload.
WorkloadCountNodes(g) == Cardinality({n \in g.nodes : n.kind = "workload"})

\* A workload counts one, a namespace node what it stands for.
WorkloadCount(g) ==
  MapThenSumSet(LAMBDA n : CASE n.kind = "workload"  -> 1
                             [] n.kind = "namespace" -> n.workloads
                             [] OTHER                -> 0, g.nodes)

\* Wrong: only the edges are compared.
IsHidingEdges(g, shown, includeDefault) ==
  ~includeDefault \/ Cardinality(shown.edges) < Cardinality(g.edges)

IsHiding(g, shown, includeDefault) ==
  \/ ~includeDefault
  \/ HiddenCount(g, shown) > 0
  \/ Cardinality(shown.edges) < Cardinality(g.edges)
=============================================================================
