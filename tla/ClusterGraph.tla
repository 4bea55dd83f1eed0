---------------------------- MODULE ClusterGraph ----------------------------
(***************************************************************************)
(* What pkg/graph/build.go draws of one State: the nodes and edges of a    *)
(* query, as operators over a cluster c and a query q.                     *)
(*                                                                         *)
(* A cluster is what the evaluator says of a snapshot:                     *)
(*   namespaces, system   the namespaces, and those collapsed by default   *)
(*   home, wkind          of each workload, its namespace and its kind     *)
(*   isolation            of each workload, the directions policies isolate*)
(*   allows               entries [subject, dir, peer, kind, ports] of the *)
(*                        effective sets; a peer is [kind, name, workloads,*)
(*                        namespaces], the last two {} except for pods; a  *)
(*                        range of addresses is "public" or "cidr"; a port *)
(*                        is <<number, protocol>>, {} is every port        *)
(*   policies             how many there are                               *)
(* An id is a pair <<kind, name>>.  Labels, replicas and notes are left    *)
(* out, and the order of nodes and edges.                                  *)
(***************************************************************************)
EXTENDS Naturals, FiniteSets

CONSTANTS
  MaxPeers,      \* maxPeerWorkloads: a larger peer is drawn as its namespaces
  MaxDrawable,   \* MaxDrawableNodes: a larger graph is refused
  FocusHops      \* DefaultFocusHops

ASSUME ClusterGraphAssumption ==
  /\ MaxPeers \in Nat
  /\ MaxDrawable \in Nat
  /\ FocusHops \in Nat

NsId(ns) == <<"namespace", ns>>
WorkloadId(w) == <<"workload", w>>
AnyId == <<"any", "all">>
HiddenId == <<"cluster", "hidden">>
NoFocus == [node |-> << >>, hidden |-> 0]

Workloads(c) == DOMAIN c.home

\* What a snapshot is sure of.  A workload may be there before its namespace is.
IsCluster(c) ==
  /\ IsFiniteSet(c.namespaces) /\ IsFiniteSet(Workloads(c)) /\ IsFiniteSet(c.allows)
  /\ \A w \in Workloads(c) : c.isolation[w] \subseteq {"ingress", "egress"}
  /\ \A a \in c.allows :
       /\ a.dir \in {"ingress", "egress"} /\ a.kind \in {"allowed", "approximate"}
       /\ a.peer.kind \in {"any", "world", "public", "cidr", "domain", "pods"}
       /\ a.peer.workloads \subseteq Workloads(c) /\ a.peer.namespaces \subseteq c.namespaces
       /\ IsFiniteSet(a.ports)

InScope(q, ns) == q.namespaces = {} \/ ns \in q.namespaces
IsSystem(c, q, ns) == ns \in c.system \ q.expand

\* The node a workload is drawn as.
ClusterNodeId(c, q, w) ==
  IF /\ q.level = "workload"
     /\ InScope(q, c.home[w])
     /\ ~IsSystem(c, q, c.home[w])
  THEN WorkloadId(w) ELSE NsId(c.home[w])

\* The nodes a peer is drawn as.  At workload level a workload of a collapsed
\* namespace is drawn as itself when it is a peer.
PeerNodes(c, q, p) ==
  IF p.kind # "pods" THEN {<<p.kind, p.name>>}
  ELSE IF q.level # "workload" \/ Cardinality(p.workloads) > MaxPeers
            \/ p.workloads = {}
       THEN {NsId(ns) : ns \in p.namespaces \cup {c.home[w] : w \in p.workloads}}
       ELSE {IF InScope(q, c.home[w]) THEN WorkloadId(w) ELSE NsId(c.home[w])
               : w \in p.workloads}

Drawn(c, q) == {w \in Workloads(c) : InScope(q, c.home[w])}

OnlyDNS(ports) == ports # {} /\ \A p \in ports : p[1] = "53"

\* One link per entry and peer node, in the direction traffic flows, and one to
\* or from the any node for a direction no policy isolates.
Links(c, q) ==
  LET Oriented(peer, self, dir, kind, ports) ==
        [source |-> IF dir = "egress" THEN self ELSE peer,
         target |-> IF dir = "egress" THEN peer ELSE self,
         kind |-> kind, ports |-> ports]
  IN (UNION {{Oriented(id, ClusterNodeId(c, q, a.subject), a.dir, a.kind, a.ports)
                : id \in PeerNodes(c, q, a.peer)}
             : a \in {b \in c.allows : b.subject \in Drawn(c, q) /\ b.dir \in c.isolation[b.subject]}})
     \cup
     {Oriented(AnyId, ClusterNodeId(c, q, d[1]), d[2], "default", {})
        : d \in {e \in Drawn(c, q) \X {"ingress", "egress"}
                   : q.includeDefault /\ e[2] \notin c.isolation[e[1]]}}

\* Links of one kind between two nodes are one edge, with every port if one of
\* them has; a link of a node to itself is none.  One link of DNS marks the
\* edge, unless a link with every port came before it: here it comes after.
Edges(links) ==
  LET Of(k) == {l \in links : <<l.source, l.target, l.kind>> = k}
  IN {[source |-> k[1], target |-> k[2], kind |-> k[3],
       ports |-> IF {} \in {l.ports : l \in Of(k)} THEN {} ELSE UNION {l.ports : l \in Of(k)},
       dns |-> \E l \in Of(k) : OnlyDNS(l.ports)]
        : k \in {<<l.source, l.target, l.kind>> : l \in {m \in links : m.source # m.target}}}

Populated(c, ns) == \E w \in Workloads(c) : c.home[w] = ns

\* The namespaces of the namespace view, then whatever is linked or drawn.
NodeIds(c, q, links) ==
  {NsId(ns) : ns \in {n \in c.namespaces : /\ q.level = "namespace"
                                           /\ InScope(q, n)
                                           /\ q.includeEmpty \/ Populated(c, n)}}
  \cup {ClusterNodeId(c, q, w) : w \in Drawn(c, q)}
  \cup {l.source : l \in links} \cup {l.target : l \in links}

\* What can be reached along edges in at most n steps from a set of nodes.
Reached(next(_), from, n) ==
  LET Grow(S) == S \cup UNION {next(i) : i \in S}
      R[k \in 0..n] == IF k = 0 THEN from ELSE Grow(R[k - 1])
  IN R[n]

\* The nodes something outside the cluster can reach.
ReachableFromOutside(ids, edges) ==
  {i \in Reached(LAMBDA j : {e.target : e \in {f \in edges : f.source = j}},
                 {j \in ids : j[1] \in {"any", "world", "public"}}, Cardinality(ids))
     : i[1] \in {"workload", "namespace"}}

WithinHops(edges, start, hops) ==
  Reached(LAMBDA i : {e.target : e \in {f \in edges : f.source = i}}
                     \cup {e.source : e \in {f \in edges : f.target = i}},
          {start}, hops)

\* A node: the workloads it stands for, those no policy selects and the directions
\* in which all are isolated, which is known only if it was drawn for them.
Node(c, q, id, exposed) ==
  LET members == {w \in Drawn(c, q) : ClusterNodeId(c, q, w) = id}
  IN [id |-> id, kind |-> id[1],
      ns |-> IF id[1] = "namespace" THEN id[2]
             ELSE IF id[1] = "workload" THEN c.home[id[2]] ELSE "",
      wkind |-> IF id[1] = "workload" THEN c.wkind[id[2]] ELSE "",
      workloads |-> Cardinality(members),
      unprotected |-> Cardinality({w \in members : c.isolation[w] = {}}),
      known |-> members # {},
      isolation |-> {d \in {"ingress", "egress"} : \A w \in members : d \in c.isolation[w]},
      exposed |-> id \in exposed,
      system |-> id[1] = "namespace" /\ IsSystem(c, q, id[2]),
      hidden |-> FALSE]

\* One node's neighbourhood and a card for the rest, whose count is of nodes; a
\* focus that is not drawn changes nothing.
ApplyFocus(g, focus) ==
  IF ~\E n \in g.nodes : n.id = focus THEN g
  ELSE LET keep == WithinHops(g.edges, focus, FocusHops)
           kept == {n \in g.nodes : n.id \in keep}
           out == Cardinality(g.nodes) - Cardinality(kept)
           card == [id |-> HiddenId, kind |-> "namespace", ns |-> "", wkind |-> "",
                    workloads |-> out, unprotected |-> 0, known |-> FALSE, isolation |-> {}, exposed |-> FALSE,
                    system |-> FALSE, hidden |-> TRUE]
       IN [g EXCEPT !.nodes = IF out > 0 THEN kept \cup {card} ELSE kept,
                    !.edges = {e \in @ : e.source \in keep /\ e.target \in keep},
                    !.focus = [node |-> focus, hidden |-> out]]

\* Past the limit the nodes and edges become nil, which is null on the wire.
Oversized(g) ==
  IF Cardinality(g.nodes) <= MaxDrawable THEN g
  ELSE [g EXCEPT !.nodes = {}, !.edges = {}, !.oversize = Cardinality(g.nodes)]

\* Build for the HTTP handler and the stream.
Build(c, q) ==
  LET links == Links(c, q)
      ids == NodeIds(c, q, links)
      edges == Edges(links)
      exposed == ReachableFromOutside(ids, edges)
      g == [nodes |-> {Node(c, q, id, exposed) : id \in ids},
            edges |-> edges,
            empty |-> {ns \in c.namespaces : /\ q.level = "namespace"
                                             /\ InScope(q, ns)
                                             /\ ~q.includeEmpty
                                             /\ ~Populated(c, ns)},
            focus |-> NoFocus,
            oversize |-> 0]
  IN Oversized(IF q.focus = << >> THEN g ELSE ApplyFocus(g, q.focus))
=============================================================================
