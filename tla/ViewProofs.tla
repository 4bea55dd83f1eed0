----------------------------- MODULE ViewProofs -----------------------------
(***************************************************************************)
(* Proofs about View, for any clusters, limits and number of events: what  *)
(* the server draws of a finite cluster, what the browser leaves of it,    *)
(* and what rail, screens, cards and view token say of the two.  Induction *)
(* is on the least number, or the smallest set, for which a fact fails.    *)
(***************************************************************************)
EXTENDS View, FiniteSetTheorems, SequenceTheorems, WellFoundedInduction, TLAPS

-----------------------------------------------------------------------------
(* A snapshot is finite, and so is what is drawn of it. *)

LEMMA FiniteImage ==
  ASSUME NEW S, IsFiniteSet(S), NEW f
  PROVE  IsFiniteSet({f[x] : x \in S})
<1> DEFINE T == {f[x] : x \in S}
           g == [x \in S |-> f[x]]
<1>1. g \in Surjection(S, T)
  BY DEF Surjection
<1> HIDE DEF T, g
<1>2. IsFiniteSet(T)
  BY <1>1, FS_Surjection
<1> QED BY <1>2 DEF T

\* The links of an entry, and the one of a direction that nothing isolates.
AllowLink(c, q, a, id) ==
  [source |-> IF a.dir = "egress" THEN ClusterNodeId(c, q, a.subject) ELSE id,
   target |-> IF a.dir = "egress" THEN id ELSE ClusterNodeId(c, q, a.subject),
   kind |-> a.kind, ports |-> a.ports]
AllowLinks(c, q, a) == {AllowLink(c, q, a, id) : id \in PeerNodes(c, q, a.peer)}
Heard(c, q) == {b \in c.allows : b.subject \in Drawn(c, q) /\ b.dir \in c.isolation[b.subject]}

OpenLink(c, q, d) ==
  [source |-> IF d[2] = "egress" THEN ClusterNodeId(c, q, d[1]) ELSE AnyId,
   target |-> IF d[2] = "egress" THEN AnyId ELSE ClusterNodeId(c, q, d[1]),
   kind |-> "default", ports |-> {}]
OpenEnds(c, q) ==
  {e \in Drawn(c, q) \X {"ingress", "egress"} : q.includeDefault /\ e[2] \notin c.isolation[e[1]]}

LEMMA LinksAre ==
  ASSUME NEW c, NEW q
  PROVE  Links(c, q) = (UNION {AllowLinks(c, q, a) : a \in Heard(c, q)})
                         \cup {OpenLink(c, q, d) : d \in OpenEnds(c, q)}
BY DEF Links, AllowLinks, AllowLink, Heard, OpenLink, OpenEnds

LEMMA PeersAreFinite ==
  ASSUME NEW c, IsCluster(c), NEW q, NEW a \in c.allows
  PROVE  IsFiniteSet(PeerNodes(c, q, a.peer))
<1> DEFINE p == a.peer
           homes == [w \in p.workloads |-> c.home[w]]
           names == p.namespaces \cup {c.home[w] : w \in p.workloads}
           ids == [ns \in names |-> NsId(ns)]
           own == [w \in p.workloads |-> IF InScope(q, c.home[w]) THEN WorkloadId(w) ELSE NsId(c.home[w])]
<1>1. IsFiniteSet(p.workloads) /\ IsFiniteSet(p.namespaces)
  <2>1. p.workloads \in SUBSET Workloads(c) /\ p.namespaces \in SUBSET c.namespaces
        /\ IsFiniteSet(Workloads(c)) /\ IsFiniteSet(c.namespaces)
    BY DEF IsCluster
  <2> HIDE DEF p
  <2> QED BY <2>1, FS_Subset
<1>2. IsFiniteSet(names)
  <2>1. {c.home[w] : w \in p.workloads} = {homes[w] : w \in p.workloads}
    OBVIOUS
  <2> HIDE DEF p, homes
  <2>2. IsFiniteSet({homes[w] : w \in p.workloads})
    BY <1>1, FiniteImage
  <2>3. IsFiniteSet(p.namespaces \cup {c.home[w] : w \in p.workloads})
    BY <1>1, <2>1, <2>2, FS_Union
  <2> QED BY <2>3
<1>3. IsFiniteSet({ids[ns] : ns \in names}) /\ {ids[ns] : ns \in names} = {NsId(ns) : ns \in names}
  <2>1. {ids[ns] : ns \in names} = {NsId(ns) : ns \in names}
    OBVIOUS
  <2> HIDE DEF names, ids
  <2> QED BY <1>2, <2>1, FiniteImage
<1>4. /\ IsFiniteSet({own[w] : w \in p.workloads})
      /\ {own[w] : w \in p.workloads}
           = {IF InScope(q, c.home[w]) THEN WorkloadId(w) ELSE NsId(c.home[w]) : w \in p.workloads}
  <2>1. {own[w] : w \in p.workloads}
           = {IF InScope(q, c.home[w]) THEN WorkloadId(w) ELSE NsId(c.home[w]) : w \in p.workloads}
    OBVIOUS
  <2> HIDE DEF own, p
  <2>2. IsFiniteSet({own[w] : w \in p.workloads})
    BY <1>1, FiniteImage
  <2> QED BY <2>1, <2>2
<1>5. IsFiniteSet({<<p.kind, p.name>>})
  BY FS_Singleton
<1>6. \/ PeerNodes(c, q, p) = {<<p.kind, p.name>>}
      \/ PeerNodes(c, q, p) = {NsId(ns) : ns \in names}
      \/ PeerNodes(c, q, p) =
           {IF InScope(q, c.home[w]) THEN WorkloadId(w) ELSE NsId(c.home[w]) : w \in p.workloads}
  BY DEF PeerNodes
<1> QED
  <2> HIDE DEF p, names, ids, own
  <2>1. IsFiniteSet(PeerNodes(c, q, p))
    BY <1>3, <1>4, <1>5, <1>6
  <2> QED BY <2>1 DEF p

LEMMA DrawnAreFinite ==
  ASSUME NEW c, IsCluster(c), NEW q
  PROVE  IsFiniteSet(Drawn(c, q))
<1>1. Drawn(c, q) \in SUBSET Workloads(c) /\ IsFiniteSet(Workloads(c))
  BY DEF Drawn, IsCluster
<1> QED BY <1>1, FS_Subset

LEMMA LinksAreFinite ==
  ASSUME NEW c, IsCluster(c), NEW q
  PROVE  IsFiniteSet(Links(c, q))
<1> DEFINE some == [a \in Heard(c, q) |-> AllowLinks(c, q, a)]
           open == [d \in OpenEnds(c, q) |-> OpenLink(c, q, d)]
           A == {some[a] : a \in Heard(c, q)}
           D == {open[d] : d \in OpenEnds(c, q)}
<1>1. ASSUME NEW a \in Heard(c, q) PROVE IsFiniteSet(AllowLinks(c, q, a))
  <2> DEFINE N == PeerNodes(c, q, a.peer)
             of == [id \in N |-> AllowLink(c, q, a, id)]
  <2>1. IsFiniteSet(N)
    BY <1>1, PeersAreFinite DEF Heard
  <2>2. AllowLinks(c, q, a) = {of[id] : id \in N}
    BY DEF AllowLinks
  <2> HIDE DEF N, of
  <2> QED BY <2>1, <2>2, FiniteImage
<1>2. IsFiniteSet(Heard(c, q))
  <2>1. Heard(c, q) \in SUBSET c.allows /\ IsFiniteSet(c.allows)
    BY DEF Heard, IsCluster
  <2> QED BY <2>1, FS_Subset
<1>3. IsFiniteSet(OpenEnds(c, q))
  <2>1. OpenEnds(c, q) \in SUBSET (Drawn(c, q) \X {"ingress", "egress"})
    BY DEF OpenEnds
  <2>2. IsFiniteSet({"ingress"} \cup {"egress"})
    BY FS_Singleton, FS_Union
  <2>3. {"ingress"} \cup {"egress"} = {"ingress", "egress"}
    OBVIOUS
  <2>4. IsFiniteSet(Drawn(c, q) \X {"ingress", "egress"})
    BY <2>2, <2>3, DrawnAreFinite, FS_Product
  <2> QED BY <2>1, <2>4, FS_Subset
<1>4. Links(c, q) = (UNION A) \cup D
  BY LinksAre
<1>5. \A T \in A : IsFiniteSet(T)
  BY <1>1
<1> HIDE DEF some, open
<1>6. IsFiniteSet(A) /\ IsFiniteSet(D)
  BY <1>2, <1>3, FiniteImage
<1> HIDE DEF A, D
<1>7. IsFiniteSet(UNION A)
  BY <1>5, <1>6, FS_UNION
<1>8. IsFiniteSet((UNION A) \cup D)
  BY <1>6, <1>7, FS_Union
<1> QED BY <1>4, <1>8

LEMMA EdgesAreFinite ==
  ASSUME NEW links, IsFiniteSet(links)
  PROVE  IsFiniteSet(Edges(links))
<1> DEFINE Of(k) == {l \in links : <<l.source, l.target, l.kind>> = k}
           E(k) == [source |-> k[1], target |-> k[2], kind |-> k[3],
                    ports |-> IF {} \in {l.ports : l \in Of(k)} THEN {} ELSE UNION {l.ports : l \in Of(k)},
                    dns |-> \E l \in Of(k) : OnlyDNS(l.ports)]
           other == {m \in links : m.source # m.target}
           key == [l \in other |-> <<l.source, l.target, l.kind>>]
           K == {key[l] : l \in other}
           edge1 == [k \in K |-> E(k)]
<1>1. other \in SUBSET links
  OBVIOUS
<1>2. Edges(links) = {E(k) : k \in {<<l.source, l.target, l.kind>> : l \in other}}
  BY DEF Edges
<1>3. K = {<<l.source, l.target, l.kind>> : l \in other}
  OBVIOUS
<1>4. {edge1[k] : k \in K} = {E(k) : k \in K}
  OBVIOUS
<1> HIDE DEF other, key, edge1, E
<1>5. IsFiniteSet(K)
  BY <1>1, FS_Subset, FiniteImage
<1> HIDE DEF K
<1>6. IsFiniteSet({edge1[k] : k \in K})
  BY <1>5, FiniteImage
<1> QED BY <1>2, <1>3, <1>4, <1>6

LEMMA IdsAreFinite ==
  ASSUME NEW c, IsCluster(c), NEW q
  PROVE  IsFiniteSet(NodeIds(c, q, Links(c, q)))
<1> DEFINE links == Links(c, q)
           names == {n \in c.namespaces : /\ q.level = "namespace"
                                          /\ InScope(q, n)
                                          /\ q.includeEmpty \/ Populated(c, n)}
           drawn == Drawn(c, q)
           f1 == [ns \in names |-> NsId(ns)]
           f2 == [w \in drawn |-> ClusterNodeId(c, q, w)]
           f3 == [l \in links |-> l.source]
           f4 == [l \in links |-> l.target]
           S1 == {f1[x] : x \in names}
           S2 == {f2[x] : x \in drawn}
           S3 == {f3[x] : x \in links}
           S4 == {f4[x] : x \in links}
<1>1. IsFiniteSet(links)
  BY LinksAreFinite
<1>2. names \in SUBSET c.namespaces /\ IsFiniteSet(c.namespaces)
  BY DEF IsCluster
<1>3. IsFiniteSet(drawn)
  BY DrawnAreFinite
<1>4. NodeIds(c, q, links) = S1 \cup S2 \cup S3 \cup S4
  <2>1. S1 = {NsId(x) : x \in names} /\ S2 = {ClusterNodeId(c, q, w) : w \in drawn}
        /\ S3 = {l.source : l \in links} /\ S4 = {l.target : l \in links}
    OBVIOUS
  <2>2. NodeIds(c, q, links) = {NsId(x) : x \in names} \cup {ClusterNodeId(c, q, w) : w \in drawn}
                                 \cup {l.source : l \in links} \cup {l.target : l \in links}
    BY DEF NodeIds
  <2> HIDE DEF S1, S2, S3, S4
  <2> QED BY <2>1, <2>2
<1> HIDE DEF names, drawn, links, f1, f2, f3, f4
<1>5. IsFiniteSet(S1) /\ IsFiniteSet(S2) /\ IsFiniteSet(S3) /\ IsFiniteSet(S4)
  <2>1. IsFiniteSet(names)
    BY <1>2, FS_Subset
  <2>2. IsFiniteSet(S1)
    BY <2>1, FiniteImage
  <2>3. IsFiniteSet(S2)
    BY <1>3, FiniteImage
  <2>4. IsFiniteSet(S3)
    BY <1>1, FiniteImage
  <2>5. IsFiniteSet(S4)
    BY <1>1, FiniteImage
  <2> HIDE DEF S1, S2, S3, S4
  <2> QED BY <2>2, <2>3, <2>4, <2>5
<1> HIDE DEF S1, S2, S3, S4
<1>6. IsFiniteSet(S1 \cup S2)
  BY <1>5, FS_Union
<1>7. IsFiniteSet(S1 \cup S2 \cup S3)
  BY <1>5, <1>6, FS_Union
<1>8. IsFiniteSet(S1 \cup S2 \cup S3 \cup S4)
  BY <1>5, <1>7, FS_Union
<1> QED BY <1>4, <1>8 DEF links

-----------------------------------------------------------------------------
(* What Build returns. *)

Ids(c, q) == NodeIds(c, q, Links(c, q))
Exposed(c, q) == ReachableFromOutside(Ids(c, q), Edges(Links(c, q)))

\* The graph before it is narrowed down to a focus and measured.
Whole(c, q) ==
  [nodes |-> {Node(c, q, id, Exposed(c, q)) : id \in Ids(c, q)},
   edges |-> Edges(Links(c, q)),
   empty |-> {ns \in c.namespaces : /\ q.level = "namespace"
                                    /\ InScope(q, ns)
                                    /\ ~q.includeEmpty
                                    /\ ~Populated(c, ns)},
   focus |-> NoFocus,
   oversize |-> 0]

Focused(c, q) == IF q.focus = << >> THEN Whole(c, q) ELSE ApplyFocus(Whole(c, q), q.focus)

LEMMA BuildIs ==
  ASSUME NEW c, NEW q
  PROVE  Build(c, q) = Oversized(Focused(c, q))
BY DEF Build, Focused, Whole, Ids, Exposed

\* The card that stands for what a focus leaves out.
HiddenCard(out) ==
  [id |-> HiddenId, kind |-> "namespace", ns |-> "", wkind |-> "",
   workloads |-> out, unprotected |-> 0, known |-> FALSE, isolation |-> {}, exposed |-> FALSE,
   system |-> FALSE, hidden |-> TRUE]

Members(c, q, id) == {w \in Drawn(c, q) : ClusterNodeId(c, q, w) = id}

\* The fields of a node.
LEMMA NodeFields ==
  ASSUME NEW c, NEW q, NEW id, NEW exposed, NEW n, n = Node(c, q, id, exposed)
  PROVE  /\ n.id = id /\ n.kind = id[1]
         /\ n.ns = (IF id[1] = "namespace" THEN id[2] ELSE IF id[1] = "workload" THEN c.home[id[2]] ELSE "")
         /\ n.workloads = Cardinality(Members(c, q, id))
         /\ n.unprotected = Cardinality({w \in Members(c, q, id) : c.isolation[w] = {}})
         /\ n.known <=> Members(c, q, id) # {}
         /\ n.isolation = {d \in {"ingress", "egress"} : \A w \in Members(c, q, id) : d \in c.isolation[w]}
         /\ n.system <=> id[1] = "namespace" /\ IsSystem(c, q, id[2])
         /\ n.hidden = FALSE
BY DEF Node, Members

\* A focus leaves nodes and edges out, and its card is the only one it adds.
LEMMA FocusFields ==
  ASSUME NEW c, NEW q, NEW focus, NEW g, g = ApplyFocus(Whole(c, q), focus)
  PROVE  /\ \/ g = Whole(c, q)
            \/ /\ \E n \in Whole(c, q).nodes : n.id = focus
               /\ \E out : g.focus = [node |-> focus, hidden |-> out]
         /\ \E out : g.nodes \subseteq Whole(c, q).nodes \cup {HiddenCard(out)}
         /\ g.edges \subseteq Whole(c, q).edges
         /\ g.oversize = 0
<1> DEFINE w == Whole(c, q)
           keep == WithinHops(w.edges, focus, FocusHops)
           kept == {n \in w.nodes : n.id \in keep}
           out == Cardinality(w.nodes) - Cardinality(kept)
<1>1. w = [nodes |-> w.nodes, edges |-> w.edges, empty |-> w.empty, focus |-> NoFocus, oversize |-> 0]
  BY DEF Whole
<1>2. CASE ~\E n \in w.nodes : n.id = focus
  BY <1>1, <1>2 DEF ApplyFocus
<1>3. CASE \E n \in w.nodes : n.id = focus
  <2>1. g = [w EXCEPT !.nodes = IF out > 0 THEN kept \cup {HiddenCard(out)} ELSE kept,
                      !.edges = {e \in @ : e.source \in keep /\ e.target \in keep},
                      !.focus = [node |-> focus, hidden |-> out]]
    BY <1>3 DEF ApplyFocus, HiddenCard
  <2> HIDE DEF w, keep, out
  <2>2. /\ g.nodes = (IF out > 0 THEN kept \cup {HiddenCard(out)} ELSE kept)
        /\ g.edges = {e \in w.edges : e.source \in keep /\ e.target \in keep}
        /\ g.focus = [node |-> focus, hidden |-> out] /\ g.oversize = 0
    BY <1>1, <2>1
  <2>3. g.nodes \subseteq w.nodes \cup {HiddenCard(out)}
    BY <2>2
  <2> QED BY <1>3, <2>2, <2>3 DEF w
<1> QED BY <1>2, <1>3

LEMMA FocusedFields ==
  ASSUME NEW c, NEW q, NEW g, g = Focused(c, q)
  PROVE  /\ g.focus = NoFocus => g = Whole(c, q)
         /\ \E out : g.nodes \subseteq Whole(c, q).nodes \cup {HiddenCard(out)}
         /\ g.edges \subseteq Whole(c, q).edges
         /\ g.oversize = 0
<1>1. CASE q.focus = << >>
  BY <1>1 DEF Focused, Whole
<1>2. CASE q.focus # << >>
  <2>1. g = ApplyFocus(Whole(c, q), q.focus)
    BY <1>2 DEF Focused
  <2>2. \A out : [node |-> q.focus, hidden |-> out] # NoFocus
    <3> SUFFICES ASSUME NEW out, [node |-> q.focus, hidden |-> out] = NoFocus PROVE FALSE
      OBVIOUS
    <3>1. [node |-> q.focus, hidden |-> out].node = NoFocus.node
      OBVIOUS
    <3> QED BY <3>1, <1>2 DEF NoFocus
  <2> DEFINE focus == q.focus
  <2> HIDE DEF focus
  <2>3. g = ApplyFocus(Whole(c, q), focus)
    BY <2>1 DEF focus
  <2>4. /\ \/ g = Whole(c, q)
           \/ \E out : g.focus = [node |-> focus, hidden |-> out]
        /\ \E out : g.nodes \subseteq Whole(c, q).nodes \cup {HiddenCard(out)}
        /\ g.edges \subseteq Whole(c, q).edges
        /\ g.oversize = 0
    BY <2>3, FocusFields
  <2> QED BY <2>2, <2>4 DEF focus
<1> QED BY <1>1, <1>2

LEMMA FocusedIsFinite ==
  ASSUME NEW c, IsCluster(c), NEW q
  PROVE  IsFiniteSet(Focused(c, q).nodes)
<1> DEFINE ids == Ids(c, q)
           e == Exposed(c, q)
           of == [id \in ids |-> Node(c, q, id, e)]
           W == {of[id] : id \in ids}
<1>1. Whole(c, q).nodes = W
  BY DEF Whole
<1>2. IsFiniteSet(ids)
  BY IdsAreFinite DEF Ids
<1> HIDE DEF ids, of
<1>3. IsFiniteSet(W)
  BY <1>2, FiniteImage
<1> HIDE DEF W
<1>4. PICK out : Focused(c, q).nodes \in SUBSET (W \cup {HiddenCard(out)})
  BY <1>1, FocusedFields
<1>5. IsFiniteSet(W \cup {HiddenCard(out)})
  BY <1>3, FS_Singleton, FS_Union
<1> QED BY <1>4, <1>5, FS_Subset

LEMMA BuildFields ==
  ASSUME NEW c, IsCluster(c), NEW q, NEW g, g = Build(c, q)
  PROVE  /\ \E out : g.nodes \subseteq Whole(c, q).nodes \cup {HiddenCard(out)}
         /\ g.edges \subseteq Whole(c, q).edges
         /\ ~(g.oversize > 0) => g = Focused(c, q)
<1> DEFINE f == Focused(c, q)
<1>1. g = Oversized(f)
  BY BuildIs
<1>2. /\ f.edges \subseteq Whole(c, q).edges
      /\ \E out : f.nodes \subseteq Whole(c, q).nodes \cup {HiddenCard(out)}
  BY FocusedFields
<1>3. f = [nodes |-> f.nodes, edges |-> f.edges, empty |-> f.empty, focus |-> f.focus, oversize |-> f.oversize]
  BY DEF Focused, ApplyFocus, Whole
<1>4. Cardinality(f.nodes) \in Nat
  BY FocusedIsFinite, FS_CardinalityType
<1> HIDE DEF f
<1>5. CASE Cardinality(f.nodes) <= MaxDrawable
  <2>1. g = f
    BY <1>1, <1>5 DEF Oversized
  <2> QED BY <2>1, <1>2 DEF f
<1>6. CASE ~(Cardinality(f.nodes) <= MaxDrawable)
  <2>1. g = [f EXCEPT !.nodes = {}, !.edges = {}, !.oversize = Cardinality(f.nodes)]
    BY <1>1, <1>6 DEF Oversized
  <2>2. g.nodes = {} /\ g.edges = {} /\ g.oversize = Cardinality(f.nodes)
    BY <1>3, <2>1
  <2>3. Cardinality(f.nodes) > 0
    BY <1>4, <1>6, ClusterGraphAssumption
  <2> QED BY <2>2, <2>3
<1> QED BY <1>5, <1>6

-----------------------------------------------------------------------------
(* Which nodes there are. *)

\* An id that a query can meet; a workload's only if it is drawn as such.
Known(c, q, i) ==
  \/ \E w \in Workloads(c) : i = WorkloadId(w) /\ q.level = "workload" /\ InScope(q, c.home[w])
  \/ \E ns \in c.namespaces \cup {c.home[w] : w \in Workloads(c)} : i = NsId(ns)
  \/ i[1] \in {"any", "world", "public", "cidr", "domain"}

LEMMA CardIsKnown ==
  ASSUME NEW c, NEW q, NEW w \in Workloads(c)
  PROVE  Known(c, q, ClusterNodeId(c, q, w))
BY DEF Known, ClusterNodeId

LEMMA PeerIsKnown ==
  ASSUME NEW c, IsCluster(c), NEW q, NEW a \in c.allows, NEW id \in PeerNodes(c, q, a.peer)
  PROVE  Known(c, q, id)
<1> DEFINE p == a.peer
<1>1. /\ p.kind \in {"any", "world", "public", "cidr", "domain", "pods"}
      /\ p.workloads \subseteq Workloads(c) /\ p.namespaces \subseteq c.namespaces
      /\ id \in PeerNodes(c, q, p)
  BY DEF IsCluster
<1> HIDE DEF p
<1>2. CASE p.kind # "pods"
  <2>1. id = <<p.kind, p.name>>
    BY <1>1, <1>2 DEF PeerNodes
  <2> QED BY <1>1, <1>2, <2>1 DEF Known
<1>3. CASE p.kind = "pods"
  <2>1. \/ \E ns \in p.namespaces \cup {c.home[w] : w \in p.workloads} : id = NsId(ns)
        \/ \E w \in p.workloads : \/ id = WorkloadId(w) /\ q.level = "workload" /\ InScope(q, c.home[w])
                                  \/ id = NsId(c.home[w])
    BY <1>1, <1>3 DEF PeerNodes
  <2> QED BY <1>1, <2>1 DEF Known
<1> QED BY <1>2, <1>3

LEMMA IdIsKnown ==
  ASSUME NEW c, IsCluster(c), NEW q, NEW id \in Ids(c, q)
  PROVE  Known(c, q, id)
<1>1. Drawn(c, q) \subseteq Workloads(c)
  BY DEF Drawn
<1>2. ASSUME NEW l \in Links(c, q) PROVE Known(c, q, l.source) /\ Known(c, q, l.target)
  <2>1. CASE \E a \in Heard(c, q) : l \in AllowLinks(c, q, a)
    <3>1. PICK a \in Heard(c, q) : l \in AllowLinks(c, q, a)
      BY <2>1
    <3>2. PICK i \in PeerNodes(c, q, a.peer) : l = AllowLink(c, q, a, i)
      BY <3>1 DEF AllowLinks
    <3>3. a \in c.allows /\ a.subject \in Workloads(c)
      BY <1>1 DEF Heard
    <3>4. Known(c, q, i) /\ Known(c, q, ClusterNodeId(c, q, a.subject))
      BY <3>3, CardIsKnown, PeerIsKnown
    <3>5. {l.source, l.target} \subseteq {i, ClusterNodeId(c, q, a.subject)}
      BY <3>2 DEF AllowLink
    <3> QED BY <3>4, <3>5
  <2>2. CASE \E d \in OpenEnds(c, q) : l = OpenLink(c, q, d)
    <3>1. PICK d \in OpenEnds(c, q) : l = OpenLink(c, q, d)
      BY <2>2
    <3>2. d[1] \in Workloads(c)
      BY <1>1 DEF OpenEnds
    <3>3. Known(c, q, AnyId) /\ Known(c, q, ClusterNodeId(c, q, d[1]))
      BY <3>2, CardIsKnown DEF Known, AnyId
    <3>4. {l.source, l.target} \subseteq {AnyId, ClusterNodeId(c, q, d[1])}
      BY <3>1 DEF OpenLink
    <3> QED BY <3>3, <3>4
  <2> QED BY <2>1, <2>2, LinksAre
<1>3. \/ \E ns \in c.namespaces : id = NsId(ns)
      \/ \E w \in Drawn(c, q) : id = ClusterNodeId(c, q, w)
      \/ \E l \in Links(c, q) : id = l.source \/ id = l.target
  BY DEF Ids, NodeIds
<1>4. CASE \E ns \in c.namespaces : id = NsId(ns)
  BY <1>4 DEF Known
<1>5. CASE \E w \in Drawn(c, q) : id = ClusterNodeId(c, q, w)
  BY <1>1, <1>5, CardIsKnown
<1> QED BY <1>2, <1>3, <1>4, <1>5

\* A card that can be opened is of a namespace of the cluster.
LEMMA SystemCards ==
  ASSUME NEW c, IsCluster(c), NEW q, NEW n \in Build(c, q).nodes, n.system
  PROVE  n.ns \in c.namespaces \cup {c.home[w] : w \in Workloads(c)}
<1>1. n \in Whole(c, q).nodes \/ \E out : n = HiddenCard(out)
  BY BuildFields
<1>2. ~\E out : n = HiddenCard(out)
  <2>1. \A out : ~HiddenCard(out).system
    BY DEF HiddenCard
  <2> QED BY <2>1
<1>3. PICK id \in Ids(c, q) : n = Node(c, q, id, Exposed(c, q))
  BY <1>1, <1>2 DEF Whole
<1>4. id[1] = "namespace" /\ n.ns = id[2]
  <2> DEFINE e == Exposed(c, q)
  <2>1. n = Node(c, q, id, e)
    BY <1>3
  <2> HIDE DEF e
  <2>2. /\ n.system <=> id[1] = "namespace" /\ IsSystem(c, q, id[2])
        /\ n.ns = (IF id[1] = "namespace" THEN id[2] ELSE IF id[1] = "workload" THEN c.home[id[2]] ELSE "")
    BY <2>1, NodeFields
  <2>3. n.system
    OBVIOUS
  <2>4. id[1] = "namespace"
    BY <2>2, <2>3, Zenon
  <2> QED BY <2>2, <2>4
<1>5. Known(c, q, id)
  BY IdIsKnown
<1> QED BY <1>4, <1>5 DEF Known, WorkloadId, NsId

-----------------------------------------------------------------------------
(* The graph that is held, and what the viewer's state ranges over. *)

\* What Deliver takes in of a State and a query.
Answer(r, q) ==
  LET g == Build(Clusters[r], q)
  IN [nodes |-> g.nodes, edges |-> g.edges, empty |-> g.empty, focus |-> g.focus,
      oversize |-> g.oversize, query |-> q, rev |-> r]

\* The graph is what a State answered to a query, and too large only when the page is gone.
HeldInv ==
  /\ rev \in 1..Len(Clusters)
  /\ graph = NoGraph \/ \E r \in 1..rev : \E q : graph = Answer(r, q)
  /\ crashed \/ ~(graph.oversize > 0)

Queries ==
  [level : {"namespace", "workload"}, namespaces : SUBSET Namespaces, includeDefault : BOOLEAN,
   focus : {query.focus}, expand : SUBSET Namespaces, includeEmpty : BOOLEAN]
Filterings ==
  [edgeKinds : SUBSET EdgeKinds, workloadKinds : {filters.workloadKinds}, hideDNS : BOOLEAN,
   onlyUnprotected : BOOLEAN, hideIsolatedNodes : BOOLEAN, onlyExposed : BOOLEAN]

\* What is asked for and what is hidden, and their agreement on the default edges.
AskedInv ==
  /\ query \in Queries /\ filters \in Filterings
  /\ query.includeDefault <=> "default" \in filters.edgeKinds

\* The selection, the dialogs and the bound.
ShownInv ==
  /\ edge # << >> => node = << >> /\ edgeAt
  /\ edgeAt \in BOOLEAN /\ palette \in BOOLEAN /\ simulate \in BOOLEAN /\ crashed \in BOOLEAN
  /\ clicks \in 0..MaxClicks

TypeInv == HeldInv /\ AskedInv /\ ShownInv

LEMMA AnswerFields ==
  ASSUME NEW r, NEW q, NEW g, g = Answer(r, q)
  PROVE  /\ g.query = q /\ g.rev = r
         /\ g.nodes = Build(Clusters[r], q).nodes /\ g.edges = Build(Clusters[r], q).edges
         /\ g.focus = Build(Clusters[r], q).focus /\ g.oversize = Build(Clusters[r], q).oversize
BY DEF Answer

LEMMA HeldRev ==
  ASSUME HeldInv
  PROVE  graph.rev \in 0..rev /\ (graph.rev = 0 => graph = NoGraph)
<1>1. CASE graph = NoGraph
  BY <1>1 DEF NoGraph, HeldInv
<1>2. CASE \E r \in 1..rev : \E q : graph = Answer(r, q)
  BY <1>2, AnswerFields DEF HeldInv
<1> QED BY <1>1, <1>2 DEF HeldInv

\* A card that opens is of a namespace of some State.
LEMMA CardsToOpen ==
  ASSUME HeldInv, NEW n \in graph.nodes, n.system
  PROVE  n.ns \in Namespaces
<1>1. PICK r \in 1..rev : \E q : graph = Answer(r, q)
  BY DEF HeldInv, NoGraph
<1>2. PICK q : graph = Answer(r, q)
  BY <1>1
<1> DEFINE c == Clusters[r]
<1>3. r \in DOMAIN Clusters /\ IsCluster(c)
  BY ViewAssumption DEF HeldInv
<1>4. n \in Build(c, q).nodes
  BY <1>2, AnswerFields
<1> HIDE DEF c
<1>5. n.ns \in c.namespaces \cup {c.home[w] : w \in Workloads(c)}
  BY <1>3, <1>4, SystemCards
<1>6. \A d : d \in {Clusters[i] : i \in DOMAIN Clusters} =>
        d.namespaces \cup {d.home[w] : w \in Workloads(d)} \subseteq Namespaces
  BY DEF Namespaces
<1>7. c \in {Clusters[i] : i \in DOMAIN Clusters}
  BY <1>3 DEF c
<1> QED BY <1>5, <1>6, <1>7

LEMMA GraphIsARecord ==
  ASSUME HeldInv
  PROVE  graph = [nodes |-> graph.nodes, edges |-> graph.edges, empty |-> graph.empty, focus |-> graph.focus,
                  oversize |-> graph.oversize, query |-> graph.query, rev |-> graph.rev]
BY DEF HeldInv, NoGraph, Answer

\* What filters leave is of the graph.
LEMMA FilterFields ==
  ASSUME NEW g, NEW f, NEW h, h = ApplyFilters(g, f),
         g = [nodes |-> g.nodes, edges |-> g.edges, empty |-> g.empty, focus |-> g.focus,
              oversize |-> g.oversize, query |-> g.query, rev |-> g.rev]
  PROVE  /\ h.nodes \subseteq g.nodes /\ \A n \in h.nodes : KeepsNode(f, n)
         /\ h.edges \subseteq g.edges
<1> DEFINE kept == {n \in g.nodes : KeepsNode(f, n)}
           edges == {e \in g.edges : KeepsEdge(f, {n.id : n \in kept}, e)}
           connected == {e.source : e \in edges} \cup {e.target : e \in edges}
           nodes == IF f.hideIsolatedNodes THEN {n \in kept : n.id \in connected} ELSE kept
<1>1. h = [g EXCEPT !.nodes = nodes, !.edges = edges]
  BY DEF ApplyFilters
<1>2. nodes \subseteq kept /\ edges \subseteq g.edges
  OBVIOUS
<1> HIDE DEF nodes, edges
<1>3. h.nodes = nodes /\ h.edges = edges
  BY <1>1
<1> QED BY <1>2, <1>3

LEMMA FilteredIsDrawn ==
  ASSUME HeldInv
  PROVE  Filtered.nodes \subseteq graph.nodes /\ Filtered.edges \subseteq graph.edges
BY GraphIsARecord, FilterFields DEF Filtered

\* Only a State, an answer and a new page change the graph.
LEMMA ClicksKeepTheGraph ==
  ASSUME RailEvent \/ SelectionEvent \/ DialogEvent
  PROVE  Click
<1>1. CASE RailEvent
  BY <1>1 DEF RailEvent, SetLevel, RailNamespace, ClearNamespaces, SetEdgeKind, SetWorkloadKind, ToggleFilter,
              ClearFilters, ShowEmpty, ExpandAll, CollapseAgain, ClearFocus, Behind
<1>2. CASE SelectionEvent
  BY <1>2 DEF SelectionEvent, SelectNode, PaletteNode, PaletteSimulateFrom, SelectEdge, ClearSelection,
              CloseInspector, PopoverOpenNode, FocusKey, Behind, Choose
<1>3. CASE DialogEvent
  BY <1>3 DEF DialogEvent, OpenPalette, OpenSimulate, CloseDialog, PaletteNamespace, PaletteSimulate, Choose
<1> QED BY <1>1, <1>2, <1>3

LEMMA DeliverIs ==
  ASSUME Deliver, HeldInv
  PROVE  graph' = Answer(rev, query) /\ (crashed' \/ ~(graph'.oversize > 0))
<1>1. graph' = Answer(rev, query)
  BY DEF Deliver, Answer, Cluster
<1>2. graph'.oversize = Build(Clusters[rev], query).oversize
  BY <1>1, AnswerFields
<1>3. crashed' = (Build(Clusters[rev], query).oversize > 0)
  BY DEF Deliver, Cluster
<1> QED BY <1>1, <1>2, <1>3

LEMMA HeldStep ==
  ASSUME HeldInv, [Next]_vars
  PROVE  HeldInv'
<1>1. CASE RailEvent \/ SelectionEvent \/ DialogEvent \/ UNCHANGED vars
  BY <1>1, ClicksKeepTheGraph DEF HeldInv, Click, vars
<1>2. CASE Push
  <2>1. rev' = rev + 1 /\ rev' \in 1..Len(Clusters) /\ rev \in 1..rev' /\ 1..rev \subseteq 1..rev'
    BY <1>2, ViewAssumption DEF Push, HeldInv
  <2> QED BY <1>2, <2>1 DEF Push, HeldInv
<1>3. CASE Deliver
  <2>1. graph' = Answer(rev, query) /\ (crashed' \/ ~(graph'.oversize > 0))
    BY <1>3, DeliverIs
  <2>2. rev' = rev /\ rev \in 1..rev
    BY <1>3 DEF Deliver, HeldInv
  <2> QED BY <2>1, <2>2 DEF HeldInv
<1>4. CASE TryAgain
  BY <1>4 DEF TryAgain, HeldInv, NoGraph
<1> QED BY <1>1, <1>2, <1>3, <1>4 DEF Next

-----------------------------------------------------------------------------
(* What is asked for and what is hidden. *)

LEMMA ToggledIn ==
  ASSUME NEW S, NEW T, S \subseteq T, NEW x \in T
  PROVE  Toggled(S, x) \subseteq T
BY DEF Toggled

LEMMA RailAsks ==
  ASSUME HeldInv, AskedInv, RailEvent
  PROVE  AskedInv'
<1> USE DEF AskedInv, Queries, Filterings
<1>1. ASSUME NEW l \in {"namespace", "workload"}, SetLevel(l) PROVE AskedInv'
  BY <1>1 DEF SetLevel, Ask
<1>2. ASSUME NEW ns \in Namespaces, RailNamespace(ns) PROVE AskedInv'
  BY <1>2, ToggledIn DEF RailNamespace, ToggleNamespace, Ask
<1>3. CASE ClearNamespaces
  BY <1>3 DEF ClearNamespaces, Ask
<1>4. ASSUME NEW k \in EdgeKinds, SetEdgeKind(k) PROVE AskedInv'
  <2> DEFINE on == IF k = "default" THEN ~query.includeDefault ELSE k \notin filters.edgeKinds
             kinds == IF on THEN filters.edgeKinds \cup {k} ELSE filters.edgeKinds \ {k}
             includes == IF k = "default" THEN on ELSE query.includeDefault
  <2>1. filters' = [filters EXCEPT !.edgeKinds = kinds] /\ query' = [query EXCEPT !.includeDefault = includes]
    BY <1>4 DEF SetEdgeKind
  <2>2. kinds \subseteq EdgeKinds /\ on \in BOOLEAN
    OBVIOUS
  <2>3. includes \in BOOLEAN
    OBVIOUS
  <2>4. includes <=> "default" \in kinds
    OBVIOUS
  <2> HIDE DEF on, kinds, includes
  <2> QED BY <2>1, <2>2, <2>3, <2>4
<1>5. ASSUME NEW k, SetWorkloadKind(k) PROVE AskedInv'
  BY <1>5 DEF SetWorkloadKind, Hide
<1>6. ASSUME NEW b \in {"hideDNS", "onlyUnprotected", "hideIsolatedNodes", "onlyExposed"}, ToggleFilter(b)
      PROVE AskedInv'
  BY <1>6 DEF ToggleFilter, Hide
<1>7. ASSUME ClearFilters(Reset(query)) PROVE AskedInv'
  BY <1>7 DEF ClearFilters, Reset, DefaultFilters, EdgeKinds
<1>8. ASSUME ClearFilters(ShowAll(query)) PROVE AskedInv'
  BY <1>8 DEF ClearFilters, ShowAll, DefaultFilters, EdgeKinds
<1>9. CASE ShowEmpty \/ CollapseAgain \/ ClearFocus
  BY <1>9 DEF ShowEmpty, CollapseAgain, ClearFocus, Ask
<1>10. CASE ExpandAll
  <2>1. SystemNamespaces \subseteq Namespaces
    BY CardsToOpen DEF SystemNamespaces
  <2> QED BY <1>10, <2>1 DEF ExpandAll, Ask
<1> QED BY <1>1, <1>2, <1>3, <1>4, <1>5, <1>6, <1>7, <1>8, <1>9, <1>10 DEF RailEvent

LEMMA SelectionAsks ==
  ASSUME HeldInv, AskedInv, SelectionEvent
  PROVE  AskedInv'
<1> USE DEF AskedInv, Queries, Filterings
<1>1. ASSUME NEW n \in Filtered.nodes, SelectNode(n) PROVE AskedInv'
  <2>1. CASE n.system
    <3>1. n.ns \in Namespaces
      BY <1>1, <2>1, FilteredIsDrawn, CardsToOpen
    <3> QED BY <1>1, <2>1, <3>1 DEF SelectNode, Ask
  <2>2. CASE ~n.system
    BY <1>1, <2>2 DEF SelectNode
  <2> QED BY <2>1, <2>2
<1>2. CASE FocusKey
  BY <1>2 DEF FocusKey, Ask
<1>3. CASE UNCHANGED <<query, filters>>
  BY <1>3
<1> QED
  BY <1>1, <1>2, <1>3
  DEF SelectionEvent, PaletteNode, PaletteSimulateFrom, SelectEdge, ClearSelection, CloseInspector, PopoverOpenNode

LEMMA AskedStep ==
  ASSUME HeldInv, AskedInv, [Next]_vars
  PROVE  AskedInv'
<1>1. CASE DialogEvent
  <2>1. ASSUME NEW ns \in Namespaces, PaletteNamespace(ns) PROVE AskedInv'
    BY <2>1, ToggledIn DEF PaletteNamespace, ToggleNamespace, Ask, AskedInv, Queries, Filterings
  <2>2. CASE UNCHANGED <<query, filters>>
    BY <2>2 DEF AskedInv, Queries, Filterings
  <2> QED BY <1>1, <2>1, <2>2 DEF DialogEvent, OpenPalette, OpenSimulate, CloseDialog, PaletteSimulate
<1>2. CASE TryAgain
  BY <1>2 DEF TryAgain, AskedInv, Queries, Filterings, FirstQuery, DefaultFilters, EdgeKinds
<1>3. CASE UNCHANGED <<query, filters>>
  BY <1>3 DEF AskedInv, Queries, Filterings
<1> QED BY <1>1, <1>2, <1>3, RailAsks, SelectionAsks DEF Next, Push, Deliver, vars

-----------------------------------------------------------------------------
(* The selection and the dialogs. *)

LEMMA ShownStep ==
  ASSUME HeldInv, ShownInv, [Next]_vars
  PROVE  ShownInv'
<1>1. ASSUME Click PROVE clicks' \in 0..MaxClicks /\ crashed' = crashed
  BY <1>1, ViewAssumption DEF Click, ShownInv
<1> USE DEF ShownInv
<1>2. CASE RailEvent
  <2>1. UNCHANGED <<selection, dialogs>>
    BY <1>2 DEF RailEvent, SetLevel, RailNamespace, ToggleNamespace, ClearNamespaces, SetEdgeKind, SetWorkloadKind,
                ToggleFilter, ClearFilters, ShowEmpty, ExpandAll, CollapseAgain, ClearFocus, Behind, Ask, Hide
  <2> QED BY <1>1, <1>2, <2>1, ClicksKeepTheGraph DEF selection, dialogs
<1>3. CASE SelectionEvent
  <2>1. clicks' \in 0..MaxClicks /\ crashed' = crashed
    BY <1>1, <1>3, ClicksKeepTheGraph
  <2>2. /\ edge' # << >> => node' = << >> /\ edgeAt'
        /\ edgeAt' \in BOOLEAN /\ palette' \in BOOLEAN /\ simulate' \in BOOLEAN
    BY <1>3 DEF SelectionEvent, SelectNode, PaletteNode, PaletteSimulateFrom, SelectEdge, ClearSelection,
                CloseInspector, PopoverOpenNode, FocusKey, Behind, Choose, Ask, Select, selection, dialogs
  <2> QED BY <2>1, <2>2
<1>4. CASE DialogEvent
  <2>1. clicks' \in 0..MaxClicks /\ crashed' = crashed
    BY <1>1, <1>4, ClicksKeepTheGraph
  <2>2. /\ UNCHANGED selection \/ Select(<< >>, << >>, FALSE)
        /\ palette' \in BOOLEAN /\ simulate' \in BOOLEAN
    BY <1>4 DEF DialogEvent, OpenPalette, OpenSimulate, CloseDialog, PaletteNamespace, ToggleNamespace, Ask,
                PaletteSimulate, Choose
  <2>3. CASE UNCHANGED selection
    BY <2>1, <2>2, <2>3 DEF selection
  <2>4. CASE Select(<< >>, << >>, FALSE)
    BY <2>1, <2>2, <2>4 DEF Select
  <2> QED BY <2>2, <2>3, <2>4
<1>5. CASE Push
  BY <1>5 DEF Push, selection, dialogs
<1>6. CASE Deliver
  <2>1. crashed' \in BOOLEAN
    BY <1>6 DEF Deliver
  <2> QED BY <1>6, <2>1 DEF Deliver, selection, dialogs
<1>7. CASE TryAgain
  BY <1>7 DEF TryAgain, Select
<1>8. CASE UNCHANGED vars
  BY <1>8 DEF vars
<1> QED BY <1>2, <1>3, <1>4, <1>5, <1>6, <1>7, <1>8 DEF Next

LEMMA TypeInvHolds ==
  Spec => []TypeInv
<1>1. Init => TypeInv
  <2> SUFFICES ASSUME Init PROVE TypeInv
    OBVIOUS
  <2>1. HeldInv
    BY ViewAssumption DEF Init, HeldInv, NoGraph
  <2>2. AskedInv
    BY DEF Init, AskedInv, Queries, Filterings, FirstQuery, DefaultFilters, EdgeKinds
  <2>3. ShownInv
    <3>1. /\ clicks = 0 /\ edge = << >> /\ edgeAt = FALSE /\ palette = FALSE
          /\ simulate = FALSE /\ crashed = FALSE
      BY DEF Init
    <3>2. clicks \in 0..MaxClicks
      BY <3>1, ViewAssumption
    <3> QED BY <3>1, <3>2 DEF ShownInv
  <2> QED BY <2>1, <2>2, <2>3 DEF TypeInv
<1>2. TypeInv /\ [Next]_vars => TypeInv'
  BY HeldStep, AskedStep, ShownStep DEF TypeInv
<1> QED BY <1>1, <1>2, PTL DEF Spec

\* The state of App.tsx is well formed: only namespaces that some State has are
\* chosen or expanded, the box of the default connections agrees with the query
\* (FilterRail.tsx), and an edge is selected only with its popover and no node.
THEOREM TypeCorrect ==
  Spec => []TypeOK
<1>1. TypeInv => TypeOK
  <2> SUFFICES ASSUME TypeInv PROVE TypeOK
    OBVIOUS
  <2>1. rev \in DOMAIN Clusters
    BY ViewAssumption DEF TypeInv, HeldInv
  <2>2. graph.rev \in 0..rev
    BY HeldRev DEF TypeInv
  <2>3. {edgeAt, palette, simulate, crashed} \subseteq BOOLEAN
    BY DEF TypeInv, ShownInv
  <2> QED BY <2>1, <2>2, <2>3 DEF TypeInv, AskedInv, ShownInv, Queries, Filterings, TypeOK
<1> QED BY <1>1, TypeInvHolds, PTL

-----------------------------------------------------------------------------
(* The settled pictures. *)

\* The view token of a query and of filters, and the picture of a State for them.
Token(q, f) ==
  <<q.level, q.includeDefault, q.namespaces, f.onlyUnprotected, f.onlyExposed, q.focus, q.expand,
    q.includeEmpty, f.hideIsolatedNodes, f.hideDNS, f.workloadKinds, f.edgeKinds>>

PictureOf(q, f, r) ==
  LET h == ApplyFilters(Answer(r, q), f)
  IN [view |-> Token(q, f), rev |-> r, nodes |-> {n.id : n \in h.nodes}, edges |-> {EdgeId(e) : e \in h.edges}]

\* Records with the fields of a query and of filters.
AQuery(q) ==
  q = [level |-> q.level, namespaces |-> q.namespaces, includeDefault |-> q.includeDefault,
       focus |-> q.focus, expand |-> q.expand, includeEmpty |-> q.includeEmpty]
AFilter(f) ==
  f = [edgeKinds |-> f.edgeKinds, workloadKinds |-> f.workloadKinds, hideDNS |-> f.hideDNS,
       onlyUnprotected |-> f.onlyUnprotected, hideIsolatedNodes |-> f.hideIsolatedNodes,
       onlyExposed |-> f.onlyExposed]

\* What was remembered is the picture of some query, some filters and some State.
FramedInv ==
  framed = NoFrame \/ \E q, f, r : AQuery(q) /\ AFilter(f) /\ framed = PictureOf(q, f, r)

\* A view is one query and one choice of filters.
LEMMA TokensTell ==
  ASSUME NEW q, NEW f, NEW p, NEW g, AQuery(q), AFilter(f), AQuery(p), AFilter(g), Token(q, f) = Token(p, g)
  PROVE  q = p /\ f = g
<1>1. /\ q.level = p.level /\ q.includeDefault = p.includeDefault /\ q.namespaces = p.namespaces
      /\ q.focus = p.focus /\ q.expand = p.expand /\ q.includeEmpty = p.includeEmpty
  BY DEF Token
<1>2. /\ f.onlyUnprotected = g.onlyUnprotected /\ f.onlyExposed = g.onlyExposed /\ f.hideDNS = g.hideDNS
      /\ f.hideIsolatedNodes = g.hideIsolatedNodes /\ f.workloadKinds = g.workloadKinds
      /\ f.edgeKinds = g.edgeKinds
  BY DEF Token
<1>3. q = p
  BY <1>1 DEF AQuery
<1>4. f = g
  BY <1>2 DEF AFilter
<1> QED BY <1>3, <1>4

LEMMA PictureFields ==
  ASSUME NEW q, NEW f, NEW r
  PROVE  PictureOf(q, f, r).view = Token(q, f) /\ PictureOf(q, f, r).rev = r
BY DEF PictureOf

LEMMA AskedRecords ==
  ASSUME AskedInv
  PROVE  AQuery(query) /\ AFilter(filters)
BY DEF AskedInv, Queries, Filterings, AQuery, AFilter

\* A graph of the newest State and of the query is its answer.
LEMMA AnswerIs ==
  ASSUME NEW g, NEW s \in Nat \ {0}, NEW q, g.rev = s, g.query = q,
         g = NoGraph \/ \E r \in 1..s : \E p : g = Answer(r, p)
  PROVE  g = Answer(s, q)
<1>1. PICK r \in 1..s : \E p : g = Answer(r, p)
  BY DEF NoGraph
<1>2. PICK p : g = Answer(r, p)
  BY <1>1
<1>3. r = s /\ p = q
  BY <1>2, AnswerFields
<1> QED BY <1>2, <1>3

LEMMA SettledIs ==
  ASSUME HeldInv, Settled
  PROVE  graph = Answer(rev, query)
BY AnswerIs, ViewAssumption DEF HeldInv, Settled

LEMMA RememberIs ==
  ASSUME TypeInv', Remember
  PROVE  framed' = framed \/ framed' = PictureOf(query', filters', rev')
<1> SUFFICES ASSUME Settled' /\ ~crashed', framed' = Frame(Filtered')
             PROVE  framed' = PictureOf(query', filters', rev')
  BY DEF Remember
<1>1. graph' = Answer(rev', query')
  BY AnswerIs, ViewAssumption DEF TypeInv, HeldInv, Settled
<1>2. Filtered' = ApplyFilters(Answer(rev', query'), filters')
  BY <1>1 DEF Filtered
<1>3. ViewToken' = Token(query', filters')
  BY DEF ViewToken, Token
<1> QED BY <1>2, <1>3 DEF Frame, PictureOf, EdgeId

LEMMA FramedStep ==
  ASSUME TypeInv, FramedInv, [Next]_vars
  PROVE  FramedInv' /\ (framed.rev = framed'.rev /\ framed.view = framed'.view => framed' = framed)
<1>1. TypeInv'
  BY HeldStep, AskedStep, ShownStep DEF TypeInv
<1>2. CASE framed' = framed
  BY <1>2 DEF FramedInv
<1>3. CASE framed' = PictureOf(query', filters', rev')
  <2>1. AQuery(query') /\ AFilter(filters') /\ rev' \in Nat \ {0}
    BY <1>1, AskedRecords, ViewAssumption DEF TypeInv, AskedInv, HeldInv, AQuery, AFilter, Queries, Filterings
  <2>2. FramedInv'
    BY <1>3, <2>1 DEF FramedInv
  <2>3. ASSUME framed.rev = framed'.rev, framed.view = framed'.view PROVE framed' = framed
    <3>1. framed'.rev = rev' /\ framed'.view = Token(query', filters')
      BY <1>3, PictureFields
    <3>2. framed # NoFrame
      BY <2>1, <2>3, <3>1 DEF NoFrame
    <3>3. PICK q, f, r : AQuery(q) /\ AFilter(f) /\ framed = PictureOf(q, f, r)
      BY <3>2 DEF FramedInv
    <3>4. Token(q, f) = Token(query', filters') /\ r = rev'
      BY <2>3, <3>1, <3>3, PictureFields
    <3> QED BY <1>3, <2>1, <3>3, <3>4, TokensTell
  <2> QED BY <2>2, <2>3
<1>4. CASE UNCHANGED vars
  BY <1>2, <1>4 DEF vars
<1> QED BY <1>1, <1>2, <1>3, <1>4, RememberIs DEF Next

\* The canvas reframes when the view token changes and only then (App.tsx:297-304):
\* what is drawn of one State depends on nothing that is not in the token.
THEOREM OneViewOnePicture ==
  Spec => SameViewSamePicture
<1>1. Init => FramedInv
  BY DEF Init, FramedInv
<1>2. TypeInv /\ FramedInv /\ [Next]_vars => FramedInv'
  BY FramedStep
<1>3. TypeInv /\ FramedInv /\ [Next]_vars
        => [framed.rev = framed'.rev /\ framed.view = framed'.view => framed' = framed]_vars
  BY FramedStep
<1> QED BY <1>1, <1>2, <1>3, TypeInvHolds, PTL DEF Spec, SameViewSamePicture

-----------------------------------------------------------------------------
(* What a focus keeps. *)

LEMMA Least ==
  ASSUME NEW T \in SUBSET Nat, T # {}
  PROVE  \E m \in T : \A k \in T : m <= k
<1> DEFINE R == {ss \in Nat \X Nat : ss[1] < ss[2]}
<1>1. IsWellFoundedOn(R, Nat)
  BY NatLessThanWellFounded DEF OpToRel
<1> HIDE DEF R
<1>2. PICK m \in T : \A k \in T : ~ (<<k, m>> \in R)
  BY <1>1, WFMin
<1>3. \A k \in T : ~ (k < m)
  BY <1>2 DEF R
<1> QED BY <1>3

\* One more hop along the edges, either way.
Beside(edges, i) == {e.target : e \in {f \in edges : f.source = i}}
                    \cup {e.source : e \in {f \in edges : f.target = i}}
Wider(edges, S) == S \cup UNION {Beside(edges, i) : i \in S}

\* R is what can be reached within n hops and less.
Hops(edges, start, n, R) ==
  R = [k \in 0..n |-> IF k = 0 THEN {start} ELSE Wider(edges, R[k - 1])]

\* There is such a function, by the least number of hops for which there is none.
LEMMA HopsExist ==
  ASSUME NEW edges, NEW start, NEW n \in Nat
  PROVE  \E R : Hops(edges, start, n, R)
<1> DEFINE Bad == {m \in Nat : ~\E R : Hops(edges, start, m, R)}
<1>1. SUFFICES ASSUME Bad # {} PROVE FALSE
  OBVIOUS
<1>2. PICK m \in Bad : \A k \in Bad : m <= k
  <2>1. Bad \in SUBSET Nat
    OBVIOUS
  <2> HIDE DEF Bad
  <2> QED BY <1>1, <2>1, Least
<1>3. CASE m = 0
  <2> DEFINE R == [k \in 0..0 |-> {start}]
  <2>1. Hops(edges, start, 0, R)
    BY DEF Hops
  <2> QED BY <1>2, <1>3, <2>1
<1>4. CASE m # 0
  <2>1. m - 1 \in Nat /\ m \in Nat /\ m - 1 \notin Bad
    BY <1>2, <1>4
  <2>2. PICK R : Hops(edges, start, m - 1, R)
    BY <2>1
  <2> DEFINE S == [k \in 0..m |-> IF k = 0 THEN {start} ELSE Wider(edges, R[k - 1])]
  <2>3. \A k \in 0..m : k # 0 => S[k - 1] = R[k - 1]
    <3> TAKE k \in 0..m
    <3> HAVE k # 0
    <3>1. k - 1 \in 0..(m - 1) /\ k - 1 \in 0..m
      BY <2>1
    <3> QED BY <2>2, <3>1 DEF Hops
  <2>4. Hops(edges, start, m, S)
    BY <2>3 DEF Hops
  <2> QED BY <1>2, <2>4
<1> QED BY <1>3, <1>4

\* A focus keeps the node itself.
LEMMA StartIsReached ==
  ASSUME NEW edges, NEW start, NEW hops \in Nat
  PROVE  start \in WithinHops(edges, start, hops)
<1> DEFINE R == CHOOSE S : Hops(edges, start, hops, S)
           Bad == {k \in 0..hops : start \notin R[k]}
<1>1. WithinHops(edges, start, hops) = R[hops]
  BY DEF WithinHops, Reached, Hops, Wider, Beside
<1>2. Hops(edges, start, hops, R)
  BY HopsExist
<1> HIDE DEF R
<1>3. SUFFICES ASSUME Bad # {} PROVE FALSE
  BY <1>1
<1>4. PICK k \in Bad : \A j \in Bad : k <= j
  <2>1. Bad \in SUBSET Nat
    OBVIOUS
  <2> HIDE DEF Bad
  <2> QED BY <1>3, <2>1, Least
<1>5. R[k] = IF k = 0 THEN {start} ELSE Wider(edges, R[k - 1])
  BY <1>2, <1>4 DEF Hops
<1>6. k # 0 /\ k - 1 \in 0..hops
  BY <1>4, <1>5
<1>7. start \in R[k - 1]
  BY <1>4, <1>6
<1> QED BY <1>4, <1>5, <1>6, <1>7 DEF Wider

\* Whatever is focused, a graph with nodes is drawn with some.
LEMMA FocusLeavesSome ==
  ASSUME NEW c, NEW q
  PROVE  (Ids(c, q) = {} => Focused(c, q).nodes = {}) /\ (Ids(c, q) # {} => Focused(c, q).nodes # {})
<1> DEFINE w == Whole(c, q)
<1>1. w.nodes = {Node(c, q, id, Exposed(c, q)) : id \in Ids(c, q)}
      /\ w = [nodes |-> w.nodes, edges |-> w.edges, empty |-> w.empty, focus |-> NoFocus, oversize |-> 0]
  BY DEF Whole
<1>2. CASE q.focus = << >> \/ ~\E n \in w.nodes : n.id = q.focus
  <2>1. Focused(c, q) = w
    BY <1>2 DEF Focused, ApplyFocus
  <2> HIDE DEF w
  <2> QED BY <1>1, <2>1
<1>3. CASE q.focus # << >> /\ \E n \in w.nodes : n.id = q.focus
  <2> DEFINE focus == q.focus
             keep == WithinHops(w.edges, focus, FocusHops)
             kept == {n \in w.nodes : n.id \in keep}
             out == Cardinality(w.nodes) - Cardinality(kept)
  <2>1. Focused(c, q) = [w EXCEPT !.nodes = IF out > 0 THEN kept \cup {HiddenCard(out)} ELSE kept,
                                  !.edges = {e \in @ : e.source \in keep /\ e.target \in keep},
                                  !.focus = [node |-> focus, hidden |-> out]]
    BY <1>3 DEF Focused, ApplyFocus, HiddenCard
  <2> HIDE DEF w
  <2>2. focus \in keep
    BY StartIsReached, ClusterGraphAssumption
  <2> HIDE DEF keep, out, focus
  <2>3. Focused(c, q).nodes = (IF out > 0 THEN kept \cup {HiddenCard(out)} ELSE kept)
    BY <1>1, <2>1
  <2>4. kept # {}
    BY <1>3, <2>2 DEF focus
  <2>5. Ids(c, q) # {}
    BY <1>1, <1>3
  <2> QED BY <2>3, <2>4, <2>5
<1> QED BY <1>2, <1>3

-----------------------------------------------------------------------------
(* What the rail and the empty screens say. *)

\* The settled graph on screen: of the newest State, and not refused.
LEMMA OnScreen ==
  ASSUME TypeInv, Shell, Settled
  PROVE  /\ IsCluster(Cluster) /\ graph = Answer(rev, query)
         /\ graph.nodes = Focused(Cluster, query).nodes /\ graph.focus = Focused(Cluster, query).focus
         /\ IsFiniteSet(graph.nodes) /\ IsFiniteSet(Filtered.nodes)
         /\ Filtered.nodes \subseteq graph.nodes
<1>1. IsCluster(Cluster)
  BY ViewAssumption DEF TypeInv, HeldInv, Cluster
<1>2. graph = Answer(rev, query)
  BY SettledIs DEF TypeInv
<1>3. ~(graph.oversize > 0)
  BY DEF TypeInv, HeldInv, Shell
<1>4. /\ graph.nodes = Build(Cluster, query).nodes /\ graph.focus = Build(Cluster, query).focus
      /\ graph.oversize = Build(Cluster, query).oversize
  BY <1>2, AnswerFields DEF Cluster
<1>5. Build(Cluster, query) = Focused(Cluster, query)
  BY <1>1, <1>3, <1>4, BuildFields
<1>6. IsFiniteSet(graph.nodes)
  BY <1>1, <1>4, <1>5, FocusedIsFinite
<1>7. Filtered.nodes \in SUBSET graph.nodes
  BY FilteredIsDrawn DEF TypeInv
<1> QED BY <1>1, <1>2, <1>4, <1>5, <1>6, <1>7, FS_Subset

\* Nothing is hidden only if every node is there.
LEMMA NothingLess ==
  ASSUME NEW g, NEW h, IsFiniteSet(g.nodes), h.nodes \subseteq g.nodes
  PROVE  /\ ~(HiddenCount(g, h) > 0) => h.nodes = g.nodes
         /\ HiddenCount(g, h) > 0 => g.nodes # {}
<1> DEFINE G == g.nodes
           H == h.nodes
<1>1. H \in SUBSET G /\ IsFiniteSet(G) /\ HiddenCount(g, h) = Cardinality(G) - Cardinality(H)
  BY DEF HiddenCount
<1> HIDE DEF G, H
<1>2. /\ IsFiniteSet(H) /\ Cardinality(H) <= Cardinality(G)
      /\ Cardinality(G) = Cardinality(H) => G = H
  BY <1>1, FS_Subset
<1>3. Cardinality(G) \in Nat /\ Cardinality(H) \in Nat /\ (Cardinality(G) = 0 <=> G = {})
  BY <1>1, <1>2, FS_CardinalityType, FS_EmptySet
<1>4. ~(HiddenCount(g, h) > 0) => Cardinality(G) = Cardinality(H)
  BY <1>1, <1>2, <1>3
<1>5. HiddenCount(g, h) > 0 => Cardinality(G) # 0
  BY <1>1, <1>2, <1>3
<1> QED BY <1>2, <1>3, <1>4, <1>5 DEF G, H

\* What is in scope has its node.
LEMMA DrawnHasItsNode ==
  ASSUME NEW c, NEW q, NEW w \in Drawn(c, q)
  PROVE  /\ ClusterNodeId(c, q, w) \in Ids(c, q)
         /\ \E n \in Whole(c, q).nodes : n.id = ClusterNodeId(c, q, w)
         /\ ClusterNodeId(c, q, w) \in {WorkloadId(w), NsId(c.home[w])}
<1> DEFINE id == ClusterNodeId(c, q, w)
<1>1. id \in Ids(c, q)
  BY DEF Ids, NodeIds
<1>2. Node(c, q, id, Exposed(c, q)) \in Whole(c, q).nodes
  BY <1>1 DEF Whole
<1>3. Node(c, q, id, Exposed(c, q)).id = id
  BY DEF Node
<1>4. id \in {WorkloadId(w), NsId(c.home[w])}
  BY DEF ClusterNodeId
<1> QED BY <1>1, <1>2, <1>3, <1>4

LEMMA NothingIsHidden ==
  ASSUME TypeInv
  PROVE  NothingHiddenIsTrue
<1> SUFFICES ASSUME Shell, Settled, ~IsHiding(graph, Filtered, query.includeDefault),
                    NEW w \in Workloads(Cluster), InScope(query, Cluster.home[w]), graph.focus = NoFocus
             PROVE  {WorkloadId(w), NsId(Cluster.home[w])} \cap {n.id : n \in Filtered.nodes} # {}
  BY DEF NothingHiddenIsTrue
<1>1. graph.nodes = Whole(Cluster, query).nodes
  BY OnScreen, FocusedFields
<1>2. Filtered.nodes = graph.nodes
  BY OnScreen, NothingLess DEF IsHiding
<1>3. w \in Drawn(Cluster, query)
  BY DEF Drawn
<1> QED BY <1>1, <1>2, <1>3, DrawnHasItsNode

-----------------------------------------------------------------------------
(* The buttons of the empty screens. *)

\* The filters a new page has leave everything.
LEMMA DefaultsHideNothing ==
  ASSUME NEW c, NEW q, NEW g, g = Build(c, q)
  PROVE  ApplyFilters(g, DefaultFilters).nodes = g.nodes
<1> DEFINE f == DefaultFilters
           kept == {n \in g.nodes : KeepsNode(f, n)}
           edges == {e \in g.edges : KeepsEdge(f, {n.id : n \in kept}, e)}
           connected == {e.source : e \in edges} \cup {e.target : e \in edges}
           nodes == IF f.hideIsolatedNodes THEN {n \in kept : n.id \in connected} ELSE kept
<1>1. ApplyFilters(g, f) = [g EXCEPT !.nodes = nodes, !.edges = edges]
  BY DEF ApplyFilters
<1>2. g = [nodes |-> g.nodes, edges |-> g.edges, empty |-> g.empty, focus |-> g.focus, oversize |-> g.oversize]
  BY DEF Build, Oversized, ApplyFocus
<1>3. nodes = g.nodes
  BY DEF DefaultFilters, KeepsNode
<1> HIDE DEF nodes, edges, f
<1> QED BY <1>1, <1>2, <1>3 DEF f

LEMMA ShowsSome ==
  ASSUME IsCluster(Cluster), NEW q, Ids(Cluster, q) # {}
  PROVE  Shows(q, DefaultFilters)
<1> DEFINE g == Build(Cluster, q)
<1>1. g.oversize > 0 \/ g = Focused(Cluster, q)
  BY BuildFields
<1>2. g.oversize > 0 \/ g.nodes # {}
  BY <1>1, FocusLeavesSome
<1>3. ApplyFilters(g, DefaultFilters).nodes = g.nodes
  BY DefaultsHideNothing
<1> HIDE DEF g
<1>4. g.oversize > 0 \/ ApplyFilters(g, DefaultFilters).nodes # {}
  BY <1>2, <1>3
<1> QED BY <1>4 DEF Shows, g

\* The default connections add nodes, and take none.
LEMMA ResetKeeps ==
  ASSUME NEW c, NEW q, AQuery(q)
  PROVE  Ids(c, q) \subseteq Ids(c, Reset(q))
<1> DEFINE p == Reset(q)
<1>1. /\ p.level = q.level /\ p.namespaces = q.namespaces /\ p.expand = q.expand
      /\ p.includeEmpty = q.includeEmpty /\ p.includeDefault = TRUE
  BY DEF Reset, AQuery
<1> HIDE DEF p
<1>2. Drawn(c, p) = Drawn(c, q) /\ \A w : ClusterNodeId(c, p, w) = ClusterNodeId(c, q, w)
  BY <1>1 DEF Drawn, ClusterNodeId, InScope, IsSystem
<1>3. \A peer : PeerNodes(c, p, peer) = PeerNodes(c, q, peer)
  BY <1>1 DEF PeerNodes, InScope
<1>4. Heard(c, p) = Heard(c, q) /\ \A a : AllowLinks(c, p, a) = AllowLinks(c, q, a)
  BY <1>2, <1>3 DEF Heard, AllowLinks, AllowLink
<1>5. OpenEnds(c, q) \subseteq OpenEnds(c, p) /\ \A d : OpenLink(c, p, d) = OpenLink(c, q, d)
  BY <1>1, <1>2 DEF OpenEnds, OpenLink
<1>6. Links(c, q) \subseteq Links(c, p)
  BY <1>4, <1>5, LinksAre
<1>7. Ids(c, q) \subseteq Ids(c, p)
  BY <1>1, <1>2, <1>6 DEF Ids, NodeIds, InScope
<1> QED BY <1>7 DEF p

LEMMA EmptyScreens ==
  ASSUME TypeInv
  PROVE  EmptyScreensAreTrue
<1> SUFFICES ASSUME Shell, Settled, Filtered.nodes = {}
             PROVE  IF Cluster.policies = 0
                    THEN Shows(ShowAll(query), DefaultFilters) \/ Workloads(Cluster) = {}
                    ELSE IF HiddenCount(graph, Filtered) > 0
                    THEN Shows(Reset(query), DefaultFilters)
                    ELSE \A w \in Workloads(Cluster) : ~InScope(query, Cluster.home[w])
  BY DEF EmptyScreensAreTrue
<1>1. AQuery(query) /\ IsCluster(Cluster)
  BY AskedRecords, OnScreen DEF TypeInv
<1>2. ASSUME Workloads(Cluster) # {} PROVE Shows(ShowAll(query), DefaultFilters)
  <2>1. ShowAll(query).namespaces = {}
    BY <1>1 DEF ShowAll, AQuery
  <2>2. PICK w \in Workloads(Cluster) : TRUE
    BY <1>2
  <2>3. w \in Drawn(Cluster, ShowAll(query))
    BY <2>1, <2>2 DEF Drawn, InScope
  <2> QED BY <1>1, <2>3, DrawnHasItsNode, ShowsSome
<1>3. ASSUME HiddenCount(graph, Filtered) > 0 PROVE Shows(Reset(query), DefaultFilters)
  <2>1. graph.nodes # {}
    BY <1>3, OnScreen, NothingLess
  <2>2. Ids(Cluster, query) # {}
    BY <2>1, OnScreen, FocusLeavesSome
  <2>3. Ids(Cluster, Reset(query)) # {}
    BY <1>1, <2>2, ResetKeeps
  <2> QED BY <1>1, <2>3, ShowsSome
<1>4. ASSUME ~(HiddenCount(graph, Filtered) > 0), NEW w \in Workloads(Cluster), InScope(query, Cluster.home[w])
      PROVE  FALSE
  <2>1. graph.nodes = {}
    BY <1>4, OnScreen, NothingLess
  <2>2. Ids(Cluster, query) = {}
    BY <2>1, OnScreen, FocusLeavesSome
  <2>3. w \in Drawn(Cluster, query)
    BY <1>4 DEF Drawn
  <2> QED BY <2>2, <2>3, DrawnHasItsNode
<1> QED BY <1>2, <1>3, <1>4

-----------------------------------------------------------------------------
(* What the footer counts. *)

\* What a node counts for.
Counted(n) ==
  CASE n.kind = "workload"  -> 1
    [] n.kind = "namespace" -> n.workloads
    [] OTHER                -> 0

LEMMA Smallest ==
  ASSUME NEW D, IsFiniteSet(D), NEW T \in SUBSET (SUBSET D), T # {}
  PROVE  \E s \in T : \A t \in T : t \subseteq s => t = s
<1>1. IsWellFoundedOn(StrictSubsetOrdering(D), SUBSET D)
  BY FS_StrictSubsetOrderingWellFounded, FS_FiniteSubsetsOfFinite
<1>2. PICK s \in T : \A t \in T : <<t, s>> \notin StrictSubsetOrdering(D)
  BY <1>1, WFMin
<1> QED BY <1>2 DEF StrictSubsetOrdering

Some(s) == CHOOSE x \in s : TRUE
Rest(s) == s \ {Some(s)}

\* Where every node counts the workloads drawn as it, and no two nodes have one
\* id, the sum counts the workloads drawn as any of them.
LEMMA CountsAddUp ==
  ASSUME NEW g, IsFiniteSet(g.nodes), NEW L, IsFiniteSet(L), NEW root,
         \A n, m \in g.nodes : n.id = m.id => n = m,
         \A n \in g.nodes : Counted(n) = Cardinality({w \in L : root[w] = n.id})
  PROVE  WorkloadCount(g) = Cardinality({w \in L : \E n \in g.nodes : root[w] = n.id})
<1> DEFINE D == g.nodes
           Within(s) == {w \in L : \E n \in s : root[w] = n.id}
           Step(it, s) == IF s = {} THEN 0 ELSE Counted(Some(s)) + it[Rest(s)]
           Is(it) == it = [s \in SUBSET D |-> Step(it, s)]
           sum == CHOOSE it : Is(it)
           sizes == [s \in SUBSET D |-> Cardinality(Within(s))]
<1>1. WorkloadCount(g) = sum[D]
  BY DEF WorkloadCount, MapThenSumSet, MapThenFoldSet, Some, Rest, Counted
<1>2. ASSUME NEW s \in SUBSET D, s # {}
      PROVE  /\ Some(s) \in D /\ Rest(s) \in SUBSET D /\ Rest(s) \subseteq s /\ Rest(s) # s
             /\ Cardinality(Within(s)) = Counted(Some(s)) + Cardinality(Within(Rest(s)))
  <2>1. /\ Some(s) \in s /\ Some(s) \in D /\ Some(s) \notin Rest(s)
        /\ Rest(s) \in SUBSET D /\ Rest(s) \subseteq s /\ Rest(s) # s
        /\ s = Rest(s) \cup {Some(s)}
    BY <1>2 DEF Some, Rest
  <2> DEFINE x == Some(s)
             A == {w \in L : root[w] = x.id}
             B == Within(Rest(s))
  <2>2. IsFiniteSet(A) /\ IsFiniteSet(B)
    BY FS_Subset
  <2>3. Within(s) = A \cup B /\ A \cap B = {}
    BY <2>1
  <2>4. Counted(Some(s)) = Cardinality(A)
    BY <2>1
  <2> HIDE DEF A
  <2>5. Cardinality(A \cup B) = Cardinality(A) + Cardinality(B) - Cardinality(A \cap B)
    <3> HIDE DEF B
    <3> QED BY <2>2, FS_Union
  <2>6. Cardinality(A \cap B) = 0
    BY <2>3, FS_EmptySet
  <2>7. Cardinality(A) \in Nat /\ Cardinality(B) \in Nat
    BY <2>2, FS_CardinalityType
  <2>8. Cardinality(A \cup B) = Cardinality(A) + Cardinality(B)
    <3> HIDE DEF B
    <3> QED BY <2>5, <2>6, <2>7
  <2> QED BY <2>1, <2>3, <2>4, <2>8
<1>3. Cardinality(Within({})) = 0
  BY FS_EmptySet
<1>4. \A s \in SUBSET D : sizes[s] = Step(sizes, s)
  <2> TAKE s \in SUBSET D
  <2>1. CASE s = {}
    BY <1>3, <2>1
  <2>2. CASE s # {}
    BY <1>2, <2>2
  <2> QED BY <2>1, <2>2
<1>5. Is(sizes)
  <2>1. sizes = [s \in SUBSET D |-> sizes[s]]
    OBVIOUS
  <2> HIDE DEF sizes, Step
  <2> QED BY <1>4, <2>1
<1>6. \A s \in SUBSET D : sum[s] = Step(sum, s)
  <2>1. Is(sum)
    BY <1>5
  <2> HIDE DEF sum
  <2> QED BY <2>1
<1> DEFINE all == Within(D)
<1>7. sizes[D] = Cardinality(all) /\ all = {w \in L : \E n \in g.nodes : root[w] = n.id}
  OBVIOUS
<1> HIDE DEF sum, sizes, Within, all
<1> DEFINE Bad == {s \in SUBSET D : sum[s] # sizes[s]}
<1>8. Bad = {}
  <2>1. SUFFICES ASSUME Bad # {} PROVE FALSE
    OBVIOUS
  <2>2. PICK s \in Bad : \A t \in Bad : t \subseteq s => t = s
    <3>1. Bad \in SUBSET (SUBSET D)
      OBVIOUS
    <3> HIDE DEF Bad
    <3> QED BY <2>1, <3>1, Smallest
  <2>3. s # {} /\ s \in SUBSET D
    BY <1>4, <1>6
  <2>4. Rest(s) \in SUBSET D /\ Rest(s) \notin Bad
    BY <1>2, <2>2, <2>3
  <2>5. sum[Rest(s)] = sizes[Rest(s)]
    BY <2>4
  <2> QED BY <1>4, <1>6, <2>2, <2>3, <2>5
<1> QED BY <1>1, <1>7, <1>8

\* Without a collapsed namespace each node counts the workloads drawn as it.
LEMMA NodesCount ==
  ASSUME NEW c, IsCluster(c), NEW q, \A n \in Whole(c, q).nodes : ~n.system, NEW n \in Whole(c, q).nodes
  PROVE  Counted(n) = Cardinality(Members(c, q, n.id))
<1>1. PICK id \in Ids(c, q) : n = Node(c, q, id, Exposed(c, q))
  BY DEF Whole
<1>2. n.id = id /\ n.kind = id[1] /\ n.workloads = Cardinality(Members(c, q, id))
  <2> DEFINE e == Exposed(c, q)
  <2>1. n = Node(c, q, id, e)
    BY <1>1
  <2> HIDE DEF e
  <2> QED BY <2>1 DEF Node, Members
<1>3. Known(c, q, id)
  BY IdIsKnown
<1>4. CASE id[1] = "namespace"
  BY <1>2, <1>4 DEF Counted
<1>5. CASE id[1] = "workload"
  <2>1. PICK w \in Workloads(c) : id = WorkloadId(w) /\ q.level = "workload" /\ InScope(q, c.home[w])
    BY <1>3, <1>5 DEF Known, NsId
  <2>2. w \in Drawn(c, q)
    BY <2>1 DEF Drawn
  <2>3. ~IsSystem(c, q, c.home[w])
    <3>1. SUFFICES ASSUME IsSystem(c, q, c.home[w]) PROVE FALSE
      OBVIOUS
    <3>2. ClusterNodeId(c, q, w) = NsId(c.home[w])
      BY <3>1 DEF ClusterNodeId
    <3> DEFINE e == Exposed(c, q)
               j == NsId(c.home[w])
               m == Node(c, q, j, e)
    <3>3. m \in Whole(c, q).nodes
      BY <2>2, <3>2, DrawnHasItsNode DEF Whole
    <3>4. j[1] = "namespace" /\ IsSystem(c, q, j[2])
      BY <3>1 DEF NsId
    <3>5. m.system <=> j[1] = "namespace" /\ IsSystem(c, q, j[2])
      BY DEF Node
    <3> QED BY <3>3, <3>4, <3>5
  <2>4. Members(c, q, id) = {w}
    BY <2>1, <2>2, <2>3 DEF Members, ClusterNodeId, WorkloadId, NsId
  <2> QED BY <1>2, <1>5, <2>4, FS_Singleton DEF Counted
<1>6. CASE id[1] \notin {"workload", "namespace"}
  <2>1. Members(c, q, id) = {}
    BY <1>6 DEF Members, ClusterNodeId, WorkloadId, NsId
  <2> QED BY <1>2, <1>6, <2>1, FS_EmptySet DEF Counted
<1> QED BY <1>4, <1>5, <1>6

LEMMA FooterCounts ==
  ASSUME TypeInv
  PROVE  FooterCountsWorkloads
<1> SUFFICES ASSUME Shell, Settled, graph.focus = NoFocus, SystemNamespaces = {}
             PROVE  /\ WorkloadCount(graph) = Cardinality(Drawn(Cluster, query))
                    /\ WorkloadCount(Filtered) <= WorkloadCount(graph)
  BY DEF FooterCountsWorkloads
<1> DEFINE c == Cluster
           q == query
           L == Drawn(c, q)
           root == [w \in L |-> ClusterNodeId(c, q, w)]
           W == Whole(c, q).nodes
<1>1. IsCluster(c) /\ graph.nodes = W /\ Filtered.nodes \subseteq W
      /\ IsFiniteSet(graph.nodes) /\ IsFiniteSet(Filtered.nodes) /\ IsFiniteSet(L)
  BY OnScreen, FocusedFields, DrawnAreFinite
<1>2. \A n \in W : ~n.system
  BY <1>1 DEF SystemNamespaces
<1>3. \A n, m \in W : n.id = m.id => n = m
  <2> TAKE n, m \in W
  <2> HAVE n.id = m.id
  <2>1. PICK i \in Ids(c, q) : n = Node(c, q, i, Exposed(c, q))
    BY DEF Whole
  <2>2. PICK j \in Ids(c, q) : m = Node(c, q, j, Exposed(c, q))
    BY DEF Whole
  <2>3. n.id = i /\ m.id = j
    BY <2>1, <2>2 DEF Node
  <2> QED BY <2>1, <2>2, <2>3
<1>4. \A n \in W : Counted(n) = Cardinality({w \in L : root[w] = n.id})
  <2> TAKE n \in W
  <2>1. {w \in L : root[w] = n.id} = Members(c, q, n.id)
    BY DEF Members
  <2> HIDE DEF c, q, L, root
  <2> QED BY <1>1, <1>2, <2>1, NodesCount
<1>5. {w \in L : \E n \in W : root[w] = n.id} = L
  BY DrawnHasItsNode
<1> HIDE DEF c, q, L, root, W
<1>6. WorkloadCount(graph) = Cardinality(L)
  <2>1. WorkloadCount(graph) = Cardinality({w \in L : \E n \in graph.nodes : root[w] = n.id})
    BY <1>1, <1>3, <1>4, CountsAddUp
  <2> QED BY <1>1, <1>5, <2>1
<1> DEFINE some == {w \in L : \E n \in Filtered.nodes : root[w] = n.id}
<1>7. WorkloadCount(Filtered) = Cardinality(some)
  BY <1>1, <1>3, <1>4, CountsAddUp
<1>8. some \in SUBSET L
  OBVIOUS
<1> HIDE DEF some
<1>9. Cardinality(some) <= Cardinality(L)
  BY <1>1, <1>8, FS_Subset
<1> QED BY <1>6, <1>7, <1>9 DEF L, c, q

\* Of any cluster and in any view: "Nothing hidden", the footer's count and the empty
\* screens' words and buttons (FilterRail.tsx, filters.ts, App.tsx) say what is so.
THEOREM RailTellsTheTruth ==
  Spec => []RailIsTrue
<1>1. TypeInv => RailIsTrue
  BY NothingIsHidden, FooterCounts, EmptyScreens DEF RailIsTrue
<1> QED BY <1>1, TypeInvHolds, PTL

-----------------------------------------------------------------------------
(* A set in its order. *)

\* it lists the subsets of D, one element after the other.
Listing(it, s) == IF s = {} THEN << >> ELSE Append(it[Rest(s)], Some(s))

\* By the size of the sets that are listed.
LEMMA ListingExists ==
  ASSUME NEW D, IsFiniteSet(D)
  PROVE  \E it : it = [s \in SUBSET D |-> Listing(it, s)]
<1> DEFINE Level(m) == {s \in SUBSET D : Cardinality(s) <= m}
           Upto(m) == \E it : it = [s \in Level(m) |-> Listing(it, s)]
           Bad == {m \in Nat : ~Upto(m)}
<1>1. ASSUME NEW s \in SUBSET D
      PROVE  /\ Cardinality(s) \in Nat /\ Cardinality(s) <= Cardinality(D)
             /\ Cardinality(s) = 0 => s = {}
             /\ s # {} => Cardinality(Rest(s)) = Cardinality(s) - 1 /\ Rest(s) \in SUBSET D
  <2>1. IsFiniteSet(s) /\ Cardinality(s) <= Cardinality(D)
    BY FS_Subset
  <2>2. s # {} => Cardinality(Rest(s)) = Cardinality(s) - 1 /\ Rest(s) \in SUBSET D
    <3>1. s # {} => Some(s) \in s
      BY DEF Some
    <3> QED BY <2>1, <3>1, FS_RemoveElement DEF Rest
  <2> QED BY <2>1, <2>2, FS_CardinalityType, FS_EmptySet
<1>2. SUFFICES ASSUME Bad # {} PROVE FALSE
  <2>1. Cardinality(D) \in Nat /\ Level(Cardinality(D)) = SUBSET D
    BY <1>1, FS_CardinalityType
  <2>2. ASSUME Upto(Cardinality(D)) PROVE \E it : it = [s \in SUBSET D |-> Listing(it, s)]
    BY <2>1, <2>2
  <2> HIDE DEF Upto
  <2> QED BY <2>1, <2>2
<1> HIDE DEF Upto
<1>3. PICK m \in Bad : \A k \in Bad : m <= k
  <2>1. Bad \in SUBSET Nat
    OBVIOUS
  <2> HIDE DEF Bad
  <2> QED BY <1>2, <2>1, Least
<1>4. m \in Nat /\ ~Upto(m) /\ (m # 0 => m - 1 \in Nat /\ Upto(m - 1))
  BY <1>3
<1> HIDE DEF Bad
<1>5. CASE m = 0
  <2> DEFINE it == [s \in Level(0) |-> << >>]
  <2>1. \A s \in Level(0) : s = {}
    BY <1>1
  <2>2. it = [s \in Level(0) |-> Listing(it, s)]
    BY <2>1 DEF Listing
  <2> HIDE DEF it, Level
  <2> QED BY <1>4, <1>5, <2>2 DEF Upto
<1>6. CASE m # 0
  <2>1. PICK old : old = [s \in Level(m - 1) |-> Listing(old, s)]
    BY <1>4, <1>6 DEF Upto
  <2> DEFINE it == [s \in Level(m) |-> Listing(old, s)]
  <2>2. ASSUME NEW s \in Level(m), s # {} PROVE it[Rest(s)] = old[Rest(s)]
    <3>1. Rest(s) \in SUBSET D /\ Cardinality(Rest(s)) = Cardinality(s) - 1 /\ Cardinality(s) \in Nat
          /\ Cardinality(s) <= m
      BY <1>1, <2>2
    <3>2. Rest(s) \in Level(m - 1) /\ Rest(s) \in Level(m)
      BY <1>4, <3>1
    <3> HIDE DEF Level
    <3>3. it[Rest(s)] = Listing(old, Rest(s)) /\ old[Rest(s)] = Listing(old, Rest(s))
      BY <2>1, <3>2
    <3> QED BY <3>3
  <2>3. ASSUME NEW s \in Level(m) PROVE Listing(old, s) = Listing(it, s)
    <3> HIDE DEF it, Level
    <3> QED BY <2>2 DEF Listing
  <2>4. it = [s \in Level(m) |-> Listing(it, s)]
    <3>1. it = [s \in Level(m) |-> Listing(old, s)]
      OBVIOUS
    <3> HIDE DEF it, Level
    <3> QED BY <2>3, <3>1
  <2> HIDE DEF it, Level
  <2> QED BY <1>4, <2>4 DEF Upto
<1> QED BY <1>5, <1>6

\* Every element of a finite set is in its order, and nothing else is.
LEMMA OrderLists ==
  ASSUME NEW S, IsFiniteSet(S)
  PROVE  InOrder(S) \in Seq(S) /\ \A x \in S : \E i \in 1..Len(InOrder(S)) : InOrder(S)[i] = x
<1> DEFINE list == CHOOSE it : it = [s \in SUBSET S |-> Listing(it, s)]
           Good(s) == list[s] \in Seq(S) /\ \A x \in s : \E i \in 1..Len(list[s]) : list[s][i] = x
           Bad == {s \in SUBSET S : ~Good(s)}
<1>1. InOrder(S) = list[S]
  BY DEF InOrder, FoldSet, MapThenFoldSet, Listing, Some, Rest
<1>2. list = [s \in SUBSET S |-> Listing(list, s)]
  BY ListingExists
<1> HIDE DEF list
<1>3. SUFFICES ASSUME Bad # {} PROVE FALSE
  BY <1>1
<1>4. PICK s \in Bad : \A t \in Bad : t \subseteq s => t = s
  <2>1. Bad \in SUBSET (SUBSET S)
    OBVIOUS
  <2> HIDE DEF Bad
  <2> QED BY <1>3, <2>1, Smallest
<1>5. s \in SUBSET S /\ list[s] = Listing(list, s) /\ ~Good(s)
  BY <1>2, <1>4
<1>6. s # {}
  BY <1>5 DEF Listing
<1> DEFINE r == Rest(s)
           x == Some(s)
<1>7. x \in S /\ r \in SUBSET S /\ r \subseteq s /\ r # s /\ s = r \cup {x}
  BY <1>5, <1>6 DEF Some, Rest
<1>8. Good(r)
  BY <1>4, <1>7
<1>9. list[s] = Append(list[r], x)
  BY <1>5, <1>6 DEF Listing
<1> HIDE DEF r, x, Bad
<1>10. list[s] \in Seq(S) /\ Len(list[s]) = Len(list[r]) + 1 /\ Len(list[r]) \in Nat
       /\ list[s][Len(list[r]) + 1] = x /\ \A i \in 1..Len(list[r]) : list[s][i] = list[r][i]
  BY <1>7, <1>8, <1>9
<1>11. \A y \in s : \E i \in 1..Len(list[s]) : list[s][i] = y
  <2> TAKE y \in s
  <2>1. CASE y = x
    BY <1>10, <2>1
  <2>2. CASE y \in r
    <3>1. PICK i \in 1..Len(list[r]) : list[r][i] = y
      BY <1>8, <2>2
    <3>2. i \in 1..Len(list[s]) /\ list[s][i] = y
      BY <1>10, <3>1
    <3> QED BY <3>2
  <2> QED BY <1>7, <2>1, <2>2
<1> QED BY <1>5, <1>10, <1>11

-----------------------------------------------------------------------------
(* The rows of a card. *)

\* A link has finitely many ports, and so has the edge of finitely many links.
LEMMA LinkPortsAreFinite ==
  ASSUME NEW c, IsCluster(c), NEW q, NEW l \in Links(c, q)
  PROVE  IsFiniteSet(l.ports)
<1>1. CASE \E a \in Heard(c, q) : l \in AllowLinks(c, q, a)
  <2>1. PICK a \in Heard(c, q) : l \in AllowLinks(c, q, a)
    BY <1>1
  <2>2. l.ports = a.ports
    BY <2>1 DEF AllowLinks, AllowLink
  <2> QED BY <2>1, <2>2 DEF Heard, IsCluster
<1>2. CASE \E d \in OpenEnds(c, q) : l = OpenLink(c, q, d)
  <2>1. l.ports = {}
    BY <1>2 DEF OpenLink
  <2> QED BY <2>1, FS_EmptySet
<1> QED BY <1>1, <1>2, LinksAre

LEMMA EdgePortsAreFinite ==
  ASSUME NEW links, IsFiniteSet(links), \A l \in links : IsFiniteSet(l.ports), NEW e \in Edges(links)
  PROVE  IsFiniteSet(PortsOf(e))
<1> DEFINE Of(k) == {l \in links : <<l.source, l.target, l.kind>> = k}
           Ports(k) == IF {} \in {l.ports : l \in Of(k)} THEN {} ELSE UNION {l.ports : l \in Of(k)}
           E(k) == [source |-> k[1], target |-> k[2], kind |-> k[3], ports |-> Ports(k),
                    dns |-> \E l \in Of(k) : OnlyDNS(l.ports)]
<1>a. PICK k : e = E(k)
  BY DEF Edges
<1>1. e.ports = Ports(k)
  <2> HIDE DEF Of, Ports
  <2> QED BY <1>a
<1> HIDE DEF E
<1> DEFINE some == Of(k)
           of == [l \in some |-> l.ports]
           P == {of[l] : l \in some}
<1>2. some \in SUBSET links
  OBVIOUS
<1>3. P = {l.ports : l \in some} /\ \A T \in P : IsFiniteSet(T)
  OBVIOUS
<1>4. e.ports = {} \/ e.ports = UNION P
  BY <1>1, <1>3
<1> HIDE DEF some, of
<1>5. IsFiniteSet(P)
  <2>1. IsFiniteSet(some)
    BY <1>2, FS_Subset
  <2> QED BY <2>1, FiniteImage
<1> HIDE DEF P
<1>6. IsFiniteSet(e.ports)
  BY <1>3, <1>4, <1>5, FS_UNION, FS_EmptySet
<1> QED BY <1>6, FS_Singleton DEF PortsOf

\* What the rows of a card are taken from.
Row(e, p) == [label |-> p[1], protocol |-> p[2], kind |-> e.kind]
RowsOf(e) == {Row(e, p) : p \in PortsOf(e)}
AllRows(g, lines, id) == UNION {RowsOf(e) : e \in {f \in DrawnEdges(g, lines) : f.target = id}}

LEMMA RowsAreFinite ==
  ASSUME NEW g, NEW lines, NEW id, IsFiniteSet(g.edges), \A e \in g.edges : IsFiniteSet(PortsOf(e))
  PROVE  IsFiniteSet(AllRows(g, lines, id))
<1> DEFINE here == {f \in DrawnEdges(g, lines) : f.target = id}
           of == [e \in here |-> RowsOf(e)]
           P == {of[e] : e \in here}
<1>1. here \in SUBSET g.edges /\ AllRows(g, lines, id) = UNION P
  BY DEF DrawnEdges, AllRows
<1>2. ASSUME NEW e \in here PROVE IsFiniteSet(RowsOf(e))
  <2> DEFINE ports == PortsOf(e)
             row == [p \in ports |-> Row(e, p)]
  <2>1. IsFiniteSet(ports)
    BY <1>1, <1>2
  <2>2. RowsOf(e) = {row[p] : p \in ports}
    BY DEF RowsOf
  <2> HIDE DEF ports, row
  <2> QED BY <2>1, <2>2, FiniteImage
<1>3. \A T \in P : IsFiniteSet(T)
  BY <1>2
<1> HIDE DEF here, of
<1>4. IsFiniteSet(P)
  <2>1. IsFiniteSet(here)
    BY <1>1, FS_Subset
  <2> QED BY <2>1, FiniteImage
<1> HIDE DEF P
<1> QED BY <1>1, <1>3, <1>4, FS_UNION

LEMMA SmallerOfTwo ==
  ASSUME NEW a \in Nat, NEW b \in Nat
  PROVE  Min({a, b}) = IF a <= b THEN a ELSE b
<1>1. CASE a <= b
  <2>1. \A x \in {a, b} : (\A y \in {a, b} : x <= y) <=> x = a
    BY <1>1
  <2> QED BY <1>1, <2>1 DEF Min
<1>2. CASE ~(a <= b)
  <2>1. \A x \in {a, b} : (\A y \in {a, b} : x <= y) <=> x = b
    BY <1>2
  <2> QED BY <1>2, <2>1 DEF Min
<1> QED BY <1>1, <1>2

\* A card shows rows only, all of them unless it is full.
LEMMA AccessIs ==
  ASSUME NEW g, NEW lines, NEW id, NEW a, a = Access(g, lines, id), IsFiniteSet(AllRows(g, lines, id))
  PROVE  /\ a \in Seq(AllRows(g, lines, id))
         /\ \/ Len(a) = MaxRows
            \/ \A x \in AllRows(g, lines, id) : \E i \in 1..Len(a) : a[i] = x
<1> DEFINE R == AllRows(g, lines, id)
           s == InOrder(R)
<1>1. a = SubSeq(s, 1, Min({MaxRows, Len(s)}))
  BY DEF Access, AllRows, RowsOf, Row
<1> HIDE DEF R
<1>2. s \in Seq(R) /\ \A x \in R : \E i \in 1..Len(s) : s[i] = x
  BY OrderLists DEF R
<1> HIDE DEF s
<1>3. Len(s) \in Nat /\ \A i \in 1..Len(s) : s[i] \in R
  BY <1>2, LenProperties, ElementOfSeq
<1>4. CASE MaxRows <= Len(s)
  <2>1. a = SubSeq(s, 1, MaxRows)
    BY <1>1, <1>3, <1>4, SmallerOfTwo, OverlayAssumption
  <2>2. \A i \in 1..MaxRows : s[i] \in R
    BY <1>3, <1>4, OverlayAssumption
  <2>3. a \in Seq(R) /\ Len(a) = IF 1 <= MaxRows THEN MaxRows - 1 + 1 ELSE 0
    BY <2>1, <2>2, SubSeqProperties, OverlayAssumption
  <2>4. Len(a) = MaxRows
    BY <2>3, OverlayAssumption
  <2> QED BY <2>3, <2>4 DEF R
<1>5. CASE ~(MaxRows <= Len(s))
  <2>1. a = SubSeq(s, 1, Len(s))
    BY <1>1, <1>3, <1>5, SmallerOfTwo, OverlayAssumption
  <2>2. a = s
    BY <1>2, <2>1, SubSeqFull
  <2> QED BY <1>2, <2>2 DEF R
<1> QED BY <1>4, <1>5

LEMMA LeastHit ==
  ASSUME NEW T \in SUBSET Nat, T # {}
  PROVE  Min(T) \in T
BY Least DEF Min

\* An edge that ends on a card ends on a row of its, or on a full card.
LEMMA EdgeHasItsRow ==
  ASSUME NEW g, NEW lines, IsFiniteSet(g.edges), \A e \in g.edges : IsFiniteSet(PortsOf(e)),
         NEW k, k.access = Access(g, lines, k.id), NEW e \in DrawnEdges(g, lines), e.target = k.id
  PROVE  LET i == AccessIndex(k, e)
         IN IF i = 0 THEN Len(k.access) = MaxRows
            ELSE /\ k.access[i].label \in {p[1] : p \in PortsOf(e)}
                 /\ k.access[i].kind = e.kind
                 /\ i \in 1..Len(k.access)
<1> DEFINE a == k.access
           R == AllRows(g, lines, k.id)
           ports == PortsOf(e)
           first == InOrder(ports)[1]
           hits == {i \in DOMAIN a : a[i].label = first[1] /\ a[i].kind = e.kind}
<1>1. IsFiniteSet(R)
  BY RowsAreFinite
<1>2. a \in Seq(R) /\ (Len(a) = MaxRows \/ \A x \in R : \E i \in 1..Len(a) : a[i] = x)
  BY <1>1, AccessIs
<1>3. e \in g.edges /\ IsFiniteSet(ports)
  BY DEF DrawnEdges
<1>4. ports # {}
  BY DEF PortsOf
<1>5. first \in ports
  <2> HIDE DEF ports
  <2>1. InOrder(ports) \in Seq(ports) /\ \E i \in 1..Len(InOrder(ports)) : TRUE
    BY <1>3, <1>4, OrderLists
  <2>2. 1 \in 1..Len(InOrder(ports))
    BY <2>1
  <2> QED BY <2>1, <2>2, ElementOfSeq
<1>6. Row(e, first) \in R
  BY <1>5 DEF AllRows, RowsOf
<1>7. AccessIndex(k, e) = IF hits = {} THEN 0 ELSE Min(hits)
  BY DEF AccessIndex
<1>8. DOMAIN a = 1..Len(a) /\ Len(a) \in Nat
  <2> HIDE DEF a, R
  <2> QED BY <1>2, LenProperties
<1> HIDE DEF R
<1>9. CASE hits = {}
  <2>1. ~\E i \in 1..Len(a) : a[i] = Row(e, first)
    BY <1>8, <1>9 DEF Row
  <2> QED BY <1>2, <1>6, <1>7, <1>9, <2>1
<1>10. CASE hits # {}
  <2>1. hits \in SUBSET Nat /\ hits \subseteq 1..Len(a)
    BY <1>8
  <2>2. \A i \in hits : i # 0 /\ a[i].label = first[1] /\ a[i].kind = e.kind
    BY <2>1
  <2> HIDE DEF hits
  <2>3. Min(hits) \in hits
    BY <1>10, <2>1, LeastHit
  <2> QED BY <1>5, <1>7, <1>10, <2>1, <2>2, <2>3
<1> QED BY <1>9, <1>10

-----------------------------------------------------------------------------
(* The height of a card. *)

LEMMA RowsFit ==
  ASSUME NEW n \in Nat, NEW m \in Nat, NEW o \in {0, 8}, NEW i \in 1..n
  PROVE  2 * (36 + 6 + (i - 1) * 21) + 21 < 2 * (36 + o + ((n + m) * 21 + 6))
BY SMT

LEMMA OpenRowsFit ==
  ASSUME NEW n \in Nat, NEW d \in Nat, NEW o \in {0, 8}
  PROVE  36 + 6 + ((n + 1 + d) - 1) * 21 + 21 <= 36 + o + ((n + (d + 1)) * 21 + 6)
BY SMT

LEMMA CardHeight ==
  ASSUME NEW n, NEW rows, NEW open, Len(rows) \in Nat, IsFiniteSet(open), NEW k, k.access = rows,
         k.h = Height(n, rows, open)
  PROVE  /\ open # {} => OpenRowTop(k, Cardinality(open)) + RowH <= k.h
         /\ \A i \in 1..Len(rows) : AttachPoint(k, i) < 2 * k.h
<1> DEFINE len == Len(rows)
           m == IF open = {} THEN 0 ELSE Cardinality(open) + 1
           o == IF n.kind = "namespace" /\ n.workloads > 0 THEN 8 ELSE 0
<1>1. len \in Nat /\ m \in Nat /\ o \in {0, 8} /\ Cardinality(open) \in Nat
  BY FS_CardinalityType
<1>2. k.h = 36 + o + (IF len + m = 0 THEN 0 ELSE (len + m) * 21 + 6)
  BY DEF Height, HeaderH, RowH
<1>3. ASSUME open # {} PROVE OpenRowTop(k, Cardinality(open)) + RowH <= k.h
  <2> DEFINE d == Cardinality(open)
  <2>1. m = d + 1
    BY <1>3
  <2>2. OpenRowTop(k, d) + RowH = 36 + 6 + ((len + 1 + d) - 1) * 21 + 21
    <3> HIDE DEF d
    <3> QED BY DEF OpenRowTop, RowTop, HeaderH, RowH
  <2>3. len + m # 0
    BY <1>1, <2>1
  <2> HIDE DEF len, m, o, d
  <2>4. k.h = 36 + o + ((len + (d + 1)) * 21 + 6)
    BY <1>2, <2>1, <2>3
  <2>5. d \in Nat
    BY <1>1 DEF d
  <2>6. OpenRowTop(k, d) + RowH <= k.h
    BY <1>1, <2>2, <2>4, <2>5, OpenRowsFit
  <2> QED BY <2>6 DEF d
<1>4. ASSUME NEW i \in 1..Len(rows) PROVE AttachPoint(k, i) < 2 * k.h
  <2>1. AttachPoint(k, i) = 2 * (36 + 6 + (i - 1) * 21) + 21
    BY <1>4 DEF AttachPoint, RowTop, HeaderH, RowH
  <2>2. len + m # 0
    BY <1>1
  <2> HIDE DEF m, o
  <2> QED BY <1>1, <1>2, <2>1, <2>2, RowsFit
<1> QED BY <1>3, <1>4

-----------------------------------------------------------------------------
(* What the cards say of the workloads they stand for. *)

\* n is a node of a query's graph, or the card for what a focus leaves out.
NodeOf(c, q, n) == n \in Whole(c, q).nodes \/ \E out : n = HiddenCard(out)

\* A card that stands for workloads is a node's of theirs, and says of them what is so.
LEMMA NodeTells ==
  ASSUME NEW c, IsCluster(c), NEW q, NEW n, NodeOf(c, q, n)
  PROVE  /\ n.kind = "workload" => \E exposed : n = Node(c, q, n.id, exposed) /\ n.id[1] = "workload"
         /\ \A w \in Members(c, q, n.id) : c.isolation[w] = {} => IsUnprotectedNode(n)
         /\ IsUnprotectedNode(n) => \E w \in Members(c, q, n.id) : c.isolation[w] = {}
<1>1. CASE \E out : n = HiddenCard(out)
  <2>a. PICK out : n = HiddenCard(out)
    BY <1>1
  <2>1. n.id = HiddenId /\ n.kind = "namespace" /\ n.unprotected = 0
    BY <2>a DEF HiddenCard
  <2>2. Members(c, q, n.id) = {}
    BY <2>1 DEF Members, ClusterNodeId, WorkloadId, NsId, HiddenId
  <2> QED BY <2>1, <2>2 DEF IsUnprotectedNode
<1>2. CASE n \in Whole(c, q).nodes
  <2> DEFINE exposed == Exposed(c, q)
  <2>1. PICK id \in Ids(c, q) : n = Node(c, q, id, exposed)
    BY <1>2 DEF Whole
  <2> HIDE DEF exposed
  <2> DEFINE M == Members(c, q, id)
             bare == {w \in M : c.isolation[w] = {}}
  <2>2. n.id = id /\ n.kind = id[1] /\ n.unprotected = Cardinality(bare)
    BY <2>1 DEF Node, Members
  <2>3. IsFiniteSet(bare)
    <3>1. bare \in SUBSET Drawn(c, q) /\ IsFiniteSet(Drawn(c, q))
      BY DrawnAreFinite DEF Members
    <3> HIDE DEF bare
    <3> QED BY <3>1, FS_Subset
  <2>4. n.unprotected > 0 <=> bare # {}
    <3> HIDE DEF bare
    <3> QED BY <2>2, <2>3, FS_EmptySet, FS_CardinalityType
  <2>5. M # {} => Member(n)
    BY <2>2 DEF Members, ClusterNodeId, WorkloadId, NsId, Member
  <2>6. bare \subseteq M /\ \A w \in M : c.isolation[w] = {} => w \in bare
    OBVIOUS
  <2>7. \A w \in bare : c.isolation[w] = {}
    OBVIOUS
  <2> HIDE DEF M, bare
  <2>8. \A w \in M : c.isolation[w] = {} => IsUnprotectedNode(n)
    BY <2>4, <2>5, <2>6 DEF IsUnprotectedNode
  <2>9. IsUnprotectedNode(n) => \E w \in M : c.isolation[w] = {}
    BY <2>4, <2>6, <2>7 DEF IsUnprotectedNode
  <2> QED BY <2>1, <2>2, <2>8, <2>9 DEF M
<1> QED BY <1>1, <1>2 DEF NodeOf

\* A workload's card has no other workload, and its open rows are its own.
LEMMA OpenIsItsOwn ==
  ASSUME NEW c, IsCluster(c), NEW q, NEW n, NodeOf(c, q, n), n.kind = "workload",
         NEW w \in Members(c, q, n.id), NEW g
  PROVE  Open(g, n) = {"ingress", "egress"} \ c.isolation[w]
<1>1. PICK exposed : n = Node(c, q, n.id, exposed) /\ n.id[1] = "workload"
  BY NodeTells
<1> DEFINE id == n.id
           M == Members(c, q, id)
<1>2. M = {w}
  BY <1>1 DEF Members, ClusterNodeId, WorkloadId, NsId
<1>3. n = Node(c, q, id, exposed)
  BY <1>1
<1> HIDE DEF id
<1>4. n.known <=> M # {}
  BY <1>3 DEF Node, Members
<1>5. n.isolation = {d \in {"ingress", "egress"} : \A v \in M : d \in c.isolation[v]}
  BY <1>3 DEF Node, Members
<1> HIDE DEF M
<1>6. n.known
  BY <1>2, <1>4
<1>7. Open(g, n) = {"ingress", "egress"} \ n.isolation
  BY <1>6 DEF Open
<1> QED BY <1>2, <1>5, <1>7

\* What is on screen: nodes and edges of the answer of a State.
LEMMA Screen ==
  ASSUME TypeInv, Shell
  PROVE  LET c == Clusters[graph.rev]
             q == graph.query
         IN /\ IsCluster(c)
            /\ \A n \in Filtered.nodes : NodeOf(c, q, n)
            /\ Filtered.edges \subseteq Edges(Links(c, q))
<1>1. PICK r \in 1..rev : \E q : graph = Answer(r, q)
  BY DEF TypeInv, HeldInv, NoGraph, Shell
<1>2. PICK q : graph = Answer(r, q)
  BY <1>1
<1> DEFINE c == Clusters[r]
<1>3. graph.rev = r /\ graph.query = q /\ graph.nodes = Build(c, q).nodes /\ graph.edges = Build(c, q).edges
  BY <1>2, AnswerFields
<1>4. IsCluster(c)
  BY ViewAssumption DEF TypeInv, HeldInv
<1>5. Filtered.nodes \subseteq graph.nodes /\ Filtered.edges \subseteq graph.edges
  BY FilteredIsDrawn DEF TypeInv
<1> HIDE DEF c
<1>6. PICK out : graph.nodes \subseteq Whole(c, q).nodes \cup {HiddenCard(out)}
  BY <1>3, <1>4, BuildFields
<1>7. graph.edges \subseteq Edges(Links(c, q))
  BY <1>3, <1>4, BuildFields DEF Whole
<1>8. \A n \in Filtered.nodes : NodeOf(c, q, n)
  BY <1>5, <1>6 DEF NodeOf
<1> QED BY <1>3, <1>4, <1>5, <1>7, <1>8 DEF c

LEMMA CardFields ==
  ASSUME NEW g, NEW lines, NEW n, NEW k, k = Card(g, lines, n)
  PROVE  /\ k.id = n.id /\ k.kind = n.kind /\ k.danger = IsUnprotectedNode(n)
         /\ k.access = Access(g, lines, n.id) /\ k.open = Open(g, n)
         /\ k.h = Height(n, Access(g, lines, n.id), Open(g, n))
BY DEF Card

LEMMA OpenIsFinite ==
  ASSUME NEW g, NEW n
  PROVE  IsFiniteSet(Open(g, n))
<1>1. Open(g, n) \in SUBSET ({"ingress"} \cup {"egress"})
  BY DEF Open
<1>2. IsFiniteSet({"ingress"} \cup {"egress"})
  BY FS_Singleton, FS_Union
<1> QED BY <1>1, <1>2, FS_Subset

LEMMA CardsTell ==
  ASSUME TypeInv
  PROVE  CardsAreTrue
<1> DEFINE c == Clusters[graph.rev]
           q == graph.query
           For(n) == {w \in Drawn(c, q) : ClusterNodeId(c, q, w) = n.id}
           lines == filters.onlyUnprotected
<1> SUFFICES ASSUME Shell, NEW k \in Picture
             PROVE  /\ \A w \in For(k) : c.isolation[w] = {} => k.danger
                    /\ k.danger => \E w \in For(k) : c.isolation[w] = {}
                    /\ \A w \in For(k) : k.kind = "workload" =>
                         k.open = {"ingress", "egress"} \ c.isolation[w]
                    /\ k.open # {} => OpenRowTop(k, Cardinality(k.open)) + RowH <= k.h
                    /\ \A e \in Curves(Filtered, lines) : e.target = k.id =>
                         LET i == AccessIndex(k, e)
                         IN IF i = 0 THEN Len(k.access) = MaxRows
                            ELSE /\ k.access[i].label \in {p[1] : p \in PortsOf(e)}
                                 /\ k.access[i].kind = e.kind
                                 /\ AttachPoint(k, i) < 2 * k.h
  BY DEF CardsAreTrue
<1>1. /\ IsCluster(c) /\ \A n \in Filtered.nodes : NodeOf(c, q, n)
      /\ Filtered.edges \subseteq Edges(Links(c, q))
  BY Screen
<1>2. PICK n \in Filtered.nodes : k = Card(Filtered, lines, n)
  BY DEF Picture, Cards, DrawnNodes
<1>3. /\ k.id = n.id /\ k.kind = n.kind /\ k.danger = IsUnprotectedNode(n)
      /\ k.access = Access(Filtered, lines, n.id) /\ k.open = Open(Filtered, n)
      /\ k.h = Height(n, k.access, k.open)
  BY <1>2, CardFields
<1>4. For(k) = Members(c, q, n.id)
  BY <1>3 DEF Members
<1>5. IsFiniteSet(Filtered.edges) /\ \A e \in Filtered.edges : IsFiniteSet(PortsOf(e))
  <2> DEFINE links == Links(c, q)
  <2> HIDE DEF c, q
  <2>1. IsFiniteSet(links) /\ \A l \in links : IsFiniteSet(l.ports)
    BY <1>1, LinksAreFinite, LinkPortsAreFinite
  <2>2. Filtered.edges \in SUBSET Edges(links)
    BY <1>1
  <2> HIDE DEF links
  <2> QED BY <2>1, <2>2, EdgesAreFinite, EdgePortsAreFinite, FS_Subset
<1> HIDE DEF c, q, For, lines
<1>6. /\ \A w \in For(k) : c.isolation[w] = {} => k.danger
      /\ k.danger => \E w \in For(k) : c.isolation[w] = {}
  BY <1>1, <1>3, <1>4, NodeTells
<1>7. \A w \in For(k) : k.kind = "workload" => k.open = {"ingress", "egress"} \ c.isolation[w]
  <2> TAKE w \in For(k)
  <2> HAVE k.kind = "workload"
  <2>1. n.kind = "workload" /\ w \in Members(c, q, n.id) /\ NodeOf(c, q, n)
    BY <1>1, <1>2, <1>3, <1>4
  <2>2. Open(Filtered, n) = {"ingress", "egress"} \ c.isolation[w]
    BY <1>1, <2>1, OpenIsItsOwn
  <2> QED BY <1>3, <2>2
<1>8. Len(k.access) \in Nat
  BY <1>3, <1>5, RowsAreFinite, AccessIs, LenProperties
<1>9. /\ k.open # {} => OpenRowTop(k, Cardinality(k.open)) + RowH <= k.h
      /\ \A i \in 1..Len(k.access) : AttachPoint(k, i) < 2 * k.h
  BY <1>3, <1>8, OpenIsFinite, CardHeight
<1>10. ASSUME NEW e \in Curves(Filtered, lines), e.target = k.id
       PROVE  LET i == AccessIndex(k, e)
              IN IF i = 0 THEN Len(k.access) = MaxRows
                 ELSE /\ k.access[i].label \in {p[1] : p \in PortsOf(e)}
                      /\ k.access[i].kind = e.kind
                      /\ i \in 1..Len(k.access)
  BY <1>3, <1>5, <1>10, EdgeHasItsRow DEF Curves
<1> QED BY <1>6, <1>7, <1>9, <1>10

\* Of any cluster and in any view: a card (overlay.ts) is marked exactly when one of
\* its workloads has no policy, opens in the directions nothing isolates, has room
\* for its rows, and every curve ends on the row of its port, or on a full card.
THEOREM CardsTellTheTruth ==
  Spec => []CardsAreTrue
BY CardsTell, TypeInvHolds, PTL
=============================================================================
