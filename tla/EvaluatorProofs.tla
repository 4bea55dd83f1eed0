-------------------------- MODULE EvaluatorProofs ---------------------------
(***************************************************************************)
(* What the combination of the policy layers guarantees, for every set of  *)
(* policies, workloads, prefixes and domains.  The argument is pointwise:  *)
(* a query matches a merged list iff it matches an entry of it, two        *)
(* entries that match one endpoint have peers and ports that meet, and the *)
(* intersection of peers is exact unless it is marked approximate.  Where  *)
(* named ports settle, a layer then allows what its rules say, and its     *)
(* rules say what the API's objects say: from this come the theorems on    *)
(* the dialog, the inspector and the normaliser.                           *)
(***************************************************************************)
EXTENDS InspectorPanel, Normalize, SequenceTheorems, FiniteSetTheorems, TLAPS

(* What domain.go relies on about its wildcards, for every set of labels. *)

LEMMA PrefixByLabel ==
  ASSUME NEW s \in Names, NEW t \in Names
  PROVE  IsPrefix(s, t) <=> Len(s) <= Len(t) /\ \A i \in 1..Len(s) : s[i] = t[i]
  BY DEF IsPrefix, Names

\* "With prefix-only wildcards, any two patterns are either disjoint or one
\* contains the other" (IntersectDomains): two patterns one name matches are
\* nested.
THEOREM PatternsNestOrAreDisjoint ==
  ASSUME NEW a \in Patterns, NEW b \in Patterns, NEW n \in Names,
         MatchDomain(a, n), MatchDomain(b, n)
  PROVE  DomainsMeet(a, b)
  BY PrefixByLabel DEF MatchDomain, DomainsMeet, DomainContains, Patterns, IsStrictPrefix

\* DomainContains means what its comment says: "every name matched by inner is
\* also matched by outer".
THEOREM ContainedNamesMatch ==
  ASSUME NEW outer \in Patterns, NEW inner \in Patterns, NEW n \in Names,
         DomainContains(outer, inner), MatchDomain(inner, n)
  PROVE  MatchDomain(outer, n)
<1> USE DEF Patterns, DomainContains, MatchDomain
<1>1. CASE ~outer.wild \/ ~inner.wild
  BY <1>1
<1>2. CASE outer.wild /\ inner.wild
  <2>1. /\ IsPrefix(outer.labels, inner.labels)
        /\ IsPrefix(inner.labels, n) /\ inner.labels # n
    BY <1>2 DEF IsStrictPrefix
  <2>2. IsPrefix(outer.labels, n)
    BY <2>1, PrefixByLabel DEF Names
  <2>3. outer.labels # n
    <3>1. SUFFICES ASSUME outer.labels = n PROVE FALSE
      OBVIOUS
    <3>2. Len(inner.labels) = Len(n) /\ \A i \in 1..Len(inner.labels) : inner.labels[i] = n[i]
      BY <2>1, <3>1, PrefixByLabel, LenProperties DEF Names
    <3> QED
      BY <2>1, <3>2, SeqEqual DEF Names
  <2> QED
    BY <1>2, <2>2, <2>3 DEF IsStrictPrefix
<1> QED
  BY <1>1, <1>2

\* IntersectDomains returns "the pattern matching exactly the names both
\* accept".
THEOREM IntersectionIsExact ==
  ASSUME NEW a \in Patterns, NEW b \in Patterns, NEW n \in Names, DomainsMeet(a, b)
  PROVE  MatchDomain(IntersectDomains(a, b), n) <=> MatchDomain(a, n) /\ MatchDomain(b, n)
  BY ContainedNamesMatch DEF IntersectDomains, DomainsMeet

-----------------------------------------------------------------------------
(* The peers and endpoints of the policies.                                    *)

LEMMA PeerKinds ==
  ASSUME NEW a \in Peers
  PROVE  \/ a.kind = "any"
         \/ a.kind = "pods" /\ a \in Pods
         \/ a.kind = "cidr" /\ a \in CIDRs
         \/ a.kind = "domain" /\ a \in Domain
  BY DEF Peers, AnyPeer, Pods, CIDRs, Domain

LEMMA EndpointKinds ==
  ASSUME NEW ep \in Endpoints
  PROVE  \/ ep.kind = "workload" /\ ep.workload \in Workloads
         \/ ep.kind = "cidr" /\ ep.block \in Blocks /\ ep.block # {}
         \/ ep.kind = "domain" /\ ep.name \in Names
  BY EvaluatorAssumption DEF Endpoints

\* Two peers that match one endpoint are of kinds whose intersection is exact,
\* and it is not empty.
LEMMA MatchingPeersMeet ==
  ASSUME NEW a \in Peers, NEW b \in Peers, NEW ep \in Endpoints,
         PeerMatches(a, ep), PeerMatches(b, ep)
  PROVE  PeersMeet(a, b) /\ ~Undecided(a, b)
<1> USE PeerKinds, EndpointKinds DEF PeersMeet, Undecided, PeerMatches
<1>1. CASE a.kind = "any" \/ b.kind = "any"
  BY <1>1
<1>2. CASE ep.kind = "workload" /\ a.kind # "any" /\ b.kind # "any"
  BY <1>2
<1>3. CASE ep.kind = "cidr" /\ a.kind # "any" /\ b.kind # "any"
  BY <1>3
<1>4. CASE ep.kind = "domain" /\ a.kind # "any" /\ b.kind # "any"
  BY <1>4, PatternsNestOrAreDisjoint DEF Domain
<1> QED
  BY <1>1, <1>2, <1>3, <1>4

-----------------------------------------------------------------------------
(* Intersecting peers and ports. *)

\* "intersectPeers returns the peer matching exactly what both peers match",
\* for every pair it does not mark approximate.
THEOREM IntersectPeersIsExact ==
  ASSUME NEW a \in Peers, NEW b \in Peers, NEW ep \in Endpoints,
         PeersMeet(a, b), ~Undecided(a, b)
  PROVE  PeerMatches(IntersectPeers(a, b), ep) <=> PeerMatches(a, ep) /\ PeerMatches(b, ep)
<1> USE PeerKinds, EndpointKinds DEF IntersectPeers, PeerMatches
<1>1. CASE a.kind = "any" \/ b.kind = "any"
  BY <1>1
<1>2. CASE a.kind = "pods" /\ b.kind = "pods"
  BY <1>2
<1>3. CASE a.kind = "cidr" /\ b.kind = "cidr"
  <2>1. /\ a.block \in Blocks /\ a.except \subseteq Blocks
        /\ b.block \in Blocks /\ b.except \subseteq Blocks
    BY <1>3 DEF CIDRs
  <2>2. a.block \cap b.block # {}
    BY <1>3 DEF PeersMeet, Undecided
  <2>3. a.block \subseteq b.block \/ b.block \subseteq a.block
    BY <2>1, <2>2, PrefixAssumption
  <2> DEFINE c == IntersectCIDRs(a, b)
  <2>4. IntersectPeers(a, b) = c
    BY <1>3
  <2>5. /\ c.kind = "cidr" /\ c.block = a.block \cap b.block
        /\ c.except = {x \in a.except \cup b.except : x \cap c.block # {}}
    BY <2>3 DEF IntersectCIDRs
  <2> HIDE DEF c
  <2>6. CASE ep.kind = "cidr"
    BY <1>3, <2>4, <2>5, <2>6
  <2> QED
    BY <1>3, <2>4, <2>5, <2>6
<1>4. CASE a.kind = "domain" /\ b.kind = "domain"
  <2>1. a.domain \in Patterns /\ b.domain \in Patterns /\ DomainsMeet(a.domain, b.domain)
    BY <1>4 DEF Domain, PeersMeet, Undecided
  <2>2. CASE ep.kind = "domain"
    BY <1>4, <2>1, <2>2, IntersectionIsExact
  <2> QED
    BY <1>4, <2>2
<1> QED
  BY <1>1, <1>2, <1>3, <1>4 DEF PeersMeet, Undecided

\* Ports meet exactly where both sets allow.
LEMMA IntersectPortsIsExact ==
  ASSUME NEW x \in SUBSET Ports, NEW y \in SUBSET Ports, NEW port \in Ports
  PROVE  /\ PortsAllow(x, port) /\ PortsAllow(y, port)
              => PortsMeet(x, y) /\ PortsAllow(IntersectPorts(x, y), port)
         /\ PortsMeet(x, y) /\ PortsAllow(IntersectPorts(x, y), port)
              => PortsAllow(x, port) /\ PortsAllow(y, port)
  BY DEF PortsAllow, PortsMeet, IntersectPorts

-----------------------------------------------------------------------------
(* Merging entries. *)

\* What a list of entries permits: this port with the endpoints of this peer.
Covers(allows, peer, port) == \E a \in allows : a.peer = peer /\ PortsAllow(a.ports, port)

LEMMA MatchingIsCovering ==
  ASSUME NEW allows, NEW other, NEW port
  PROVE  Matching(allows, other, port) # {}
           <=> \E peer : Covers(allows, peer, port) /\ PeerMatches(peer, other)
  BY DEF Matching, Covers

\* A merged list covers exactly what the entries covered.
LEMMA MergeCovers ==
  ASSUME NEW allows, NEW first, NEW peer, NEW port
  PROVE  Covers(MergeAllows(allows, first), peer, port) <=> Covers(allows, peer, port)
<1> DEFINE Same(q) == {a \in allows : a.peer = q}
           PortsOf(q) == {a.ports : a \in Same(q)}
           Merged(q) == [peer |-> q,
                         ports |-> IF {} \in PortsOf(q) THEN {} ELSE UNION PortsOf(q),
                         via |-> UNION {a.via : a \in Same(q)},
                         approximate |-> first[q]]
<1>1. MergeAllows(allows, first) = {Merged(q) : q \in {a.peer : a \in allows}}
  BY DEF MergeAllows
<1>2. \A q : /\ Merged(q).peer = q
             /\ Merged(q).ports = IF {} \in PortsOf(q) THEN {} ELSE UNION PortsOf(q)
  OBVIOUS
<1>3. ASSUME NEW a \in allows, a.peer = peer, PortsAllow(a.ports, port)
      PROVE  Covers(MergeAllows(allows, first), peer, port)
  <2>1. Merged(peer) \in MergeAllows(allows, first)
    BY <1>1, <1>3
  <2>2. a.ports \in PortsOf(peer)
    BY <1>3
  <2>3. PortsAllow(Merged(peer).ports, port)
    BY <1>2, <1>3, <2>2 DEF PortsAllow
  <2> HIDE DEF Merged
  <2> QED BY <1>2, <2>1, <2>3 DEF Covers
<1>4. ASSUME NEW m \in MergeAllows(allows, first), m.peer = peer, PortsAllow(m.ports, port)
      PROVE  Covers(allows, peer, port)
  <2>1. PICK a \in allows : m = Merged(a.peer)
    <3> HIDE DEF Merged
    <3> QED BY <1>1
  <2>2. a.peer = peer /\ PortsAllow(Merged(peer).ports, port)
    BY <1>2, <1>4, <2>1
  <2>3. \E ports \in PortsOf(peer) : PortsAllow(ports, port)
    <3>1. a.ports \in PortsOf(peer)
      BY <2>2
    <3> QED BY <1>2, <2>2, <3>1 DEF PortsAllow
  <2> QED BY <2>3 DEF Covers
<1> QED
  <2> HIDE DEF Merged
  <2> QED BY <1>3, <1>4 DEF Covers

LEMMA MergeKeepsMatches ==
  ASSUME NEW allows, NEW first, NEW other, NEW port
  PROVE  Matching(MergeAllows(allows, first), other, port) # {}
           <=> Matching(allows, other, port) # {}
  BY MergeCovers, MatchingIsCovering

-----------------------------------------------------------------------------
(* The layers. *)

IsAllows(allows) == \A a \in allows : a.peer \in Peers /\ a.ports \in SUBSET Ports

LEMMA PoliciesAreTyped ==
  ASSUME NEW p \in Policies, NEW dir \in Directions, NEW r \in p.rules[dir]
  PROVE  p.namespace \in Namespaces /\ IsRule(r)
  BY EvaluatorAssumption DEF IsPolicy

LEMMA ResolvedPeers ==
  ASSUME NEW p, p.namespace \in Namespaces, NEW r, IsRule(r), NEW peer \in r.peers
  PROVE  ResolvePeer(p, peer) \in Peers
<1>1. CASE peer \in PodSelectors
  <2> DEFINE namespaces == IF peer.own THEN {p.namespace} ELSE peer.namespaces
             workloads == {w \in Workloads : NamespaceOf[w] \in namespaces /\ LabelOf[w] \in peer.labels}
  <2>1. ResolvePeer(p, peer) = [kind |-> "pods", namespaces |-> namespaces, workloads |-> workloads]
    BY <1>1 DEF ResolvePeer, PodSelectors
  <2>2. namespaces \in SUBSET Namespaces /\ workloads \in SUBSET Workloads
    BY <1>1 DEF PodSelectors
  <2> HIDE DEF namespaces, workloads
  <2> QED
    BY <2>1, <2>2 DEF Peers, Pods
<1>2. CASE peer \in CIDRs \cup Domain
  BY <1>2 DEF ResolvePeer, CIDRs, Domain, Peers
<1> QED
  BY <1>1, <1>2 DEF IsRule

LEMMA ResolvedPorts ==
  ASSUME NEW r, IsRule(r), NEW dir, NEW w, NEW peer
  PROVE  RulePorts(r, dir, w, peer) \in SUBSET Ports
<1>1. \A e \in r.ports : e.covers \subseteq Ports
  BY DEF IsRule, PortEntries
<1>2. ASSUME NEW targets
      PROVE  ResolveNamedPorts(r.ports, targets) \subseteq Ports
  BY <1>1 DEF ResolveNamedPorts
<1> QED
  BY <1>2 DEF RulePorts

LEMMA RulesAreTyped ==
  ASSUME NEW p, p.namespace \in Namespaces, NEW r, IsRule(r), NEW dir, NEW w
  PROVE  IsAllows(RuleAllows(p, r, dir, w))
<1> DEFINE peers == IF r.peers = {} THEN {AnyPeer} ELSE {ResolvePeer(p, peer) : peer \in r.peers}
<1>1. peers \subseteq Peers
  BY ResolvedPeers DEF Peers
<1>2. RuleAllows(p, r, dir, w) =
        {[peer |-> peer, ports |-> RulePorts(r, dir, w, peer),
          via |-> {r.id}, approximate |-> FALSE] : peer \in peers}
  BY DEF RuleAllows
<1> HIDE DEF peers
<1> QED
  BY <1>1, <1>2, ResolvedPorts DEF IsAllows

LEMMA MergingKeepsTypes ==
  ASSUME NEW allows, IsAllows(allows), NEW first
  PROVE  IsAllows(MergeAllows(allows, first))
  BY DEF IsAllows, MergeAllows

\* The layer that the policies S make.
LayerFrom(S, w, dir) ==
  LET allows == UNION {UNION {RuleAllows(p, r, dir, w) : r \in p.rules[dir]} : p \in S}
  IN MergeAllows(allows, Exact(allows))

LEMMA LayersAreTyped ==
  ASSUME NEW S \in SUBSET Policies, NEW w \in Workloads, NEW dir \in Directions
  PROVE  IsAllows(LayerFrom(S, w, dir))
<1> DEFINE allows == UNION {UNION {RuleAllows(p, r, dir, w) : r \in p.rules[dir]} : p \in S}
<1>1. IsAllows(allows)
  BY PoliciesAreTyped, RulesAreTyped DEF IsAllows
<1> QED
  BY <1>1, MergingKeepsTypes DEF LayerFrom

\* More policies cover more.
LEMMA LayersGrow ==
  ASSUME NEW S, NEW T, S \subseteq T, NEW w, NEW dir, NEW peer, NEW port,
         Covers(LayerFrom(S, w, dir), peer, port)
  PROVE  Covers(LayerFrom(T, w, dir), peer, port)
<1> DEFINE Entries(U) == UNION {UNION {RuleAllows(p, r, dir, w) : r \in p.rules[dir]} : p \in U}
<1>1. \A U : LayerFrom(U, w, dir) = MergeAllows(Entries(U), Exact(Entries(U)))
  BY DEF LayerFrom
<1>2. Entries(S) \subseteq Entries(T)
  OBVIOUS
<1> HIDE DEF Entries
<1>3. Covers(Entries(S), peer, port)
  BY <1>1, MergeCovers
<1>4. Covers(Entries(T), peer, port)
  BY <1>2, <1>3 DEF Covers
<1> QED BY <1>1, <1>4, MergeCovers

LEMMA LayerIsFrom ==
  ASSUME NEW w, NEW dir, NEW provider
  PROVE  Layer(w, dir, provider) = LayerFrom(Selecting(w, dir, provider), w, dir)
  BY DEF Layer, LayerFrom

LEMMA LayerIsTyped ==
  ASSUME policies \subseteq Policies, NEW w \in Workloads, NEW dir \in Directions, NEW provider
  PROVE  IsAllows(Layer(w, dir, provider))
<1>1. Selecting(w, dir, provider) \subseteq Policies
  BY DEF Selecting
<1> QED BY <1>1, LayerIsFrom, LayersAreTyped

LEMMA SilentLayer ==
  ASSUME NEW w, NEW dir, NEW provider, ~Isolates(w, dir, provider)
  PROVE  Layer(w, dir, provider) = {}
  BY DEF Layer, Isolates, MergeAllows

-----------------------------------------------------------------------------
(* Combining two layers. *)

\* The intersection of two layers matches what the intersection of two peers
\* they cover matches.
LEMMA IntersectionMatches ==
  ASSUME NEW x, IsAllows(x), NEW y, IsAllows(y),
         NEW other \in Endpoints, NEW port \in Ports
  PROVE  Matching(IntersectAllows(x, y), other, port) # {}
           <=> \E p, q : /\ Covers(x, p, port) /\ Covers(y, q, port)
                         /\ PeersMeet(p, q) /\ PeerMatches(IntersectPeers(p, q), other)
<1> DEFINE pairs == {m \in x \X y : /\ PeersMeet(m[1].peer, m[2].peer)
                                    /\ PortsMeet(m[1].ports, m[2].ports)}
           met == {Meet(m[1], m[2]) : m \in pairs}
<1>1. \E first : IntersectAllows(x, y) = MergeAllows(met, first)
  BY DEF IntersectAllows
<1>2. Matching(IntersectAllows(x, y), other, port) # {} <=> Matching(met, other, port) # {}
  BY <1>1, MergeKeepsMatches
<1>3. ASSUME NEW a \in x, NEW b \in y, PeersMeet(a.peer, b.peer),
             PortsAllow(a.ports, port), PortsAllow(b.ports, port),
             PeerMatches(IntersectPeers(a.peer, b.peer), other)
      PROVE  Meet(a, b) \in Matching(met, other, port)
  <2>1. PortsMeet(a.ports, b.ports) /\ PortsAllow(IntersectPorts(a.ports, b.ports), port)
    BY <1>3, IntersectPortsIsExact DEF IsAllows
  <2>2. <<a, b>> \in pairs
    BY <1>3, <2>1
  <2>3. Meet(a, b) \in met
    BY <2>2
  <2> QED BY <1>3, <2>1, <2>3 DEF Matching, Meet
<1>4. ASSUME NEW e \in Matching(met, other, port)
      PROVE  \E a \in x, b \in y :
               /\ PeersMeet(a.peer, b.peer)
               /\ PortsAllow(a.ports, port) /\ PortsAllow(b.ports, port)
               /\ PeerMatches(IntersectPeers(a.peer, b.peer), other)
  <2>1. PICK m \in pairs : e = Meet(m[1], m[2])
    BY DEF Matching
  <2> DEFINE a == m[1]
             b == m[2]
  <2>2. a \in x /\ b \in y /\ PeersMeet(a.peer, b.peer) /\ PortsMeet(a.ports, b.ports)
    BY <2>1
  <2>3. PeerMatches(IntersectPeers(a.peer, b.peer), other) /\ PortsAllow(IntersectPorts(a.ports, b.ports), port)
    BY <2>1 DEF Matching, Meet
  <2>4. PortsAllow(a.ports, port) /\ PortsAllow(b.ports, port)
    BY <2>2, <2>3, IntersectPortsIsExact DEF IsAllows
  <2> QED BY <2>2, <2>3, <2>4
<1> HIDE DEF met
<1> QED BY <1>2, <1>3, <1>4 DEF Covers

\* The intersection answers a query both layers allow.
LEMMA IntersectionAllows ==
  ASSUME NEW x, IsAllows(x), NEW y, IsAllows(y),
         NEW other \in Endpoints, NEW port \in Ports,
         Matching(x, other, port) # {}, Matching(y, other, port) # {}
  PROVE  Matching(IntersectAllows(x, y), other, port) # {}
<1>1. PICK p, q : /\ Covers(x, p, port) /\ PeerMatches(p, other)
                  /\ Covers(y, q, port) /\ PeerMatches(q, other)
  BY MatchingIsCovering
<1>2. p \in Peers /\ q \in Peers
  BY <1>1 DEF Covers, IsAllows
<1>3. PeersMeet(p, q) /\ PeerMatches(IntersectPeers(p, q), other)
  BY <1>1, <1>2, MatchingPeersMeet, IntersectPeersIsExact
<1> QED BY <1>1, <1>3, IntersectionMatches

\* What the intersection allows, both layers allow, or a pair that cannot be
\* decided covers it.
LEMMA IntersectionExplained ==
  ASSUME NEW x, IsAllows(x), NEW y, IsAllows(y),
         NEW other \in Endpoints, NEW port \in Ports,
         Matching(IntersectAllows(x, y), other, port) # {}
  PROVE  \/ Matching(x, other, port) # {} /\ Matching(y, other, port) # {}
         \/ \E a \in x, b \in y :
              /\ Undecided(a.peer, b.peer)
              /\ PortsAllow(a.ports, port) /\ PortsAllow(b.ports, port)
              /\ PeerMatches(IntersectPeers(a.peer, b.peer), other)
<1>1. PICK p, q : /\ Covers(x, p, port) /\ Covers(y, q, port)
                  /\ PeersMeet(p, q) /\ PeerMatches(IntersectPeers(p, q), other)
  BY IntersectionMatches
<1>2. p \in Peers /\ q \in Peers
  BY <1>1 DEF Covers, IsAllows
<1>3. CASE Undecided(p, q)
  BY <1>1, <1>3 DEF Covers
<1>4. CASE ~Undecided(p, q)
  <2>1. PeerMatches(p, other) /\ PeerMatches(q, other)
    BY <1>1, <1>2, <1>4, IntersectPeersIsExact
  <2> QED BY <1>1, <2>1, MatchingIsCovering
<1> QED BY <1>3, <1>4

\* An undecided pair leaves the pods or the domain of the two: no address
\* matches it, and whatever matches it matches one of the two.
LEMMA UndecidedKeepsOne ==
  ASSUME NEW a, NEW b, Undecided(a, b), NEW other
  PROVE  /\ IntersectPeers(a, b) \in {a, b}
         /\ IntersectPeers(a, b).kind \in {"domain", "pods"}
         /\ other.kind = "cidr" => ~PeerMatches(IntersectPeers(a, b), other)
<1>1. /\ IntersectPeers(a, b) \in {a, b}
      /\ IntersectPeers(a, b).kind \in {"domain", "pods"}
  BY DEF Undecided, IntersectPeers
<1> QED
  BY <1>1 DEF PeerMatches

-----------------------------------------------------------------------------
(* The theorems about every snapshot. *)

LEMMA PoliciesStayTyped == Spec => [](policies \subseteq Policies)
<1>1. Init => policies \subseteq Policies
  BY DEF Init
<1>2. policies \subseteq Policies /\ [Next]_policies => (policies \subseteq Policies)'
  BY DEF Next, AddPolicy
<1> QED
  BY <1>1, <1>2, PTL DEF Spec

LEMMA WhatAllowedMeans ==
  ASSUME NEW w, NEW other, NEW dir, NEW port, NEW mode, Layers(w, dir) # {}
  PROVE  /\ Allowed(w, other, dir, port, mode)
              <=> Matching(CombineLayers(w, dir, mode), other, port) # {}
         /\ \A provider : ByLayer(w, other, dir, port, provider) = "allowed"
                            <=> Matching(Layer(w, dir, provider), other, port) # {}
  BY DEF Allowed, Decide, ByLayer, ResultOf

\* While one layer isolates, it alone is the combination.
LEMMA OneLayer ==
  ASSUME NEW w, NEW dir, NEW mode, NEW provider \in Layers(w, dir), Layers(w, dir) # Providers
  PROVE  Layers(w, dir) = {provider} /\ CombineLayers(w, dir, mode) = Layer(w, dir, provider)
<1>1. Layers(w, dir) = {provider}
  BY DEF Layers, Providers
<1>2. \A q \in Providers \ {provider} : Layer(w, dir, q) = {}
  BY <1>1, SilentLayer DEF Layers
<1>3. CombineLayers(w, dir, mode) = Layer(w, dir, "aws-anp") \cup Layer(w, dir, "k8s")
  BY DEF CombineLayers
<1>4. CASE provider = "aws-anp"
  <2>1. Layer(w, dir, "k8s") = {}
    BY <1>2, <1>4 DEF Providers
  <2> QED
    BY <1>1, <1>3, <1>4, <2>1
<1>5. CASE provider = "k8s"
  <2>1. Layer(w, dir, "aws-anp") = {}
    BY <1>2, <1>5 DEF Providers
  <2> QED
    BY <1>1, <1>3, <1>5, <2>1
<1> QED
  BY <1>4, <1>5 DEF Layers, Providers

LEMMA BothLayers ==
  ASSUME NEW w, NEW dir, NEW mode, Layers(w, dir) = Providers
  PROVE  CombineLayers(w, dir, mode) =
           IF mode = "union"
           THEN MergeAllows(Layer(w, dir, "aws-anp") \cup Layer(w, dir, "k8s"),
                            Exact(Layer(w, dir, "aws-anp") \cup Layer(w, dir, "k8s")))
           ELSE IntersectAllows(Layer(w, dir, "aws-anp"), Layer(w, dir, "k8s"))
  BY DEF CombineLayers

LEMMA UnionMatches ==
  ASSUME NEW x, NEW y, NEW first, NEW other, NEW port
  PROVE  Matching(MergeAllows(x \cup y, first), other, port) # {}
           <=> Matching(x, other, port) # {} \/ Matching(y, other, port) # {}
<1>1. Matching(x \cup y, other, port) = Matching(x, other, port) \cup Matching(y, other, port)
  BY DEF Matching
<1> QED
  BY <1>1, MergeKeepsMatches

\* What the next theorem says, of one state.
LEMMA NothingDeniedFalsely == policies \subseteq Policies => NoFalseDenial
<1> SUFFICES ASSUME policies \subseteq Policies,
                    NEW w \in Workloads, NEW dir \in Directions, NEW other \in Endpoints,
                    NEW port \in Ports, Layers(w, dir) # {}, AllLayersAllow(w, other, dir, port),
                    NEW mode \in CombineModes
             PROVE  Allowed(w, other, dir, port, mode)
  BY DEF NoFalseDenial, Asked
<1>1. \A q \in Layers(w, dir) : Matching(Layer(w, dir, q), other, port) # {}
  BY WhatAllowedMeans DEF AllLayersAllow
<1>2. CASE Layers(w, dir) # Providers
  BY <1>1, <1>2, OneLayer, WhatAllowedMeans
<1>3. CASE Layers(w, dir) = Providers
  <2>1. /\ Matching(Layer(w, dir, "aws-anp"), other, port) # {}
        /\ Matching(Layer(w, dir, "k8s"), other, port) # {}
    BY <1>1, <1>3 DEF Providers
  <2>2. Matching(IntersectAllows(Layer(w, dir, "aws-anp"), Layer(w, dir, "k8s")), other, port) # {}
    BY <2>1, IntersectionAllows, LayerIsTyped
  <2>3. \A first : Matching(MergeAllows(Layer(w, dir, "aws-anp") \cup Layer(w, dir, "k8s"), first),
                            other, port) # {}
    BY <2>1, UnionMatches
  <2>4. Matching(CombineLayers(w, dir, mode), other, port) # {}
    BY <1>3, <2>2, <2>3, BothLayers
  <2> QED
    BY <2>4, WhatAllowedMeans
<1> QED
  BY <1>2, <1>3

\* Whatever the policies, the workloads and the mode: what every isolating
\* layer allows, their combination allows.
THEOREM NeverDeniedFalsely == Spec => []NoFalseDenial
BY NothingDeniedFalsely, PoliciesStayTyped, PTL

\* An address is allowed only when every isolating layer allows it, in the
\* default mode.
THEOREM AddressesAreSafe == Spec => []AddressesNeedEveryLayer
<1>1. policies \subseteq Policies => AddressesNeedEveryLayer
  <2> SUFFICES ASSUME policies \subseteq Policies,
                      NEW w \in Workloads, NEW dir \in Directions, NEW other \in Endpoints,
                      NEW port \in Ports, Layers(w, dir) # {},
                      other.kind = "cidr", Allowed(w, other, dir, port, "intersect")
               PROVE  AllLayersAllow(w, other, dir, port)
    BY DEF AddressesNeedEveryLayer, Asked
  <2>1. Matching(CombineLayers(w, dir, "intersect"), other, port) # {}
    BY WhatAllowedMeans
  <2>2. CASE Layers(w, dir) # Providers
    BY <2>1, <2>2, OneLayer, WhatAllowedMeans DEF AllLayersAllow
  <2>3. CASE Layers(w, dir) = Providers
    <3>1. Matching(IntersectAllows(Layer(w, dir, "aws-anp"), Layer(w, dir, "k8s")), other, port) # {}
      BY <2>1, <2>3, BothLayers
    <3>2. /\ Matching(Layer(w, dir, "aws-anp"), other, port) # {}
          /\ Matching(Layer(w, dir, "k8s"), other, port) # {}
      BY <3>1, IntersectionExplained, UndecidedKeepsOne, LayerIsTyped
    <3> QED
      BY <2>3, <3>2, WhatAllowedMeans DEF AllLayersAllow, Providers
  <2> QED
    BY <2>2, <2>3
<1> QED
  BY <1>1, PoliciesStayTyped, PTL

\* What the next theorem says, of one state.
LEMMA OverreachHasAPair == policies \subseteq Policies => OverreachIsUndecided
<1> SUFFICES ASSUME policies \subseteq Policies,
                    NEW w \in Workloads, NEW dir \in Directions, NEW other \in Endpoints,
                    NEW port \in Ports, Layers(w, dir) # {},
                    Allowed(w, other, dir, port, "intersect")
             PROVE  \/ AllLayersAllow(w, other, dir, port)
                    \/ SomeLayerAllows(w, other, dir, port) /\ UndecidedPair(w, other, dir, port)
  BY DEF OverreachIsUndecided, Asked
<1>1. Matching(CombineLayers(w, dir, "intersect"), other, port) # {}
  BY WhatAllowedMeans
<1>2. CASE Layers(w, dir) # Providers
  BY <1>1, <1>2, OneLayer, WhatAllowedMeans DEF AllLayersAllow
<1>3. CASE Layers(w, dir) = Providers
  <2> DEFINE aws == Layer(w, dir, "aws-anp")
             k8s == Layer(w, dir, "k8s")
  <2>1. Matching(IntersectAllows(aws, k8s), other, port) # {}
    BY <1>1, <1>3, BothLayers
  <2>2. CASE Matching(aws, other, port) # {} /\ Matching(k8s, other, port) # {}
    BY <1>3, <2>2, WhatAllowedMeans DEF AllLayersAllow, Providers
  <2>3. CASE \E a \in aws, b \in k8s :
               /\ Undecided(a.peer, b.peer)
               /\ PortsAllow(a.ports, port) /\ PortsAllow(b.ports, port)
               /\ PeerMatches(IntersectPeers(a.peer, b.peer), other)
    <3>1. PICK a \in aws, b \in k8s :
               /\ Undecided(a.peer, b.peer)
               /\ PortsAllow(a.ports, port) /\ PortsAllow(b.ports, port)
               /\ PeerMatches(IntersectPeers(a.peer, b.peer), other)
      BY <2>3
    <3>2. PeerMatches(a.peer, other) \/ PeerMatches(b.peer, other)
      BY <3>1, UndecidedKeepsOne
    <3>3. UndecidedPair(w, other, dir, port)
      BY <3>1, <3>2 DEF UndecidedPair
    <3>4. Matching(aws, other, port) # {} \/ Matching(k8s, other, port) # {}
      BY <3>1, <3>2 DEF Matching
    <3>5. SomeLayerAllows(w, other, dir, port)
      BY <1>3, <3>4, WhatAllowedMeans DEF SomeLayerAllows, Providers
    <3> QED
      BY <3>3, <3>5
  <2>4. QED
    BY <2>1, <2>2, <2>3, IntersectionExplained, LayerIsTyped
<1> QED
  BY <1>2, <1>3

\* The default mode allows more than every layer does only through a pair of
\* peers that configuration cannot decide, and then with one layer behind it.
THEOREM OverreachIsExplained == Spec => []OverreachIsUndecided
BY OverreachHasAPair, PoliciesStayTyped, PTL

\* What the next theorem says, of one state.
LEMMA UnionAsksOne == UnionNeedsOneLayer
<1> SUFFICES ASSUME NEW w \in Workloads, NEW dir \in Directions, NEW other \in Endpoints,
                    NEW port \in Ports, Layers(w, dir) # {}
             PROVE  Allowed(w, other, dir, port, "union") <=> SomeLayerAllows(w, other, dir, port)
  BY DEF UnionNeedsOneLayer, Asked
<1>1. SomeLayerAllows(w, other, dir, port)
        <=> \E q \in Layers(w, dir) : Matching(Layer(w, dir, q), other, port) # {}
  BY WhatAllowedMeans DEF SomeLayerAllows
<1>2. CASE Layers(w, dir) # Providers
  BY <1>1, <1>2, OneLayer, WhatAllowedMeans
<1>3. CASE Layers(w, dir) = Providers
  <2>1. CombineLayers(w, dir, "union") =
          MergeAllows(Layer(w, dir, "aws-anp") \cup Layer(w, dir, "k8s"),
                      Exact(Layer(w, dir, "aws-anp") \cup Layer(w, dir, "k8s")))
    BY <1>3, BothLayers
  <2>2. Matching(CombineLayers(w, dir, "union"), other, port) # {}
          <=> \/ Matching(Layer(w, dir, "aws-anp"), other, port) # {}
              \/ Matching(Layer(w, dir, "k8s"), other, port) # {}
    <3>1. \A x, y, first : Matching(MergeAllows(x \cup y, first), other, port) # {}
                             <=> Matching(x, other, port) # {} \/ Matching(y, other, port) # {}
      BY UnionMatches
    <3> HIDE DEF Matching
    <3> QED
      BY <2>1, <3>1
  <2>3. Allowed(w, other, dir, port, "union") <=> Matching(CombineLayers(w, dir, "union"), other, port) # {}
    BY WhatAllowedMeans
  <2> QED
    BY <1>1, <1>3, <2>2, <2>3 DEF Providers
<1> QED
  BY <1>2, <1>3

\* With -combine=union a connection is allowed exactly when one isolating layer
\* allows it.
THEOREM UnionIsUnion == Spec => []UnionNeedsOneLayer
BY UnionAsksOne, PTL DEF Spec

\* For any cluster and any policies, what a combination allows is accounted for
\* by what its layers allow (combine.go:9-138).
THEOREM CombinationExplained == Spec => []CombinationIsExplained
BY AddressesAreSafe, OverreachIsExplained, UnionIsUnion, PTL DEF CombinationIsExplained

-----------------------------------------------------------------------------
(* Adding a policy. *)

\* combineLayers on two given layers.
CombineOf(x, y, both, mode) ==
  IF both THEN IF mode = "union" THEN MergeAllows(x \cup y, Exact(x \cup y)) ELSE IntersectAllows(x, y)
          ELSE x \cup y

Outgrows(y, x) == \A peer, port : Covers(x, peer, port) => Covers(y, peer, port)

LEMMA MatchingGrows ==
  ASSUME NEW x, NEW y, Outgrows(y, x), NEW other, NEW port, Matching(x, other, port) # {}
  PROVE  Matching(y, other, port) # {}
  BY MatchingIsCovering DEF Outgrows

\* The combination of two layers that cover more matches more, in either mode.
LEMMA CombinationGrows ==
  ASSUME NEW x1, IsAllows(x1), NEW y1, IsAllows(y1), NEW x2, IsAllows(x2), NEW y2, IsAllows(y2),
         Outgrows(x2, x1), Outgrows(y2, y1), NEW both, NEW mode,
         NEW other \in Endpoints, NEW port \in Ports,
         Matching(CombineOf(x1, y1, both, mode), other, port) # {}
  PROVE  Matching(CombineOf(x2, y2, both, mode), other, port) # {}
<1>1. Outgrows(x2 \cup y2, x1 \cup y1)
  BY DEF Outgrows, Covers
<1>2. CASE ~both
  BY <1>1, <1>2, MatchingGrows DEF CombineOf
<1>3. CASE both /\ mode = "union"
  <2>1. \A x, y : CombineOf(x, y, both, mode) = MergeAllows(x \cup y, Exact(x \cup y))
    BY <1>3 DEF CombineOf
  <2>2. Outgrows(MergeAllows(x2 \cup y2, Exact(x2 \cup y2)), MergeAllows(x1 \cup y1, Exact(x1 \cup y1)))
    BY <1>1, MergeCovers DEF Outgrows
  <2> QED BY <2>1, <2>2, MatchingGrows
<1>4. CASE both /\ mode # "union"
  <2>1. \A x, y : CombineOf(x, y, both, mode) = IntersectAllows(x, y)
    BY <1>4 DEF CombineOf
  <2>2. PICK p, q : /\ Covers(x1, p, port) /\ Covers(y1, q, port)
                    /\ PeersMeet(p, q) /\ PeerMatches(IntersectPeers(p, q), other)
    BY <2>1, IntersectionMatches
  <2>3. Covers(x2, p, port) /\ Covers(y2, q, port)
    BY <2>2 DEF Outgrows
  <2> QED BY <2>1, <2>2, <2>3, IntersectionMatches
<1> QED BY <1>2, <1>3, <1>4

\* For any cluster: where the layers that isolate a workload stay the same, one
\* more policy takes no permission away, in either mode.
THEOREM OneMorePolicyTakesNothing == Spec => PoliciesAreAdditive
<1> DEFINE Additive ==
      \A w \in Workloads, dir \in Directions, mode \in CombineModes :
        Layers(w, dir) # {} /\ Layers(w, dir)' = Layers(w, dir) =>
          Permitted(w, dir, mode) \subseteq Permitted(w, dir, mode)'
<1>1. policies \subseteq Policies /\ [Next]_policies => [Additive]_policies
  <2> SUFFICES ASSUME policies \subseteq Policies, [Next]_policies, policies' # policies,
                      NEW w \in Workloads, NEW dir \in Directions, NEW mode \in CombineModes,
                      Layers(w, dir)' = Layers(w, dir),
                      NEW ask \in Permitted(w, dir, mode)
               PROVE  ask \in Permitted(w, dir, mode)'
    BY DEF Additive
  <2> DEFINE aws == "aws-anp"
             k8s == "k8s"
             S(provider) == Selecting(w, dir, provider)
             T(provider) == Selecting(w, dir, provider)'
             both == Layers(w, dir) = Providers
             before == CombineOf(LayerFrom(S(aws), w, dir), LayerFrom(S(k8s), w, dir), both, mode)
             after == CombineOf(LayerFrom(T(aws), w, dir), LayerFrom(T(k8s), w, dir), both, mode)
  <2>1. policies \subseteq policies' /\ policies' \subseteq Policies
    BY DEF Next, AddPolicy
  <2>2. ASSUME NEW provider
        PROVE  S(provider) \subseteq T(provider) /\ T(provider) \subseteq Policies
    BY <2>1 DEF Selecting
  <2>3. CombineLayers(w, dir, mode) = before
    BY DEF CombineLayers, CombineOf, Layer, LayerFrom
  <2>4. CombineLayers(w, dir, mode)' = after
    BY DEF CombineLayers, CombineOf, Layer, LayerFrom
  <2>5. ask \in Endpoints \X Ports /\ ResultOf(before, ask[1], ask[2]) = "allowed"
    BY <2>3 DEF Permitted
  <2>6. ask[1] \in Endpoints /\ ask[2] \in Ports /\ Matching(before, ask[1], ask[2]) # {}
    BY <2>5 DEF ResultOf
  <2>7. ASSUME NEW provider
        PROVE  /\ IsAllows(LayerFrom(S(provider), w, dir)) /\ IsAllows(LayerFrom(T(provider), w, dir))
               /\ Outgrows(LayerFrom(T(provider), w, dir), LayerFrom(S(provider), w, dir))
    BY <2>2, LayersAreTyped, LayersGrow DEF Outgrows
  <2>8. Matching(after, ask[1], ask[2]) # {}
    <3> HIDE DEF S, T, both
    <3> QED BY <2>6, <2>7, CombinationGrows
  <2>9. ResultOf(after, ask[1], ask[2]) = "allowed"
    BY <2>8 DEF ResultOf
  <2> QED BY <2>4, <2>5, <2>9 DEF Permitted
<1> QED BY <1>1, PoliciesStayTyped, PTL DEF Spec, PoliciesAreAdditive

-----------------------------------------------------------------------------
(* What the rules say and what the layers answer, where the names of ports settle. *)

\* A peer as the rule names it says what the resolved one matches.
LEMMA ResolvedPeersMatch ==
  ASSUME NEW p, NEW r, IsRule(r), NEW peer \in r.peers, NEW other \in Endpoints
  PROVE  PeerSays(p, peer, other) <=> PeerMatches(ResolvePeer(p, peer), other)
<1>1. CASE peer.kind = "selector"
  <2> DEFINE namespaces == IF peer.own THEN {p.namespace} ELSE peer.namespaces
  <2>1. ResolvePeer(p, peer) =
          [kind |-> "pods", namespaces |-> namespaces,
           workloads |-> {w \in Workloads : NamespaceOf[w] \in namespaces /\ LabelOf[w] \in peer.labels}]
    BY <1>1 DEF ResolvePeer
  <2>2. PeerMatches(ResolvePeer(p, peer), other) <=>
          /\ other.kind = "workload" /\ other.workload \in Workloads
          /\ NamespaceOf[other.workload] \in namespaces /\ LabelOf[other.workload] \in peer.labels
    BY <2>1 DEF PeerMatches
  <2>3. other.kind = "workload" => other.workload \in Workloads
    BY EndpointKinds
  <2> QED BY <1>1, <2>2, <2>3 DEF PeerSays
<1>2. CASE peer.kind # "selector"
  BY <1>2 DEF PeerSays, ResolvePeer
<1> QED BY <1>1, <1>2

PeersIn(p, r) == IF r.peers = {} THEN {AnyPeer} ELSE {ResolvePeer(p, q) : q \in r.peers}

LEMMA PeersSay ==
  ASSUME NEW p, NEW r, IsRule(r), NEW other \in Endpoints
  PROVE  (r.peers = {} \/ \E peer \in r.peers : PeerSays(p, peer, other))
           <=> \E q \in PeersIn(p, r) : PeerMatches(q, other)
<1>1. CASE r.peers = {}
  BY <1>1 DEF PeersIn, PeerMatches, AnyPeer
<1>2. CASE r.peers # {}
  BY <1>2, ResolvedPeersMatch DEF PeersIn
<1> QED BY <1>1, <1>2

\* The ports of a rule's entries at one destination.
LEMMA PortsAtOne ==
  ASSUME NEW entries, NEW w, NEW port
  PROVE  port \in ResolveNamedPorts(entries, {w})
           <=> \E entry \in entries : PortSays(entry, [kind |-> "workload", workload |-> w], port)
  BY DEF ResolveNamedPorts, PortSays

\* And at a destination that is no workload.
LEMMA PortsAtNone ==
  ASSUME NEW entries, NEW other, other.kind # "workload", NEW port
  PROVE  port \in ResolveNamedPorts(entries, {})
           <=> \E entry \in entries : PortSays(entry, other, port)
  BY DEF ResolveNamedPorts, PortSays

\* Where names settle, an entry of a rule covers the connections that it says.
LEMMA RuleAllowsWhatItSays ==
  ASSUME NamesSettle, NEW p \in Policies, NEW dir \in Directions, NEW r \in p.rules[dir],
         NEW w \in Workloads, p.namespace = NamespaceOf[w], LabelOf[w] \in p.selector, dir \in p.types,
         NEW other \in Endpoints, NEW port \in Ports
  PROVE  RuleSays(p, r, dir, w, other, port)
           <=> \E q \in PeersIn(p, r) : PeerMatches(q, other) /\ PortsAllow(RulePorts(r, dir, w, q), port)
<1> DEFINE destination == IF dir = "egress" THEN other ELSE [kind |-> "workload", workload |-> w]
           Says == r.ports = {} \/ \E entry \in r.ports : PortSays(entry, destination, port)
<1>1. IsRule(r)
  BY PoliciesAreTyped
<1>2. ASSUME NEW q \in PeersIn(p, r), PeerMatches(q, other)
      PROVE  Says <=> PortsAllow(RulePorts(r, dir, w, q), port)
  <2>1. CASE r.ports = {}
    BY <2>1 DEF RulePorts, PortsAllow
  <2>2. CASE r.ports # {}
    <3>1. /\ RulePorts(r, dir, w, q) # {}
          /\ dir = "egress" =>
               \A v \in Workloads :
                 PeerMatches(q, [kind |-> "workload", workload |-> v])
                   => ResolveNamedPorts(r.ports, {v}) = RulePorts(r, dir, w, q)
      BY <1>2, <2>2 DEF NamesSettle, PeersIn
    <3>2. PortsAllow(RulePorts(r, dir, w, q), port) <=> port \in RulePorts(r, dir, w, q)
      BY <3>1 DEF PortsAllow
    <3>3. CASE dir # "egress"
      <4>1. RulePorts(r, dir, w, q) = ResolveNamedPorts(r.ports, {w})
        BY <2>2, <3>3 DEF RulePorts
      <4> QED BY <2>2, <3>2, <3>3, <4>1, PortsAtOne
    <3>4. CASE dir = "egress" /\ other.kind = "workload"
      <4>1. other = [kind |-> "workload", workload |-> other.workload] /\ other.workload \in Workloads
        BY <3>4 DEF Endpoints
      <4>2. ResolveNamedPorts(r.ports, {other.workload}) = RulePorts(r, dir, w, q)
        BY <1>2, <3>1, <3>4, <4>1
      <4>3. destination = [kind |-> "workload", workload |-> other.workload]
        BY <3>4, <4>1
      <4> QED BY <2>2, <3>2, <4>2, <4>3, PortsAtOne
    <3>5. CASE dir = "egress" /\ other.kind # "workload"
      <4>1. q.kind # "pods"
        BY <1>2, <3>5 DEF PeerMatches
      <4>2. RulePorts(r, dir, w, q) = ResolveNamedPorts(r.ports, {})
        BY <2>2, <3>5, <4>1 DEF RulePorts
      <4> QED BY <2>2, <3>2, <3>5, <4>2, PortsAtNone
    <3> QED BY <3>3, <3>4, <3>5
  <2> QED BY <2>1, <2>2
<1>3. RuleSays(p, r, dir, w, other, port) <=> (\E q \in PeersIn(p, r) : PeerMatches(q, other)) /\ Says
  BY <1>1, PeersSay DEF RuleSays
<1> HIDE DEF Says
<1> QED BY <1>2, <1>3

\* Where names settle, a layer allows exactly what a rule of a policy that selects
\* the workload says.
LEMMA LayersSayIt ==
  ASSUME NamesSettle, policies \subseteq Policies, NEW w \in Workloads, NEW dir \in Directions,
         NEW other \in Endpoints, NEW port \in Ports, NEW provider
  PROVE  Matching(Layer(w, dir, provider), other, port) # {}
           <=> LayerSays(w, other, dir, port, provider)
<1> DEFINE S == Selecting(w, dir, provider)
           allows == UNION {UNION {RuleAllows(p, r, dir, w) : r \in p.rules[dir]} : p \in S}
<1>1. S \subseteq Policies
      /\ \A p \in S : p.namespace = NamespaceOf[w] /\ LabelOf[w] \in p.selector /\ dir \in p.types
  BY DEF Selecting
<1>2. Matching(Layer(w, dir, provider), other, port) # {} <=> Matching(allows, other, port) # {}
  BY MergeKeepsMatches DEF Layer
<1>3. \A p, r : RuleAllows(p, r, dir, w) =
                  {[peer |-> q, ports |-> RulePorts(r, dir, w, q), via |-> {r.id}, approximate |-> FALSE] :
                     q \in PeersIn(p, r)}
  BY DEF RuleAllows, PeersIn
<1>4. ASSUME NEW p \in S, NEW r \in p.rules[dir]
      PROVE  RuleSays(p, r, dir, w, other, port) <=> Matching(RuleAllows(p, r, dir, w), other, port) # {}
  <2>1. RuleSays(p, r, dir, w, other, port)
          <=> \E q \in PeersIn(p, r) : PeerMatches(q, other) /\ PortsAllow(RulePorts(r, dir, w, q), port)
    BY <1>1, RuleAllowsWhatItSays
  <2> DEFINE entry(q) == [peer |-> q, ports |-> RulePorts(r, dir, w, q), via |-> {r.id}, approximate |-> FALSE]
             A == RuleAllows(p, r, dir, w)
  <2>2. A = {entry(q) : q \in PeersIn(p, r)}
    BY <1>3
  <2>3. \A q : entry(q).peer = q /\ entry(q).ports = RulePorts(r, dir, w, q)
    OBVIOUS
  <2>4. Matching(A, other, port) # {} <=> \E a \in A : PeerMatches(a.peer, other) /\ PortsAllow(a.ports, port)
    BY DEF Matching
  <2> HIDE DEF entry, A
  <2>5. Matching(A, other, port) # {}
          <=> \E q \in PeersIn(p, r) : PeerMatches(q, other) /\ PortsAllow(RulePorts(r, dir, w, q), port)
    BY <2>2, <2>3, <2>4
  <2> QED BY <2>1, <2>5 DEF A
<1>5. Matching(allows, other, port) # {}
        <=> \E p \in S : \E r \in p.rules[dir] : Matching(RuleAllows(p, r, dir, w), other, port) # {}
  BY DEF Matching
<1> HIDE DEF S, allows
<1>6. LayerSays(w, other, dir, port, provider) <=> \E p \in S : \E r \in p.rules[dir] : RuleSays(p, r, dir, w, other, port)
  BY DEF LayerSays, S
<1> QED BY <1>2, <1>4, <1>5, <1>6

-----------------------------------------------------------------------------
(* The dialog. *)

\* A half that is asked gives one of three answers; what stands behind each.
LEMMA HalfFacts ==
  ASSUME NamesSettle, policies \subseteq Policies, NEW subject \in Endpoints, NEW other \in Endpoints,
         NEW dir \in Directions, NEW port \in Ports, NEW mode \in CombineModes,
         NEW h, h = Half(subject, other, dir, port, mode)
  PROVE  /\ h.result \in {"allowed", "denied", "undecidable", "not applicable"}
         /\ h.result \in {"allowed", "not applicable"} => OneSays(subject, other, dir, port)
         /\ h.result = "denied" => OneDoesNotSay(subject, other, dir, port)
         /\ h.result = "denied" => RefusesWhatItRefuses(subject, other, dir, port, mode)
         /\ h.result = "undecidable" => other.kind # "workload"
<1>1. CASE subject.kind # "workload"
  BY <1>1 DEF Half, OneSays, Isolated
<1>2. CASE subject.kind = "workload" /\ Layers(subject.workload, dir) = {}
  BY <1>2 DEF Half, Decide, OneSays, Isolated
<1>3. CASE subject.kind = "workload" /\ Layers(subject.workload, dir) # {}
  <2> DEFINE w == subject.workload
             allows == CombineLayers(w, dir, mode)
  <2>1. w \in Workloads
    BY <1>3, EndpointKinds
  <2>2. h.result = ResultOf(allows, other, port)
    BY <1>3 DEF Half, Decide
  <2>3. Allowed(w, other, dir, port, mode) <=> h.result = "allowed"
    BY <1>3 DEF Half, Allowed
  <2>4. \A provider : ByLayer(w, other, dir, port, provider) = "allowed"
                        <=> LayerSays(w, other, dir, port, provider)
    BY <1>3, <2>1, WhatAllowedMeans, LayersSayIt
  <2>5. ASSUME h.result = "allowed"
        PROVE  OneSays(subject, other, dir, port)
    <3>1. SomeLayerAllows(w, other, dir, port)
      <4>1. CASE mode = "union"
        BY <1>3, <2>1, <2>3, <2>5, <4>1, UnionAsksOne DEF UnionNeedsOneLayer, Asked
      <4>2. CASE mode = "intersect"
        BY <1>3, <2>1, <2>3, <2>5, <4>2, OverreachHasAPair
           DEF OverreachIsUndecided, Asked, AllLayersAllow, SomeLayerAllows
      <4> QED BY <4>1, <4>2 DEF CombineModes
    <3> QED BY <2>4, <3>1 DEF SomeLayerAllows, OneSays
  <2>6. ASSUME h.result # "allowed"
        PROVE  OneDoesNotSay(subject, other, dir, port)
    <3>1. ~AllLayersAllow(w, other, dir, port)
      BY <1>3, <2>1, <2>3, <2>6, NothingDeniedFalsely DEF NoFalseDenial, Asked
    <3> QED BY <1>3, <2>4, <3>1 DEF AllLayersAllow, OneDoesNotSay, Isolated
  <2>7. ASSUME h.result = "denied"
        PROVE  RefusesWhatItRefuses(subject, other, dir, port, mode)
    <3>1. Matching(allows, other, port) = {}
      BY <2>2, <2>7 DEF ResultOf
    <3>2. \A line \in AcceptsLines(w, dir, mode) :
            \E a \in allows : line.peer = a.peer /\ line.ports = a.ports
      <4> DEFINE chosen == {b \in allows : Cardinality({c \in allows \ {b} : Before(c.peer, b.peer)}) < 4}
                 line(a) == [anyPort |-> a.ports = {}, ports |-> a.ports, peer |-> a.peer]
      <4>1. AcceptsLines(w, dir, mode) = {line(a) : a \in chosen}
        BY DEF AcceptsLines
      <4>2. chosen \subseteq allows /\ \A a : line(a).peer = a.peer /\ line(a).ports = a.ports
        OBVIOUS
      <4> HIDE DEF chosen, line, allows
      <4> QED BY <4>1, <4>2
    <3>3. HalfShown(subject, other, dir, port, mode).accepts = AcceptsLines(w, dir, mode)
      BY <2>7 DEF HalfShown
    <3> HIDE DEF allows, w
    <3> QED BY <3>1, <3>2, <3>3 DEF RefusesWhatItRefuses, Matching
  <2>8. ASSUME h.result = "undecidable"
        PROVE  other.kind # "workload"
    BY <2>2, <2>8 DEF ResultOf, UndecidableAgainst
  <2>9. h.result \in {"allowed", "denied", "undecidable"}
    BY <2>2 DEF ResultOf
  <2> QED BY <2>5, <2>6, <2>7, <2>8, <2>9
<1> QED BY <1>1, <1>2, <1>3

\* Whatever the policies, wherever their names settle, the headline of the dialog
\* follows from the rules of the two sides.
THEOREM HeadlinesAreTrue ==
  ASSUME NamesSettle
  PROVE  Spec => []HeadlineIsTrue
<1>1. policies \subseteq Policies => HeadlineIsTrue
  <2> SUFFICES ASSUME policies \subseteq Policies,
                      NEW from \in Endpoints, NEW to \in Endpoints, NEW port \in Ports,
                      NEW mode \in CombineModes,
                      NEW egress \in {Half(from, to, "egress", port, mode)},
                      NEW ingress \in {Half(to, from, "ingress", port, mode)},
                      NEW headline \in {Headline(Verdict({egress, ingress}), egress, ingress)}
               PROVE  /\ headline.tone = "ok" \/ headline.state = "Approximate" =>
                           OneSays(from, to, "egress", port) /\ OneSays(to, from, "ingress", port)
                      /\ headline.state = "Denied" <=> {"may not leave", "will not accept"} \cap headline.says # {}
                      /\ "may not leave" \in headline.says => OneDoesNotSay(from, to, "egress", port)
                      /\ "will not accept" \in headline.says => OneDoesNotSay(to, from, "ingress", port)
                      /\ headline.state = "Undecidable" => "denied" \notin {egress.result, ingress.result}
                      /\ egress.result = "denied" => RefusesWhatItRefuses(from, to, "egress", port, mode)
                      /\ ingress.result = "denied" => RefusesWhatItRefuses(to, from, "ingress", port, mode)
    BY DEF HeadlineIsTrue
  <2> DEFINE answers == {"allowed", "denied", "undecidable", "not applicable"}
             verdict == Verdict({egress, ingress})
             undecidable == egress.result = "undecidable" \/ ingress.result = "undecidable"
             denied == egress.result = "denied" \/ ingress.result = "denied"
  <2>0. /\ egress = Half(from, to, "egress", port, mode)
        /\ ingress = Half(to, from, "ingress", port, mode)
        /\ headline = Headline(verdict, egress, ingress)
    OBVIOUS
  <2>1. /\ egress.result \in answers
        /\ egress.result \in {"allowed", "not applicable"} => OneSays(from, to, "egress", port)
        /\ egress.result = "denied" => OneDoesNotSay(from, to, "egress", port)
        /\ egress.result = "denied" => RefusesWhatItRefuses(from, to, "egress", port, mode)
        /\ egress.result = "undecidable" => to.kind # "workload"
    BY <2>0, HalfFacts DEF Directions
  <2>2. /\ ingress.result \in answers
        /\ ingress.result \in {"allowed", "not applicable"} => OneSays(to, from, "ingress", port)
        /\ ingress.result = "denied" => OneDoesNotSay(to, from, "ingress", port)
        /\ ingress.result = "denied" => RefusesWhatItRefuses(to, from, "ingress", port, mode)
        /\ ingress.result = "undecidable" => from.kind # "workload"
    BY <2>0, HalfFacts DEF Directions
\* Only an end that is no workload leaves the other undecided, and it has no policy.
  <2>3. undecidable => ~denied
    <3>1. from.kind # "workload" => egress.result = "not applicable"
      BY <2>0 DEF Half
    <3>2. to.kind # "workload" => ingress.result = "not applicable"
      BY <2>0 DEF Half
    <3> QED BY <2>1, <2>2, <3>1, <3>2
  <2>4. /\ verdict.undecidable <=> undecidable
        /\ verdict.allowed <=> ~undecidable /\ ~denied
        /\ verdict.approximate => verdict.allowed
    BY DEF Verdict
  <2>5. /\ headline.state = IF undecidable THEN "Undecidable" ELSE IF denied THEN "Denied"
                            ELSE IF verdict.approximate THEN "Approximate" ELSE "Allowed"
        /\ headline.tone = ToneOf(headline.state)
        /\ headline.says = Implication(verdict, egress, ingress)
    <3> HIDE DEF verdict, undecidable, denied
    <3> QED BY <2>0, <2>4 DEF Headline, StateOf
  <2>6. /\ "may not leave" \in headline.says <=> ~undecidable /\ egress.result = "denied"
        /\ "will not accept" \in headline.says <=> ~undecidable /\ ingress.result = "denied"
    <3> HIDE DEF verdict, undecidable, denied
    <3>1. CASE undecidable
      <4>1. headline.says = {"depends on a name"}
        BY <2>4, <2>5, <3>1 DEF Implication
      <4> QED BY <3>1, <4>1
    <3>2. CASE ~undecidable
      <4>1. headline.says =
              {IF egress.result = "denied" THEN "may not leave" ELSE "may leave",
               IF ingress.result = "denied" THEN "will not accept" ELSE "will accept"}
              \cup (IF verdict.approximate THEN {"leans on a name"} ELSE {})
        BY <2>4, <2>5, <3>2 DEF Implication
      <4> QED BY <3>2, <4>1
    <3> QED BY <3>1, <3>2
  <2>7. headline.tone = "ok" \/ headline.state = "Approximate" => ~undecidable /\ ~denied
    <3> HIDE DEF verdict, undecidable, denied
    <3> QED BY <2>5 DEF ToneOf
  <2>8. headline.state = "Denied" <=> ~undecidable /\ denied
    <3> HIDE DEF verdict, undecidable, denied
    <3> QED BY <2>5
  <2>9. headline.state = "Undecidable" => ~denied
    <3> HIDE DEF verdict, undecidable, denied
    <3> QED BY <2>3, <2>5
  <2> HIDE DEF verdict
  <2> QED BY <2>1, <2>2, <2>6, <2>7, <2>8, <2>9
<1> QED BY <1>1, PoliciesStayTyped, PTL

-----------------------------------------------------------------------------
(* The inspector. *)

\* The ids of a direction's rules, and entries that cite them only, or at least one
\* of them.
IdsOf(S, dir) == UNION {{r.id : r \in p.rules[dir]} : p \in S}
CiteOnly(allows, ids) == \A a \in allows : a.via \subseteq ids
CiteOneOf(allows, ids) == \A a \in allows : a.via \cap ids # {}

LEMMA MergingKeepsCitations ==
  ASSUME NEW allows, NEW first, NEW ids
  PROVE  /\ CiteOnly(allows, ids) => CiteOnly(MergeAllows(allows, first), ids)
         /\ CiteOneOf(allows, ids) => CiteOneOf(MergeAllows(allows, first), ids)
<1> DEFINE Same(q) == {a \in allows : a.peer = q}
           ports(q) == IF {} \in {a.ports : a \in Same(q)} THEN {} ELSE UNION {a.ports : a \in Same(q)}
           via(q) == UNION {a.via : a \in Same(q)}
           merged(q) == [peer |-> q, ports |-> ports(q), via |-> via(q), approximate |-> first[q]]
<1>1. MergeAllows(allows, first) = {merged(q) : q \in {a.peer : a \in allows}}
  BY DEF MergeAllows
<1>2. \A q : merged(q).via = via(q)
  OBVIOUS
<1>3. \A a \in allows : a.via \subseteq via(a.peer)
  OBVIOUS
<1>4. CiteOnly(allows, ids) => \A q : via(q) \subseteq ids
  BY DEF CiteOnly
<1> HIDE DEF merged, via
<1>5. CiteOnly(allows, ids) => CiteOnly(MergeAllows(allows, first), ids)
  BY <1>1, <1>2, <1>4 DEF CiteOnly
<1>6. CiteOneOf(allows, ids) => CiteOneOf(MergeAllows(allows, first), ids)
  BY <1>1, <1>2, <1>3 DEF CiteOneOf
<1> QED BY <1>5, <1>6

LEMMA LayerCites ==
  ASSUME NEW w, NEW dir, NEW provider
  PROVE  LET ids == IdsOf(Selecting(w, dir, provider), dir)
         IN CiteOnly(Layer(w, dir, provider), ids) /\ CiteOneOf(Layer(w, dir, provider), ids)
<1> DEFINE S == Selecting(w, dir, provider)
           ids == IdsOf(S, dir)
           allows == UNION {UNION {RuleAllows(p, r, dir, w) : r \in p.rules[dir]} : p \in S}
<1>1. \A p, r : \A a \in RuleAllows(p, r, dir, w) : a.via = {r.id}
  BY DEF RuleAllows
<1>2. \A p \in S : \A r \in p.rules[dir] : r.id \in ids
  BY DEF IdsOf
<1>3. Layer(w, dir, provider) = MergeAllows(allows, Exact(allows))
  BY DEF Layer
<1>4. \A a \in allows : \E p \in S : \E r \in p.rules[dir] : a \in RuleAllows(p, r, dir, w)
  OBVIOUS
<1> HIDE DEF S, ids, allows
<1>5. CiteOnly(allows, ids) /\ CiteOneOf(allows, ids)
  BY <1>1, <1>2, <1>4 DEF CiteOnly, CiteOneOf
<1>6. CiteOnly(Layer(w, dir, provider), ids) /\ CiteOneOf(Layer(w, dir, provider), ids)
  BY <1>3, <1>5, MergingKeepsCitations
<1> QED BY <1>6 DEF S, ids

\* What two layers intersected cite.
LEMMA IntersectionCites ==
  ASSUME NEW x, NEW y, NEW i, NEW j,
         CiteOnly(x, i), CiteOneOf(x, i), CiteOnly(y, j), CiteOneOf(y, j)
  PROVE  /\ CiteOnly(IntersectAllows(x, y), i \cup j)
         /\ CiteOneOf(IntersectAllows(x, y), i) /\ CiteOneOf(IntersectAllows(x, y), j)
<1> DEFINE pairs == {m \in x \X y : /\ PeersMeet(m[1].peer, m[2].peer)
                                    /\ PortsMeet(m[1].ports, m[2].ports)}
           met == {Meet(m[1], m[2]) : m \in pairs}
<1>1. \E first : IntersectAllows(x, y) = MergeAllows(met, first)
  BY DEF IntersectAllows
<1>2. \A m \in pairs : Meet(m[1], m[2]).via = m[1].via \cup m[2].via
  BY DEF Meet
<1>3. \A m \in pairs : m[1] \in x /\ m[2] \in y
  OBVIOUS
<1> HIDE DEF pairs
<1>4. \A e \in met : \E a \in x, b \in y : e.via = a.via \cup b.via
  BY <1>2, <1>3
<1> HIDE DEF met
<1>5. CiteOnly(met, i \cup j) /\ CiteOneOf(met, i) /\ CiteOneOf(met, j)
  BY <1>4 DEF CiteOnly, CiteOneOf
<1> QED BY <1>1, <1>5, MergingKeepsCitations

\* What a combination cites: rules of the policies that govern the direction, and,
\* where every layer has to permit, of each layer.
LEMMA CombinationCites ==
  ASSUME NEW w, NEW dir, NEW mode \in CombineModes
  PROVE  LET all == IdsOf(UNION {Selecting(w, dir, q) : q \in Layers(w, dir)}, dir)
         IN /\ CiteOnly(CombineLayers(w, dir, mode), all)
            /\ CiteOneOf(CombineLayers(w, dir, mode), all)
            /\ mode = "intersect" =>
                 \A q \in Layers(w, dir) :
                   CiteOneOf(CombineLayers(w, dir, mode), IdsOf(Selecting(w, dir, q), dir))
<1> DEFINE all == IdsOf(UNION {Selecting(w, dir, q) : q \in Layers(w, dir)}, dir)
           ids(q) == IdsOf(Selecting(w, dir, q), dir)
           C == CombineLayers(w, dir, mode)
<1>1. \A q : CiteOnly(Layer(w, dir, q), ids(q)) /\ CiteOneOf(Layer(w, dir, q), ids(q))
  BY LayerCites
<1>2. \A q \in Layers(w, dir) : ids(q) \subseteq all
  BY DEF IdsOf
<1>3. CASE Layers(w, dir) = {}
  <2>1. Layer(w, dir, "aws-anp") = {} /\ Layer(w, dir, "k8s") = {}
    BY <1>3, SilentLayer DEF Layers, Providers
  <2>2. C = {}
    BY <1>3, <2>1 DEF CombineLayers, Providers
  <2> HIDE DEF all, C
  <2>3. CiteOnly(C, all) /\ CiteOneOf(C, all)
    BY <2>2 DEF CiteOnly, CiteOneOf
  <2> QED BY <1>3, <2>3 DEF all, C
<1>4. ASSUME NEW q \in Layers(w, dir), Layers(w, dir) # Providers
      PROVE  CiteOnly(C, all) /\ CiteOneOf(C, all) /\ \A l \in Layers(w, dir) : CiteOneOf(C, ids(l))
  <2>1. Layers(w, dir) = {q} /\ C = Layer(w, dir, q)
    BY <1>4, OneLayer
  <2> HIDE DEF all, C, ids
  <2>2. ids(q) \subseteq all /\ CiteOnly(C, ids(q)) /\ CiteOneOf(C, ids(q))
    BY <1>1, <1>2, <2>1
  <2> QED BY <2>1, <2>2 DEF CiteOnly, CiteOneOf
<1>5. CASE Layers(w, dir) = Providers
  <2> DEFINE x == Layer(w, dir, "aws-anp")
             y == Layer(w, dir, "k8s")
             i == ids("aws-anp")
             j == ids("k8s")
  <2>1. i \subseteq all /\ j \subseteq all
    BY <1>2, <1>5 DEF Providers
  <2>2. CiteOnly(x, i) /\ CiteOneOf(x, i) /\ CiteOnly(y, j) /\ CiteOneOf(y, j)
    BY <1>1
  <2>3. C = IF mode = "union" THEN MergeAllows(x \cup y, Exact(x \cup y)) ELSE IntersectAllows(x, y)
    BY <1>5, BothLayers
  <2>4. \A l \in Layers(w, dir) : ids(l) = i \/ ids(l) = j
    BY <1>5 DEF Providers
  <2> HIDE DEF x, y, i, j, C, all, ids
  <2>5. CASE mode = "union"
    <3>1. CiteOnly(x \cup y, all) /\ CiteOneOf(x \cup y, all)
      BY <2>1, <2>2 DEF CiteOnly, CiteOneOf
    <3>2. CiteOnly(C, all) /\ CiteOneOf(C, all)
      BY <2>3, <2>5, <3>1, MergingKeepsCitations
    <3> QED BY <2>5, <3>2 DEF C, all
  <2>6. CASE mode # "union"
    <3>1. CiteOnly(C, i \cup j) /\ CiteOneOf(C, i) /\ CiteOneOf(C, j)
      BY <2>2, <2>3, <2>6, IntersectionCites
    <3>2. CiteOnly(C, all) /\ CiteOneOf(C, all)
      BY <2>1, <3>1 DEF CiteOnly, CiteOneOf
    <3>3. \A l \in Layers(w, dir) : CiteOneOf(C, ids(l))
      BY <2>4, <3>1
    <3> QED BY <3>2, <3>3 DEF C, all, ids
  <2> QED BY <2>5, <2>6
<1>6. CASE Layers(w, dir) # {} /\ Layers(w, dir) # Providers
  <2>1. CiteOnly(C, all) /\ CiteOneOf(C, all) /\ \A l \in Layers(w, dir) : CiteOneOf(C, ids(l))
    BY <1>4, <1>6
  <2> QED BY <2>1
<1> QED BY <1>3, <1>5, <1>6

\* Whatever the policies, the section of a direction says what they say: exposed
\* when none governs it; all denied only of what some layer denies; and a rule
\* comes from policies that govern it, of every layer that has to permit.
THEOREM SectionsAreTrue ==
  ASSUME NamesSettle
  PROVE  Spec => [](\A w \in Workloads, dir \in Directions, mode \in CombineModes :
                      SectionIsTrue(w, dir, mode))
<1>1. ASSUME policies \subseteq Policies,
             NEW w \in Workloads, NEW dir \in Directions, NEW mode \in CombineModes,
             NEW section \in {DirectionSection(w, dir, mode)}
      PROVE  /\ section.says = "exposed" <=> section.by = {}
             /\ section.says = "all denied" =>
                  \A other \in Endpoints, port \in Ports :
                    \E p \in Layers(w, dir) : ~LayerSays(w, other, dir, port, p)
             /\ \A card \in section.cards :
                  /\ card.deciding # {} /\ card.deciding \subseteq section.by
                  /\ mode = "intersect" => {p.provider : p \in card.deciding} = Layers(w, dir)
  <2> DEFINE allows == CombineLayers(w, dir, mode)
             S == UNION {Selecting(w, dir, q) : q \in Layers(w, dir)}
             by == {p \in PoliciesFor(w) : dir \in p.types}
  <2>1. /\ section.says = IF Layers(w, dir) = {} THEN "exposed" ELSE IF allows = {} THEN "all denied" ELSE "rules"
        /\ section.by = by /\ section.cards = RuleCards(w, allows)
    <3>1. section = DirectionSection(w, dir, mode)
      OBVIOUS
    <3> HIDE DEF allows, by
    <3>2. allows = CombineLayers(w, dir, mode) /\ by = {p \in PoliciesFor(w) : dir \in p.types}
      BY DEF allows, by
    <3> QED BY <3>1, <3>2 DEF DirectionSection
  <2>2. S = by /\ \A p \in S : p.provider \in Layers(w, dir)
    <3>1. \A p \in policies : p.provider \in Providers
      <4>1. \A p \in Policies : IsPolicy(p)
        BY EvaluatorAssumption
      <4> QED BY <1>1, <4>1 DEF IsPolicy
    <3>2. \A p \in by : p \in Selecting(w, dir, p.provider) /\ p.provider \in Layers(w, dir)
      BY <3>1 DEF PoliciesFor, Selecting, Layers, Isolates
    <3>3. S \subseteq by /\ \A p \in S : p.provider \in Layers(w, dir)
      BY DEF Selecting, PoliciesFor
    <3> QED BY <3>2, <3>3
  <2>3. \A q \in Layers(w, dir) : Selecting(w, dir, q) # {}
    BY DEF Layers, Isolates
  <2>4. Layers(w, dir) = {} <=> by = {}
    BY <2>2, <2>3
  <2>5. ASSUME Layers(w, dir) # {}, allows = {}, NEW other \in Endpoints, NEW port \in Ports
        PROVE  \E p \in Layers(w, dir) : ~LayerSays(w, other, dir, port, p)
    <3>1. ~Allowed(w, other, dir, port, mode)
      BY <2>5, WhatAllowedMeans DEF Matching
    <3>2. ~AllLayersAllow(w, other, dir, port)
      BY <1>1, <2>5, <3>1, NothingDeniedFalsely DEF NoFalseDenial, Asked
    <3>3. PICK p \in Layers(w, dir) : ByLayer(w, other, dir, port, p) # "allowed"
      BY <3>2 DEF AllLayersAllow
    <3>4. ~LayerSays(w, other, dir, port, p)
      BY <1>1, <2>5, <3>3, WhatAllowedMeans, LayersSayIt
    <3> QED BY <3>4
  <2>6. ASSUME NEW a \in allows
        PROVE  /\ Deciding(w, a) # {} /\ Deciding(w, a) \subseteq by
               /\ mode = "intersect" => {p.provider : p \in Deciding(w, a)} = Layers(w, dir)
    <3>1. /\ a.via \subseteq IdsOf(S, dir)
          /\ a.via \cap IdsOf(S, dir) # {}
          /\ mode = "intersect" => \A q \in Layers(w, dir) : a.via \cap IdsOf(Selecting(w, dir, q), dir) # {}
      BY <2>6, CombinationCites DEF CiteOnly, CiteOneOf
    <3>2. ASSUME NEW p \in Deciding(w, a)
          PROVE  p \in S
      <4>1. PICK e \in Directions : a.via \cap {r.id : r \in p.rules[e]} # {}
        BY DEF Deciding
      <4>2. PICK r \in p.rules[e] : r.id \in a.via
        BY <4>1
      <4>3. PICK q \in S : \E s \in q.rules[dir] : s.id = r.id
        BY <3>1, <4>2 DEF IdsOf
      <4>4. p \in Policies /\ q \in Policies
        BY <1>1 DEF Deciding, PoliciesFor, Selecting
      <4> QED BY <4>2, <4>3, <4>4, RuleAssumption
    <3>3. ASSUME NEW T \in SUBSET S, a.via \cap IdsOf(T, dir) # {}
          PROVE  \E p \in T : p \in Deciding(w, a)
      <4>1. PICK p \in T : \E r \in p.rules[dir] : r.id \in a.via
        BY <3>3 DEF IdsOf
      <4>2. p \in PoliciesFor(w)
        BY <2>2
      <4> QED BY <4>1, <4>2 DEF Deciding
    <3>4. Deciding(w, a) # {}
      BY <3>1, <3>3
    <3>5. ASSUME mode = "intersect", NEW q \in Layers(w, dir)
          PROVE  \E p \in Deciding(w, a) : p.provider = q
      <4>1. Selecting(w, dir, q) \in SUBSET S
        OBVIOUS
      <4>2. PICK p \in Selecting(w, dir, q) : p \in Deciding(w, a)
        BY <3>1, <3>3, <3>5, <4>1
      <4> QED BY <4>2 DEF Selecting
    <3> HIDE DEF S, by
    <3> QED BY <2>2, <3>2, <3>4, <3>5
  <2>7. \A card \in section.cards : \E a \in allows : card.deciding = Deciding(w, a)
    <3> DEFINE card(a) == [anyPort |-> a.ports = {}, ports |-> a.ports, peer |-> a.peer,
                           note |-> a.approximate, deciding |-> Deciding(w, a)]
    <3>1. RuleCards(w, allows) = {card(a) : a \in allows}
      BY DEF RuleCards
    <3>2. \A a : card(a).deciding = Deciding(w, a)
      OBVIOUS
    <3> HIDE DEF card, allows
    <3> QED BY <2>1, <3>1, <3>2
  <2> HIDE DEF allows, by
  <2> QED BY <2>1, <2>4, <2>5, <2>6, <2>7
<1>2. policies \subseteq Policies =>
        \A w \in Workloads, dir \in Directions, mode \in CombineModes : SectionIsTrue(w, dir, mode)
  BY <1>1 DEF SectionIsTrue
<1> QED BY <1>2, PoliciesStayTyped, PTL

-----------------------------------------------------------------------------
(* Lists of a set's members, and their order. *)

\* A set of subsets of a finite set has one that no other is within.
LEMMA Smallest ==
  ASSUME NEW D, IsFiniteSet(D), NEW T \in SUBSET (SUBSET D), T # {}
  PROVE  \E s \in T : \A t \in T : t \subseteq s => t = s
<1>1. IsWellFoundedOn(StrictSubsetOrdering(D), SUBSET D)
  BY FS_StrictSubsetOrderingWellFounded, FS_FiniteSubsetsOfFinite
<1>2. PICK s \in T : \A t \in T : <<t, s>> \notin StrictSubsetOrdering(D)
  BY <1>1, WFMin
<1> QED BY <1>2 DEF StrictSubsetOrdering

\* A list of SetToSeqs has every member, once.
LEMMA ListsAreWhole ==
  ASSUME NEW S, IsFiniteSet(S), NEW list \in SetToSeqs(S)
  PROVE  /\ Cardinality(S) \in Nat /\ list \in [1..Cardinality(S) -> S]
         /\ \A i, j \in 1..Cardinality(S) : i # j => list[i] # list[j]
         /\ \A x \in S : \E i \in 1..Cardinality(S) : list[i] = x
         /\ list \in Seq(S) /\ Len(list) = Cardinality(S)
<1> DEFINE n == Cardinality(S)
<1>1. n \in Nat
  BY FS_CardinalityType
<1>2. list \in [1..n -> S] /\ \A i, j \in 1..n : i # j => list[i] # list[j]
  BY DEF SetToSeqs
<1>3. IsFiniteSet(1..n) /\ Cardinality(1..n) = n
  BY <1>1, FS_Interval
<1>4. list \in Injection(1..n, S)
  BY <1>2 DEF Injection, IsInjective
<1>5. list \in Surjection(1..n, S)
  BY <1>3, <1>4, FS_Injection
<1>6. \A x \in S : \E i \in 1..n : list[i] = x
  BY <1>5 DEF Surjection
<1>7. list \in Seq(S) /\ Len(list) = n
  BY <1>1, <1>2
<1> QED BY <1>1, <1>2, <1>6, <1>7

\* One more member at the end.
LEMMA ListsGrow ==
  ASSUME NEW T, IsFiniteSet(T), NEW z, z \notin T, NEW list \in SetToSeqs(T)
  PROVE  \E more \in SetToSeqs(T \cup {z}) :
           /\ DOMAIN more = 1..(Cardinality(T) + 1) /\ more[Cardinality(T) + 1] = z
           /\ \A i \in 1..Cardinality(T) : more[i] = list[i]
<1> DEFINE n == Cardinality(T)
           S == T \cup {z}
           more == [i \in 1..(n + 1) |-> IF i = n + 1 THEN z ELSE list[i]]
<1>1. Cardinality(S) = n + 1
  BY FS_AddElement
<1>2. n \in Nat /\ list \in [1..n -> T] /\ \A i, j \in 1..n : i # j => list[i] # list[j]
  BY ListsAreWhole
<1> HIDE DEF n
<1>3. \A i \in 1..(n + 1) : i = n + 1 \/ i \in 1..n
  BY <1>2
<1>4. more \in [1..(n + 1) -> S]
  BY <1>2, <1>3
<1>5. ASSUME NEW i \in 1..(n + 1), NEW j \in 1..(n + 1), i # j
      PROVE  more[i] # more[j]
  <2>1. CASE i \in 1..n /\ j \in 1..n
    BY <1>2, <1>5, <2>1
  <2>2. CASE i = n + 1
    BY <1>2, <1>3, <1>5, <2>2
  <2>3. CASE j = n + 1
    BY <1>2, <1>3, <1>5, <2>3
  <2> QED BY <1>3, <2>1, <2>2, <2>3
<1>6. more \in SetToSeqs(S)
  <2> HIDE DEF more, S
  <2> QED BY <1>1, <1>4, <1>5 DEF SetToSeqs
<1>7. more[n + 1] = z /\ (\A i \in 1..n : more[i] = list[i]) /\ DOMAIN more = 1..(n + 1)
  BY <1>2
<1> QED
  <2> HIDE DEF more
  <2> QED BY <1>6, <1>7 DEF n

\* A finite set has a list in any order that ranks every two of its members.
LEMMA OrdersList ==
  ASSUME NEW S, IsFiniteSet(S), NEW R,
         \A x, y \in S : <<x, y>> \in R \/ <<y, x>> \in R,
         \A x, y, z \in S : <<x, y>> \in R /\ <<y, z>> \in R => <<x, z>> \in R
  PROVE  \E list \in SetToSeqs(S) :
           \A i, j \in DOMAIN list : i < j => <<list[i], list[j]>> \in R
<1> DEFINE Sorts(list) == \A i, j \in DOMAIN list : i < j => <<list[i], list[j]>> \in R
           Good(T) == \E list \in SetToSeqs(T) : Sorts(list)
           Bad == {T \in SUBSET S : ~Good(T)}
<1>1. SUFFICES ASSUME Bad # {} PROVE FALSE
  OBVIOUS
<1>2. PICK T \in Bad : \A U \in Bad : U \subseteq T => U = T
  <2>1. Bad \in SUBSET (SUBSET S)
    OBVIOUS
  <2> HIDE DEF Bad
  <2> QED BY <1>1, <2>1, Smallest
<1>3. T \in SUBSET S /\ ~Good(T) /\ \A U \in SUBSET T : U # T => Good(U)
  BY <1>2
<1>4. \A U \in SUBSET T : IsFiniteSet(U)
  BY <1>3, FS_Subset
<1>5. T # {}
  <2>1. << >> \in SetToSeqs({})
    <3>1. Cardinality({}) = 0 /\ 1..0 = {}
      BY FS_EmptySet
    <3>2. << >> \in [{} -> {}]
      OBVIOUS
    <3> QED BY <3>1, <3>2 DEF SetToSeqs
  <2>2. Sorts(<< >>)
    OBVIOUS
  <2> QED BY <1>3, <2>1, <2>2
<1>6. \E z \in T : \A y \in T : <<y, z>> \in R
  <2>1. PICK x \in T : TRUE
    BY <1>5
  <2> DEFINE U == T \ {x}
             n == Cardinality(U)
  <2>2. U \in SUBSET T /\ U # T /\ IsFiniteSet(U) /\ x \in S /\ <<x, x>> \in R /\ T = U \cup {x}
    BY <1>3, <1>4, <2>1
  <2> HIDE DEF U
  <2>3. PICK list \in SetToSeqs(U) : Sorts(list)
    BY <1>3, <2>2
  <2>4. CASE U = {}
    BY <2>1, <2>2, <2>4
  <2>5. CASE U # {}
    <3>1. /\ n \in Nat /\ list \in [1..n -> U]
          /\ \A y \in U : \E i \in 1..n : list[i] = y
      BY <2>2, <2>3, ListsAreWhole
    <3>2. n \in 1..n
      <4>1. n # 0
        BY <2>2, <2>5, FS_EmptySet
      <4> QED BY <3>1, <4>1
    <3>3. ASSUME NEW y \in U PROVE <<y, list[n]>> \in R
      <4>1. PICK i \in 1..n : list[i] = y
        BY <3>1
      <4>2. CASE i = n
        BY <1>3, <2>2, <4>1, <4>2
      <4>3. CASE i < n
        BY <2>3, <3>1, <3>2, <4>1, <4>3
      <4> QED BY <3>1, <4>2, <4>3
    <3>4. list[n] \in U
      BY <3>1, <3>2
    <3>5. CASE <<x, list[n]>> \in R
      <4>1. \A y \in T : <<y, list[n]>> \in R
        BY <2>2, <3>3, <3>5
      <4> QED BY <2>2, <3>4, <4>1
    <3>6. CASE <<list[n], x>> \in R
      <4>1. \A y \in U : <<y, x>> \in R
        BY <1>3, <2>1, <2>2, <3>3, <3>4, <3>6
      <4> QED BY <2>1, <2>2, <4>1
    <3> QED BY <1>3, <2>2, <3>4, <3>5, <3>6
  <2> QED BY <2>4, <2>5
<1>7. PICK z \in T : \A y \in T : <<y, z>> \in R
  BY <1>6
<1> DEFINE W == T \ {z}
           m == Cardinality(W)
<1>8. PICK list \in SetToSeqs(W) : Sorts(list)
  BY <1>3, <1>7
<1>9. PICK more \in SetToSeqs(T) :
        DOMAIN more = 1..(m + 1) /\ more[m + 1] = z /\ \A i \in 1..m : more[i] = list[i]
  <2>1. IsFiniteSet(W) /\ z \notin W /\ W \cup {z} = T
    BY <1>4, <1>7
  <2> HIDE DEF W
  <2>2. PICK more \in SetToSeqs(W \cup {z}) :
          DOMAIN more = 1..(m + 1) /\ more[m + 1] = z /\ \A i \in 1..m : more[i] = list[i]
    BY <1>8, <2>1, ListsGrow
  <2> QED BY <2>1, <2>2
<1>10. m \in Nat /\ list \in [1..m -> W] /\ W \in SUBSET T
  <2>1. W \in SUBSET T /\ IsFiniteSet(W)
    BY <1>4
  <2> QED BY <1>8, <2>1, ListsAreWhole
<1>11. Sorts(more)
  <2> SUFFICES ASSUME NEW i \in 1..(m + 1), NEW j \in 1..(m + 1), i < j
               PROVE  <<more[i], more[j]>> \in R
    BY <1>9
  <2> HIDE DEF m, W
  <2>1. i \in 1..m /\ (j = m + 1 \/ j \in 1..m)
    BY <1>10
  <2>2. CASE j = m + 1
    BY <1>7, <1>9, <1>10, <2>1, <2>2
  <2>3. CASE j \in 1..m
    <3>1. <<list[i], list[j]>> \in R
      BY <1>8, <1>10, <2>1, <2>3
    <3> QED BY <1>9, <2>1, <2>3, <3>1
  <2> QED BY <2>1, <2>2, <2>3
<1> QED BY <1>3, <1>9, <1>11

\* The smaller of two numbers.
LEMMA SmallerOfTwo ==
  ASSUME NEW a \in Nat, NEW b \in Nat
  PROVE  Min({a, b}) = IF a <= b THEN a ELSE b
<1>1. CASE a <= b
  <2>1. \A x \in {a, b} : (\A y \in {a, b} : x <= y) <=> x = a
    BY <1>1
  <2> QED BY <1>1, <2>1 DEF Min
<1>2. CASE ~(a <= b)
  <2>1. \A x \in {a, b} : (\A y \in {a, b} : x <= y) <=> x = b
    BY <1>2
  <2> QED BY <1>2, <2>1 DEF Min
<1> QED BY <1>1, <1>2

-----------------------------------------------------------------------------
(* The policies that came closest. *)


MissOf(p, labels) ==
  [policy |-> p, missed |-> Missed(p, labels), matched |-> Matched(p, labels)]
MissesOf(D, labels) == {MissOf(p, labels) : p \in D}
NearestFirst(list) == \A i, j \in DOMAIN list : i < j => NoCloser(list[j], list[i])

\* A selector has finitely many clauses, so those failed and met can be counted.
LEMMA ClausesAreCounted ==
  ASSUME NEW p \in Policies, NEW labels
  PROVE  Cardinality(Missed(p, labels)) \in Nat /\ Matched(p, labels) \in Nat
<1>1. IsFiniteSet(Clauses(p))
  BY SelectorAssumption
<1>2. /\ Missed(p, labels) \in SUBSET Clauses(p)
      /\ (Clauses(p) \ Missed(p, labels)) \in SUBSET Clauses(p)
  BY DEF Missed
<1>3. IsFiniteSet(Missed(p, labels)) /\ IsFiniteSet(Clauses(p) \ Missed(p, labels))
  BY <1>1, <1>2, FS_Subset
<1> QED BY <1>3, FS_CardinalityType DEF Matched

\* A policy is missed once.
LEMMA OneMissEach ==
  ASSUME NEW D, IsFiniteSet(D), NEW labels
  PROVE  IsFiniteSet(MissesOf(D, labels)) /\ Cardinality(MissesOf(D, labels)) = Cardinality(D)
<1> DEFINE f == [p \in D |-> MissOf(p, labels)]
<1>1. \A p, q : MissOf(p, labels) = MissOf(q, labels) => p = q
  BY DEF MissOf
<1>2. f \in Bijection(D, MissesOf(D, labels))
  BY <1>1 DEF Bijection, Injection, Surjection, IsInjective, MissesOf
<1>3. ExistsBijection(D, MissesOf(D, labels))
  BY <1>2 DEF ExistsBijection
<1> QED BY <1>3, FS_Bijection

\* Misses can be listed nearest first.
LEMMA MissesAreListed ==
  ASSUME NEW D \in SUBSET Policies, IsFiniteSet(D), NEW labels
  PROVE  \E list \in SetToSeqs(MissesOf(D, labels)) : NearestFirst(list)
<1> DEFINE M == MissesOf(D, labels)
           R == {x \in M \X M : NoCloser(x[2], x[1])}
<1>1. \A a \in M : Cardinality(a.missed) \in Nat /\ a.matched \in Nat
  BY ClausesAreCounted DEF MissesOf, MissOf
<1>2. IsFiniteSet(M)
  BY OneMissEach
<1> HIDE DEF M
<1>3. \A x, y \in M : <<x, y>> \in R <=> NoCloser(y, x)
  OBVIOUS
<1> HIDE DEF R
<1>4. \A x, y \in M : <<x, y>> \in R \/ <<y, x>> \in R
  <2>1. \A x, y \in M : NoCloser(y, x) \/ NoCloser(x, y)
    BY <1>1 DEF NoCloser
  <2> QED BY <1>3, <2>1
<1>5. \A x, y, z \in M : <<x, y>> \in R /\ <<y, z>> \in R => <<x, z>> \in R
  <2>1. \A x, y, z \in M : NoCloser(y, x) /\ NoCloser(z, y) => NoCloser(z, x)
    BY <1>1 DEF NoCloser
  <2> QED BY <1>3, <2>1
<1>6. PICK list \in SetToSeqs(M) : \A i, j \in DOMAIN list : i < j => <<list[i], list[j]>> \in R
  BY <1>2, <1>4, <1>5, OrdersList
<1>7. list \in [1..Cardinality(M) -> M]
  BY <1>2, ListsAreWhole
<1>8. NearestFirst(list)
  BY <1>3, <1>6, <1>7 DEF NearestFirst
<1> QED BY <1>8 DEF M

\* The first k of a list.
LEMMA FrontOfList ==
  ASSUME NEW S, NEW list \in Seq(S), NEW k \in 0..Len(list)
  PROVE  /\ Len(SubSeq(list, 1, k)) = k /\ DOMAIN SubSeq(list, 1, k) = 1..k
         /\ \A i \in 1..k : SubSeq(list, 1, k)[i] = list[i] /\ list[i] \in S
OBVIOUS

\* The front of such a list.
LEMMA FrontIsNearest ==
  ASSUME NEW D \in SUBSET Policies, IsFiniteSet(D), NEW labels,
         NEW list \in SetToSeqs(MissesOf(D, labels)), NearestFirst(list)
  PROVE  LET front == SubSeq(list, 1, Min({MaxMisses, Len(list)}))
             listed == {m.policy : m \in Range(front)}
         IN /\ listed \subseteq D
            /\ Len(front) = Min({MaxMisses, Cardinality(D)}) /\ Cardinality(listed) = Len(front)
            /\ \A i \in DOMAIN front :
                 /\ front[i] \in MissesOf(D, labels)
                 /\ \A j \in 1 .. i : Cardinality(front[j].missed) <= Cardinality(front[i].missed)
                 /\ \A p \in D \ listed :
                      Cardinality(front[i].missed) <= Cardinality(Missed(p, labels))
<1> DEFINE front == SubSeq(list, 1, Min({MaxMisses, Len(list)}))
           listed == {m.policy : m \in Range(front)}
<1> DEFINE M == MissesOf(D, labels)
           n == Cardinality(M)
           k == Min({MaxMisses, n})
<1>1. IsFiniteSet(M) /\ n = Cardinality(D)
  BY OneMissEach
<1>2. /\ n \in Nat /\ list \in [1..n -> M] /\ list \in Seq(M) /\ Len(list) = n
      /\ \A i, j \in 1..n : i # j => list[i] # list[j]
      /\ \A m \in M : \E i \in 1..n : list[i] = m
  BY <1>1, ListsAreWhole
<1>3. /\ \A m \in M : m.policy \in D /\ m = MissOf(m.policy, labels) /\ m.missed = Missed(m.policy, labels)
                      /\ Cardinality(m.missed) \in Nat
      /\ \A p \in D : \E m \in M : m.policy = p
  <2>1. \A p : MissOf(p, labels).policy = p /\ MissOf(p, labels).missed = Missed(p, labels)
    BY DEF MissOf
  <2>2. \A m \in M : \E p \in D : m = MissOf(p, labels)
    BY DEF MissesOf
  <2>3. \A p \in D : MissOf(p, labels) \in M
    BY DEF MissesOf
  <2>4. \A p \in D : Cardinality(Missed(p, labels)) \in Nat
    BY ClausesAreCounted
  <2> HIDE DEF M
  <2> QED BY <2>1, <2>2, <2>3, <2>4
<1> HIDE DEF M, n
<1>4. k \in 0..n /\ k \in Nat
  BY <1>2, SmallerOfTwo DEF MaxMisses
<1>5. front = SubSeq(list, 1, k) /\ listed = {m.policy : m \in Range(front)}
  BY <1>2 DEF k
<1> HIDE DEF k, front, listed
<1>6. Len(front) = k /\ DOMAIN front = 1..k /\ \A i \in 1..k : front[i] = list[i] /\ front[i] \in M
  <2>1. list \in Seq(M) /\ k \in 0..Len(list)
    BY <1>2, <1>4
  <2>2. /\ Len(SubSeq(list, 1, k)) = k /\ DOMAIN SubSeq(list, 1, k) = 1..k
        /\ \A i \in 1..k : SubSeq(list, 1, k)[i] = list[i] /\ list[i] \in M
    BY <2>1, FrontOfList
  <2> QED BY <1>5, <2>2
<1>7. listed = {front[i].policy : i \in 1..k}
  <2>1. Range(front) = {front[i] : i \in 1..k}
    BY <1>6 DEF Range
  <2>2. listed = {m.policy : m \in {front[i] : i \in 1..k}}
    BY <1>5, <2>1
  <2>3. \A x : x \in {m.policy : m \in {front[i] : i \in 1..k}} <=> \E i \in 1..k : x = front[i].policy
    OBVIOUS
  <2> QED BY <2>2, <2>3
<1>8. listed \subseteq D
  BY <1>3, <1>6, <1>7
<1>9. Cardinality(listed) = k
  <2> DEFINE f == [i \in 1..k |-> front[i].policy]
  <2>1. \A i, j \in 1..k : i # j => front[i].policy # front[j].policy
    <3>1. \A i \in 1..k : i \in 1..n
      BY <1>2, <1>4
    <3>2. \A i, j \in 1..k : i # j => front[i] # front[j]
      <4>1. \A i, j \in 1..k : i # j => list[i] # list[j]
        BY <1>2, <3>1
      <4>2. \A i \in 1..k : front[i] = list[i]
        BY <1>6
      <4> QED BY <4>1, <4>2
    <3>3. \A i \in 1..k : front[i] \in M
      BY <1>6
    <3>4. \A a, b \in M : a # b => a.policy # b.policy
      BY <1>3
    <3> QED BY <3>2, <3>3, <3>4
  <2>2. f \in Bijection(1..k, listed)
    BY <1>7, <2>1 DEF Bijection, Injection, Surjection, IsInjective
  <2>3. ExistsBijection(1..k, listed)
    BY <2>2 DEF ExistsBijection
  <2>4. IsFiniteSet(1..k) /\ Cardinality(1..k) = k
    BY <1>4, FS_Interval
  <2> QED BY <2>3, <2>4, FS_Bijection
<1>10. \A i, j \in 1..n : i <= j => Cardinality(list[i].missed) <= Cardinality(list[j].missed)
  <2> SUFFICES ASSUME NEW i \in 1..n, NEW j \in 1..n, i <= j
               PROVE  Cardinality(list[i].missed) <= Cardinality(list[j].missed)
    OBVIOUS
  <2>1. list[i] \in M /\ list[j] \in M
    BY <1>2
  <2>2. Cardinality(list[i].missed) \in Nat /\ Cardinality(list[j].missed) \in Nat
    BY <1>3, <2>1
  <2>3. CASE i = j
    BY <2>2, <2>3
  <2>4. CASE i < j
    <3>1. NoCloser(list[j], list[i])
      BY <1>2, <2>4 DEF NearestFirst
    <3> QED BY <2>2, <3>1 DEF NoCloser
  <2> QED BY <1>2, <2>3, <2>4
<1>11. ASSUME NEW i \in 1..k
       PROVE  /\ front[i] \in M
              /\ \A j \in 1 .. i : Cardinality(front[j].missed) <= Cardinality(front[i].missed)
              /\ \A p \in D \ listed : Cardinality(front[i].missed) <= Cardinality(Missed(p, labels))
  <2>1. i \in 1..n
    BY <1>2, <1>4
  <2>2. ASSUME NEW j \in 1..i
        PROVE  Cardinality(front[j].missed) <= Cardinality(front[i].missed)
    <3>1. j \in 1..k /\ j \in 1..n /\ j <= i
      BY <1>2, <1>4
    <3> QED BY <1>6, <1>10, <2>1, <3>1
  <2>3. ASSUME NEW p \in D \ listed
        PROVE  Cardinality(front[i].missed) <= Cardinality(Missed(p, labels))
    <3>1. PICK m \in M : m.policy = p
      BY <1>3
    <3>2. PICK j \in 1..n : list[j] = m
      BY <1>2
    <3>3. j \notin 1..k
      BY <1>6, <1>7, <3>1, <3>2
    <3>4. i <= j
      BY <1>2, <1>4, <3>3
    <3>5. Cardinality(list[i].missed) <= Cardinality(list[j].missed)
      BY <1>10, <2>1, <3>4
    <3> QED BY <1>3, <1>6, <3>1, <3>2, <3>5
  <2> QED BY <1>6, <2>2, <2>3
<1>12. Len(front) = Min({MaxMisses, Cardinality(D)})
  BY <1>1, <1>6 DEF k
<1> QED BY <1>6, <1>8, <1>9, <1>11, <1>12 DEF M, front, listed

\* Policies are added one at a time.
LEMMA FinitelyMany == Spec => []IsFiniteSet(policies)
<1>1. Init => IsFiniteSet(policies)
  BY FS_EmptySet DEF Init
<1>2. IsFiniteSet(policies) /\ [Next]_policies => IsFiniteSet(policies)'
  <2> SUFFICES ASSUME IsFiniteSet(policies), [Next]_policies
               PROVE  IsFiniteSet(policies')
    OBVIOUS
  <2>1. ASSUME NEW p \in Policies, AddPolicy(p) PROVE IsFiniteSet(policies')
    <3>1. policies' = policies \cup {p}
      BY <2>1 DEF AddPolicy
    <3>2. IsFiniteSet(policies \cup {p})
      BY FS_AddElement
    <3> QED BY <3>1, <3>2
  <2> QED BY <2>1 DEF Next
<1> QED BY <1>1, <1>2, PTL DEF Spec

\* What does not select a workload has a clause that its labels fail.
LEMMA SelectedOrMissed ==
  ASSUME NEW p \in Policies, NEW w \in Workloads, LabelOf[w] \notin p.selector
  PROVE  Missed(p, Pairs[LabelOf[w]]) # {}
<1>1. LabelOf[w] \in Labels
  BY EvaluatorAssumption
<1>2. \E r \in Clauses(p) : ~Matches(r, Pairs[LabelOf[w]])
  BY <1>1, SelectorAssumption
<1> QED BY <1>2 DEF Missed

\* What the inspector lists of a workload that nothing selects.
LEMMA NearestAreListed ==
  ASSUME policies \subseteq Policies, IsFiniteSet(policies), NEW w \in Workloads, PoliciesFor(w) = {}
  PROVE  MissesAreNearest(w, WorkloadBody(w).misses)
<1> DEFINE labels == Pairs[LabelOf[w]]
           D == {p \in policies : p.namespace = NamespaceOf[w]}
           list == ClosestMisses(w)
           front == WorkloadBody(w).misses
           listed == {m.policy : m \in Range(front)}
<1>1. D \in SUBSET Policies /\ IsFiniteSet(D)
  BY FS_Subset
<1>2. list = CHOOSE it \in SetToSeqs(MissesOf(D, labels)) : NearestFirst(it)
  <2>1. D \ {} = D
    OBVIOUS
  <2> QED BY <2>1 DEF ClosestMisses, MissesOf, MissOf, NearestFirst
<1>3. front = SubSeq(list, 1, Min({MaxMisses, Len(list)}))
  BY DEF WorkloadBody
<1>4. \A p \in D : Missed(p, labels) # {}
  <2>1. \A p \in D : LabelOf[w] \notin p.selector
    BY DEF PoliciesFor
  <2> QED BY <1>1, <2>1, SelectedOrMissed
<1> HIDE DEF labels, D, list, front
<1>5. list \in SetToSeqs(MissesOf(D, labels)) /\ NearestFirst(list)
  BY <1>1, <1>2, MissesAreListed
<1>6. \A m \in MissesOf(D, labels) : m.missed # {}
  BY <1>4 DEF MissesOf, MissOf
<1>7. listed = {m.policy : m \in Range(front)}
  OBVIOUS
<1> HIDE DEF listed
<1>8. /\ listed \subseteq D
      /\ Len(front) = Min({MaxMisses, Cardinality(D)}) /\ Cardinality(listed) = Len(front)
      /\ \A i \in DOMAIN front :
           /\ front[i] \in MissesOf(D, labels)
           /\ \A j \in 1 .. i : Cardinality(front[j].missed) <= Cardinality(front[i].missed)
           /\ \A p \in D \ listed :
                Cardinality(front[i].missed) <= Cardinality(Missed(p, labels))
  <2>1. LET it == SubSeq(list, 1, Min({MaxMisses, Len(list)}))
            those == {m.policy : m \in Range(it)}
        IN /\ those \subseteq D
           /\ Len(it) = Min({MaxMisses, Cardinality(D)}) /\ Cardinality(those) = Len(it)
           /\ \A i \in DOMAIN it :
                /\ it[i] \in MissesOf(D, labels)
                /\ \A j \in 1 .. i : Cardinality(it[j].missed) <= Cardinality(it[i].missed)
                /\ \A p \in D \ those : Cardinality(it[i].missed) <= Cardinality(Missed(p, labels))
    BY <1>1, <1>5, FrontIsNearest
  <2> QED BY <1>3, <1>7, <2>1
<1>9. \A i \in DOMAIN front : front[i].missed # {}
  BY <1>6, <1>8
<1> QED BY <1>8, <1>9 DEF MissesAreNearest, labels, D, front, listed

\* Every policy governs some direction, so one that selects a workload isolates it.
LEMMA UnprotectedIsUnselected ==
  ASSUME policies \subseteq Policies, NEW w \in Workloads
  PROVE  WorkloadBody(w).unprotected <=> WorkloadBody(w).policies = {}
<1>1. \A p \in PoliciesFor(w) : p.provider \in Providers /\ \E dir \in Directions : dir \in p.types
  BY EvaluatorAssumption DEF PoliciesFor, IsPolicy
<1>2. (\A dir \in Directions, p \in Providers : ~Isolates(w, dir, p)) <=> PoliciesFor(w) = {}
  BY <1>1 DEF Isolates, Selecting, PoliciesFor
<1>3. /\ WorkloadBody(w).unprotected = (\A dir \in Directions, p \in Providers : ~Isolates(w, dir, p))
      /\ WorkloadBody(w).policies = PoliciesFor(w)
  BY DEF WorkloadBody
<1> QED BY <1>2, <1>3

\* Whatever the cluster, the policies and their number, wherever their names settle:
\* the dialog's headline, the inspector's sections, its banner and the five misses
\* it lists follow from the policies (SimulatePanel.tsx:355-594, Inspector.tsx:88-470,
\* misses.go:124-166).
THEOREM PanelsTellTheTruth ==
  ASSUME NamesSettle
  PROVE  Spec => []PanelsSayTrue
<1>1. policies \subseteq Policies /\ IsFiniteSet(policies) =>
        \A w \in Workloads : /\ WorkloadBody(w).unprotected <=> WorkloadBody(w).policies = {}
                             /\ WorkloadBody(w).policies = {} => MissesAreNearest(w, WorkloadBody(w).misses)
  <2>1. \A w : WorkloadBody(w).policies = PoliciesFor(w)
    BY DEF WorkloadBody
  <2> QED BY <2>1, UnprotectedIsUnselected, NearestAreListed
<1>2. /\ HeadlineIsTrue
      /\ \A w \in Workloads, dir \in Directions, mode \in CombineModes : SectionIsTrue(w, dir, mode)
      /\ \A w \in Workloads : /\ WorkloadBody(w).unprotected <=> WorkloadBody(w).policies = {}
                              /\ WorkloadBody(w).policies = {} => MissesAreNearest(w, WorkloadBody(w).misses)
      => PanelsSayTrue
  BY DEF PanelsSayTrue, InspectorIsTrue
<1> QED BY <1>1, <1>2, HeadlinesAreTrue, SectionsAreTrue, PoliciesStayTyped, FinitelyMany, PTL

-----------------------------------------------------------------------------
(* From objects to policies: what is left out. *)

\* Exactly one of three kinds.
Kinds(a, b, c) ==
  {k \in {"ip", "names", "selector"} : CASE k = "ip" -> a [] k = "names" -> b [] k = "selector" -> c}

LEMMA ExactlyOne ==
  ASSUME NEW a \in BOOLEAN, NEW b \in BOOLEAN, NEW c \in BOOLEAN
  PROVE  Cardinality(Kinds(a, b, c)) = 1
           <=> \/ a /\ ~b /\ ~c
               \/ ~a /\ b /\ ~c
               \/ ~a /\ ~b /\ c
<1> DEFINE K == {"ip", "names", "selector"}
           S == Kinds(a, b, c)
<1>1. S \subseteq K
  BY DEF Kinds
<1>2. IsFiniteSet({"ip"}) /\ IsFiniteSet({"names"}) /\ IsFiniteSet({"selector"})
  BY FS_Singleton
<1>3. IsFiniteSet({"ip"} \cup {"names"})
  BY <1>2, FS_Union
<1>4. IsFiniteSet(({"ip"} \cup {"names"}) \cup {"selector"})
  BY <1>2, <1>3, FS_Union
<1>5. K = ({"ip"} \cup {"names"}) \cup {"selector"}
  OBVIOUS
<1>6. IsFiniteSet(S)
  BY <1>1, <1>4, <1>5, FS_Subset
<1>7. ("ip" \in S <=> a) /\ ("names" \in S <=> b) /\ ("selector" \in S <=> c)
  BY DEF Kinds
<1>8. \A x \in S : x \in K
  BY <1>1
<1> HIDE DEF S
<1>9. Cardinality(S) = 1 <=> \E x : S = {x}
  BY <1>6, FS_Singleton
<1>10. ASSUME NEW x, S = {x}
       PROVE  \/ a /\ ~b /\ ~c
              \/ ~a /\ b /\ ~c
              \/ ~a /\ ~b /\ c
  BY <1>7, <1>8, <1>10
<1>11. ASSUME a, ~b, ~c PROVE S = {"ip"}
  BY <1>7, <1>8, <1>11
<1>12. ASSUME ~a, b, ~c PROVE S = {"names"}
  BY <1>7, <1>8, <1>12
<1>13. ASSUME ~a, ~b, c PROVE S = {"selector"}
  BY <1>7, <1>8, <1>13
<1>14. (\E x : S = {x}) <=> \/ a /\ ~b /\ ~c
                            \/ ~a /\ b /\ ~c
                            \/ ~a /\ ~b /\ c
  BY <1>10, <1>11, <1>12, <1>13
<1>15. Cardinality(S) = 1 <=> \/ a /\ ~b /\ ~c
                              \/ ~a /\ b /\ ~c
                              \/ ~a /\ ~b /\ c
  BY <1>9, <1>14
<1> QED BY <1>15 DEF S

\* The three kinds of a peer: a rejected one is of none or of two, or has an
\* exclusion outside its block.
LEMMA RejectedPeers ==
  ASSUME NEW peer
  PROVE  ~PeerRejected(peer) <=> SoundPeer(peer)
<1> DEFINE ip == peer.ipBlock # Omitted
           names == peer.domainNames # {}
           selector == Selects(peer)
<1>1. ip \in BOOLEAN /\ names \in BOOLEAN /\ selector \in BOOLEAN
  BY DEF Selects
<1>2. IPBlockRejected(peer.ipBlock) <=> ~(UNION peer.ipBlock.except \subseteq peer.ipBlock.cidr)
  BY DEF IPBlockRejected
<1>3. PeerRejected(peer) <=>
        IF names THEN ip \/ selector ELSE IF ip THEN selector \/ IPBlockRejected(peer.ipBlock) ELSE ~selector
  BY DEF PeerRejected
<1>4. Cardinality(Kinds(ip, names, selector)) = 1
        <=> \/ ip /\ ~names /\ ~selector
            \/ ~ip /\ names /\ ~selector
            \/ ~ip /\ ~names /\ selector
  <2> HIDE DEF ip, names, selector
  <2> QED BY <1>1, ExactlyOne
<1>5. SoundPeer(peer) <=> /\ Cardinality(Kinds(ip, names, selector)) = 1
                          /\ ip => UNION peer.ipBlock.except \subseteq peer.ipBlock.cidr
  BY DEF SoundPeer, Kinds
<1> HIDE DEF ip, names, selector
<1> QED BY <1>2, <1>3, <1>4, <1>5

\* The arithmetic of a port entry.
LEMMA PortNumbers ==
  ASSUME NEW n \in Int, NEW e \in Int
  PROVE  /\ n \in 1..MaxPort <=> 0 < n /\ n < 65536
         /\ e \in n..MaxPort <=> n <= e /\ e < 65536
<1>1. MaxPort \in Int /\ \A k \in Int : k <= MaxPort <=> k < 65536
  BY DEF MaxPort
<1>2. 0 < n <=> 1 <= n
  OBVIOUS
<1> QED BY <1>1, <1>2

LEMMA RejectedPorts ==
  ASSUME NEW p, p.number = Omitted \/ p.number \in Int, p.endPort = Omitted \/ p.endPort \in Int
  PROVE  ~PortRejected(p) <=> SoundPort(p)
<1>1. p.protocol \in Protocols \cup {Omitted} <=> p.protocol \in {Omitted, "TCP", "UDP", "SCTP"}
  BY DEF Protocols
<1>2. CASE p.number = Omitted
  BY <1>1, <1>2 DEF PortRejected, SoundPort
<1>3. CASE p.number # Omitted /\ p.endPort = Omitted
  BY <1>1, <1>3, PortNumbers DEF PortRejected, SoundPort
<1>4. CASE p.number # Omitted /\ p.endPort # Omitted
  BY <1>1, <1>4, PortNumbers DEF PortRejected, SoundPort
<1> QED BY <1>2, <1>3, <1>4

\* What is left out is unsound, and nothing else.
LEMMA OnlyTheUnsoundIsRejected ==
  ASSUME NEW object \in Objects
  PROVE  Rejected(object) <=> ~Sound(object)
<1> DEFINE rules == Range(object.ingress) \cup Range(object.egress)
           fine(rule) == (\A peer \in rule.peers : ~PeerRejected(peer)) /\ \A p \in rule.ports : ~PortRejected(p)
<1>1. Rejected(object) <=> \E rule \in rules : ~fine(rule)
  BY DEF Rejected, RulesOf, Directions, Range
<1>2. ASSUME NEW rule \in rules, NEW p \in rule.ports
      PROVE  (p.number = Omitted \/ p.number \in Int) /\ (p.endPort = Omitted \/ p.endPort \in Int)
  BY <1>2, ObjectAssumption
<1>3. \A rule \in rules : fine(rule) <=> (\A peer \in rule.peers : SoundPeer(peer))
                                           /\ \A p \in rule.ports : SoundPort(p)
  BY <1>2, RejectedPeers, RejectedPorts
<1>4. Sound(object) <=> \A rule \in rules : (\A peer \in rule.peers : SoundPeer(peer))
                                             /\ \A p \in rule.ports : SoundPort(p)
  BY DEF Sound
<1> HIDE DEF rules, fine
<1> QED BY <1>1, <1>3, <1>4

-----------------------------------------------------------------------------
(* From objects to policies: what is said. *)

\* An object that is collected, and the policy made of it.
Collected(object) == object \in Objects /\ ~Rejected(object)

LEMMA NormalizedFields ==
  ASSUME NEW object, NEW p, p = NormalizePolicy(object), NEW w \in Workloads, NEW dir \in Directions
  PROVE  /\ p.raw = object /\ p.provider = object.provider /\ p.namespace = object.namespace
         /\ p.rules[dir] = NormalizeRules(object, dir)
         /\ p.namespace = NamespaceOf[w] /\ LabelOf[w] \in p.selector <=> ObjectSelects(object, w)
         /\ dir \in p.types <=> ObjectGoverns(object, dir)
<1>1. /\ p.raw = object /\ p.provider = object.provider /\ p.namespace = object.namespace
      /\ p.selector = object.podSelector
      /\ p.types = PolicyTypes(object.policyTypes, object.egress # << >>)
      /\ p.rules = [d \in Directions |-> NormalizeRules(object, d)]
  BY DEF NormalizePolicy
<1>2. dir \in PolicyTypes(object.policyTypes, object.egress # << >>) <=> ObjectGoverns(object, dir)
  BY DEF PolicyTypes, ObjectGoverns, Directions
<1> QED BY <1>1, <1>2 DEF ObjectSelects

\* A peer says the same before and after it is normalised.
LEMMA PeersAdmit ==
  ASSUME NEW object, NEW p, p.namespace = object.namespace,
         NEW peer, ~PeerRejected(peer), NEW other \in Endpoints
  PROVE  /\ NormalizePeer(peer) # {}
         /\ PeerAdmits(object, peer, other) <=> \E q \in NormalizePeer(peer) : PeerSays(p, q, other)
<1>1. CASE peer.domainNames # {}
  <2> DEFINE domain(d) == [kind |-> "domain", domain |-> d]
  <2>1. NormalizePeer(peer) = {domain(d) : d \in peer.domainNames}
    BY <1>1 DEF NormalizePeer
  <2>2. peer.ipBlock = Omitted /\ ~Selects(peer)
    BY <1>1 DEF PeerRejected
  <2>3. \A d : PeerSays(p, domain(d), other) <=> other.kind = "domain" /\ MatchDomain(d, other.name)
    BY DEF PeerSays, PeerMatches
  <2>4. PeerAdmits(object, peer, other)
          <=> other.kind = "domain" /\ \E d \in peer.domainNames : MatchDomain(d, other.name)
    BY <2>2, EndpointKinds DEF PeerAdmits
  <2> HIDE DEF domain
  <2> QED BY <1>1, <2>1, <2>3, <2>4
<1>2. CASE peer.domainNames = {} /\ peer.ipBlock # Omitted
  <2> DEFINE q == [kind |-> "cidr", block |-> peer.ipBlock.cidr, except |-> peer.ipBlock.except]
  <2>1. NormalizePeer(peer) = {q}
    BY <1>2 DEF NormalizePeer
  <2>2. ~Selects(peer)
    BY <1>2 DEF PeerRejected
  <2>3. PeerSays(p, q, other) <=> /\ other.kind = "cidr" /\ other.block \subseteq peer.ipBlock.cidr
                                  /\ \A e \in peer.ipBlock.except : e \cap other.block = {}
    BY DEF PeerSays, PeerMatches
  <2>4. PeerAdmits(object, peer, other)
          <=> /\ other.kind = "cidr" /\ other.block \subseteq peer.ipBlock.cidr
              /\ \A e \in peer.ipBlock.except : other.block \cap e = {}
    BY <1>2, <2>2, EndpointKinds DEF PeerAdmits
  <2>5. \A e : e \cap other.block = other.block \cap e
    OBVIOUS
  <2> HIDE DEF q
  <2> QED BY <2>1, <2>3, <2>4, <2>5
<1>3. CASE peer.domainNames = {} /\ peer.ipBlock = Omitted
  <2> DEFINE q == [kind |-> "selector", own |-> peer.namespaceSelector = Omitted,
                   namespaces |-> IF peer.namespaceSelector = Omitted THEN {} ELSE peer.namespaceSelector,
                   labels |-> IF peer.podSelector = Omitted THEN Labels ELSE peer.podSelector]
             namespaces == IF peer.namespaceSelector = Omitted THEN {object.namespace} ELSE peer.namespaceSelector
  <2>1. NormalizePeer(peer) = {q}
    BY <1>3 DEF NormalizePeer
  <2>2. Selects(peer)
    BY <1>3 DEF PeerRejected
  <2>3. PeerSays(p, q, other) <=>
          /\ other.kind = "workload"
          /\ IF peer.namespaceSelector = Omitted THEN NamespaceOf[other.workload] = p.namespace
             ELSE NamespaceOf[other.workload] \in peer.namespaceSelector
          /\ LabelOf[other.workload] \in IF peer.podSelector = Omitted THEN Labels ELSE peer.podSelector
    BY DEF PeerSays
  <2>4. PeerAdmits(object, peer, other)
          <=> /\ other.kind = "workload"
              /\ NamespaceOf[other.workload] \in namespaces
              /\ peer.podSelector # Omitted => LabelOf[other.workload] \in peer.podSelector
    BY <1>3, <2>2, EndpointKinds DEF PeerAdmits
  <2>5. other.kind = "workload" => LabelOf[other.workload] \in Labels
    BY EndpointKinds, EvaluatorAssumption
  <2> HIDE DEF q
  <2> QED BY <2>1, <2>3, <2>4, <2>5
<1> QED BY <1>1, <1>2, <1>3

\* And so does a port.
LEMMA PortsAdmit ==
  ASSUME NEW e, ~PortRejected(e), e.number = Omitted \/ e.number \in Int,
         e.endPort = Omitted \/ e.endPort \in Int, NEW at, NEW port \in Ports
  PROVE  PortAdmits(e, at, port) <=> PortSays(NormalizePort(e), at, port)
<1> DEFINE protocol == IF e.protocol = Omitted THEN "TCP" ELSE e.protocol
           from == IF e.number = Omitted THEN 1 ELSE e.number
           to == IF e.number = Omitted THEN MaxPort ELSE IF e.endPort = Omitted THEN from ELSE e.endPort
           n == port.number
<1>1. NormalizePort(e) = [name |-> e.name,
                          covers |-> {q \in Ports : q.protocol = protocol /\ from <= q.number /\ q.number <= to}]
  BY DEF NormalizePort
<1>2. n \in 1..MaxPort
  BY PortAssumption
<1>3. from <= n /\ n <= to <=>
        (e.number # Omitted => IF e.endPort = Omitted THEN n = e.number ELSE e.number <= n /\ n <= e.endPort)
  <2> HIDE DEF n
  <2>1. \A a \in Int : a <= n /\ n <= a <=> n = a
    BY <1>2 DEF MaxPort
  <2>2. CASE e.number = Omitted
    BY <1>2, <2>2 DEF MaxPort
  <2>3. CASE e.number # Omitted /\ e.endPort = Omitted
    BY <2>1, <2>3
  <2>4. CASE e.number # Omitted /\ e.endPort # Omitted
    BY <2>4
  <2> QED BY <2>2, <2>3, <2>4
<1>4. PortSays(NormalizePort(e), at, port) <=>
        /\ port.protocol = protocol /\ from <= n /\ n <= to
        /\ e.name # NoName => /\ at.kind = "workload"
                              /\ [name |-> e.name, port |-> port] \in NamedPorts[at.workload]
  BY <1>1 DEF PortSays
<1> QED BY <1>3, <1>4 DEF PortAdmits

\* A rule of a collected object admits what the policy's rule says.
LEMMA RulesAdmit ==
  ASSUME NEW object, Collected(object), NEW p, p = NormalizePolicy(object),
         NEW w \in Workloads, NEW dir \in Directions, NEW other \in Endpoints, NEW port \in Ports
  PROVE  ObjectAdmits(object, w, dir, other, port)
           <=> \E r \in p.rules[dir] : RuleSays(p, r, dir, w, other, port)
<1> DEFINE at == IF dir = "egress" THEN other ELSE [kind |-> "workload", workload |-> w]
           rules == RulesOf(object, dir)
           R(i) == [id |-> <<object.name, dir, i>>,
                    peers |-> UNION {NormalizePeer(peer) : peer \in rules[i].peers},
                    ports |-> {NormalizePort(e) : e \in rules[i].ports}]
           peersAdmit(i) == rules[i].peers = {} \/ \E peer \in rules[i].peers : PeerAdmits(object, peer, other)
           portsAdmit(i) == rules[i].ports = {} \/ \E e \in rules[i].ports : PortAdmits(e, at, port)
<1>1. p.namespace = object.namespace /\ p.rules[dir] = {R(i) : i \in DOMAIN rules}
  <2>1. p.namespace = object.namespace /\ p.rules[dir] = NormalizeRules(object, dir)
    BY NormalizedFields
  <2> QED BY <2>1 DEF NormalizeRules
<1>2. ASSUME NEW i \in DOMAIN rules
      PROVE  /\ \A peer \in rules[i].peers : ~PeerRejected(peer)
             /\ \A e \in rules[i].ports :
                  /\ ~PortRejected(e)
                  /\ e.number = Omitted \/ e.number \in Int
                  /\ e.endPort = Omitted \/ e.endPort \in Int
  <2>1. rules[i] \in Range(object.ingress) \cup Range(object.egress)
    BY DEF RulesOf, Range
  <2>2. \A e \in rules[i].ports : \A m \in {e.number, e.endPort} : m = Omitted \/ m \in Int
    BY <2>1, ObjectAssumption DEF Collected
  <2>3. ~Rejected(object)
    BY DEF Collected
  <2> QED BY <2>2, <2>3 DEF Rejected
<1>3. ASSUME NEW i \in DOMAIN rules
      PROVE  peersAdmit(i) <=> R(i).peers = {} \/ \E q \in R(i).peers : PeerSays(p, q, other)
  <2> DEFINE N == rules[i].peers
  <2>1. R(i).peers = UNION {NormalizePeer(peer) : peer \in N}
    OBVIOUS
  <2>2. \A peer \in N : /\ NormalizePeer(peer) # {}
                        /\ PeerAdmits(object, peer, other)
                             <=> \E q \in NormalizePeer(peer) : PeerSays(p, q, other)
    BY <1>1, <1>2, PeersAdmit
  <2> HIDE DEF N, R
  <2>3. R(i).peers = {} <=> N = {}
    BY <2>1, <2>2
  <2>4. (\E q \in R(i).peers : PeerSays(p, q, other)) <=> \E peer \in N : PeerAdmits(object, peer, other)
    BY <2>1, <2>2
  <2> QED BY <2>3, <2>4 DEF N
<1>4. ASSUME NEW i \in DOMAIN rules
      PROVE  portsAdmit(i) <=> R(i).ports = {} \/ \E e \in R(i).ports : PortSays(e, at, port)
  <2> DEFINE N == rules[i].ports
  <2>1. R(i).ports = {NormalizePort(e) : e \in N}
    OBVIOUS
  <2>2. \A e \in N : PortAdmits(e, at, port) <=> PortSays(NormalizePort(e), at, port)
    BY <1>2, PortsAdmit
  <2> HIDE DEF N, R, at
  <2> QED BY <2>1, <2>2 DEF N
<1>5. ObjectAdmits(object, w, dir, other, port) <=> \E i \in DOMAIN rules : peersAdmit(i) /\ portsAdmit(i)
  BY DEF ObjectAdmits, Range
<1>6. \A i : RuleSays(p, R(i), dir, w, other, port) <=>
               /\ R(i).peers = {} \/ \E q \in R(i).peers : PeerSays(p, q, other)
               /\ R(i).ports = {} \/ \E e \in R(i).ports : PortSays(e, at, port)
  <2> HIDE DEF R
  <2> QED BY DEF RuleSays
<1> HIDE DEF rules, R, at, peersAdmit, portsAdmit
<1> QED BY <1>1, <1>3, <1>4, <1>5, <1>6

\* The policies of a layer and the objects that govern correspond.
LEMMA SelectingIsGoverning ==
  ASSUME policies \subseteq CollectPolicies, NEW w \in Workloads, NEW dir \in Directions, NEW provider
  PROVE  /\ \A p \in policies : Collected(p.raw) /\ p = NormalizePolicy(p.raw)
         /\ \A p \in Selecting(w, dir, provider) : p.raw \in Governing(w, dir, provider)
         /\ \A object \in Governing(w, dir, provider) :
              \E p \in Selecting(w, dir, provider) : p.raw = object
<1>1. \A p \in policies : Collected(p.raw) /\ p = NormalizePolicy(p.raw)
  <2> SUFFICES ASSUME NEW p \in policies PROVE Collected(p.raw) /\ p = NormalizePolicy(p.raw)
    OBVIOUS
  <2>1. PICK object \in {o \in Objects : ~Rejected(o)} : p = NormalizePolicy(object)
    BY DEF CollectPolicies
  <2>2. p.raw = object
    BY <2>1 DEF NormalizePolicy
  <2> QED BY <2>1, <2>2 DEF Collected
<1>2. \A p \in policies : /\ p.provider = p.raw.provider
                          /\ p.namespace = NamespaceOf[w] /\ LabelOf[w] \in p.selector <=> ObjectSelects(p.raw, w)
                          /\ dir \in p.types <=> ObjectGoverns(p.raw, dir)
  BY <1>1, NormalizedFields
<1> QED BY <1>1, <1>2 DEF Selecting, Governing

\* Of objects whose names settle, the layers say what they say, and only unsound
\* ones are left out: normalising, resolving, expanding and merging add nothing and
\* lose nothing (policy.go, normalize.go, evaluate.go).
THEOREM LayersSayTheirObjects ==
  ASSUME NamesSettle, Policies \subseteq CollectPolicies
  PROVE  Spec => []LayersSayWhatTheirObjectsSay
<1>1. ASSUME policies \subseteq Policies
      PROVE  LayersSayWhatTheirObjectsSay
  <2>1. \A object \in Objects : Rejected(object) <=> ~Sound(object)
    BY OnlyTheUnsoundIsRejected
  <2>2. policies \subseteq CollectPolicies
    BY <1>1
  <2>3. \A w \in Workloads, dir \in Directions, provider \in Providers :
          Isolates(w, dir, provider) <=> Governing(w, dir, provider) # {}
    BY <2>2, SelectingIsGoverning DEF Isolates
  <2>4. ASSUME NEW w \in Workloads, NEW dir \in Directions, NEW other \in Endpoints, NEW port \in Ports,
               NEW provider \in Layers(w, dir)
        PROVE  ByLayer(w, other, dir, port, provider) = "allowed"
                 <=> \E object \in Governing(w, dir, provider) : ObjectAdmits(object, w, dir, other, port)
    <3>1. ByLayer(w, other, dir, port, provider) = "allowed" <=> LayerSays(w, other, dir, port, provider)
      BY <1>1, <2>4, WhatAllowedMeans, LayersSayIt
    <3>2. \A p \in policies :
            ObjectAdmits(p.raw, w, dir, other, port)
              <=> \E r \in p.rules[dir] : RuleSays(p, r, dir, w, other, port)
      BY <2>2, SelectingIsGoverning, RulesAdmit
    <3>3. Selecting(w, dir, provider) \subseteq policies
      BY DEF Selecting
    <3>4. LayerSays(w, other, dir, port, provider)
            <=> \E p \in Selecting(w, dir, provider) : ObjectAdmits(p.raw, w, dir, other, port)
      BY <3>2, <3>3 DEF LayerSays
    <3>5. (\E p \in Selecting(w, dir, provider) : ObjectAdmits(p.raw, w, dir, other, port))
            <=> \E object \in Governing(w, dir, provider) : ObjectAdmits(object, w, dir, other, port)
      BY <2>2, SelectingIsGoverning
    <3> QED BY <3>1, <3>4, <3>5
  <2> QED BY <2>1, <2>3, <2>4 DEF LayersSayWhatTheirObjectsSay, Asked
<1>2. policies \subseteq Policies => LayersSayWhatTheirObjectsSay
  BY <1>1
<1> QED BY <1>2, PoliciesStayTyped, PTL

=============================================================================
