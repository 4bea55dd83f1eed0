----------------------------- MODULE Evaluator ------------------------------
(***************************************************************************)
(* The policy evaluator, pkg/npeval: what a set of policies permits one    *)
(* workload, per provider layer and combined, and the verdict on one       *)
(* hypothetical connection.                                                *)
(*                                                                         *)
(* The state is the Builder's list of policies; a snapshot is built after  *)
(* each, and every question is asked of every snapshot.                    *)
(*                                                                         *)
(* Data.  A workload carries one label and a selector is the set of labels *)
(* it matches.  A prefix is the set of addresses it covers, so containment *)
(* stands for comparing Bits() of two prefixes that overlap.  A port is a  *)
(* protocol and a number together, and a list of port ranges is the set of *)
(* ports in them: the empty set means EVERY port, as the empty list does.  *)
(* Display strings, notes and explanations are left out.                   *)
(***************************************************************************)
EXTENDS Domains

CONSTANTS
  Namespaces, Labels,
  Workloads, NamespaceOf, LabelOf,
  Ports,         \* every port of every protocol
  PortNames, NamedPorts,   \* NamedPorts[w]: the container ports w declares
  Blocks,        \* the prefixes
  DomainNames,   \* the names asked about
  Policies,      \* the policies that may be added
  MaxPolicies,   \* bound: how many are
  Before(_, _)   \* the order of two peers' keys

NoName == "" \* a port entry that gives numbers
Providers == {"aws-anp", "k8s"}   \* Effective sorts them in this order
CombineModes == {"intersect", "union"}   \* the -combine flag
Directions == {"ingress", "egress"}

PortEntries == [name : PortNames \cup {NoName}, covers : SUBSET Ports \ {{}}]

AnyPeer == [kind |-> "any"]
Pods == [kind : {"pods"}, namespaces : SUBSET Namespaces, workloads : SUBSET Workloads]
CIDRs == [kind : {"cidr"}, block : Blocks, except : SUBSET Blocks]
Domain == [kind : {"domain"}, domain : Patterns]
Peers == {AnyPeer} \cup Pods \cup CIDRs \cup Domain

\* A peer as a rule names it: `own` is an omitted namespaceSelector.
PodSelectors ==
  [kind : {"selector"}, own : BOOLEAN, namespaces : SUBSET Namespaces, labels : SUBSET Labels]

\* A rule's empty `peers` is AllPeers, its empty `ports` AllPorts.
IsRule(r) ==
  /\ r.peers \subseteq PodSelectors \cup CIDRs \cup Domain
  /\ r.ports \subseteq PortEntries

IsPolicy(p) ==
  /\ p.namespace \in Namespaces
  /\ p.provider \in Providers
  /\ p.selector \subseteq Labels
  /\ p.types \subseteq Directions /\ p.types # {}   \* PolicyTypes has a default
  /\ \A dir \in Directions : \A r \in p.rules[dir] : IsRule(r)

ASSUME EvaluatorAssumption ==
  /\ NamespaceOf \in [Workloads -> Namespaces]
  /\ LabelOf \in [Workloads -> Labels]
  /\ NoName \notin PortNames
  /\ NamedPorts \in [Workloads -> SUBSET [name : PortNames, port : Ports]]
  /\ {} \notin Blocks
  /\ DomainNames \subseteq Names
  /\ \A p \in Policies : IsPolicy(p)
  /\ MaxPolicies \in Nat

\* NewRuleID: an id names the policy and the place of its rule.
ASSUME RuleAssumption ==
  \A p, q \in Policies, d, e \in Directions : \A r \in p.rules[d], s \in q.rules[e] :
    r.id = s.id => p = q /\ d = e /\ r = s

\* Two prefixes are nested or disjoint.
ASSUME PrefixAssumption ==
  \A a, b \in Blocks : a \cap b = {} \/ a \subseteq b \/ b \subseteq a

\* The two sides of a query: a workload, a prefix or a domain name.
Endpoints ==
  [kind : {"workload"}, workload : Workloads] \cup
  [kind : {"cidr"}, block : Blocks] \cup
  [kind : {"domain"}, name : DomainNames]

VARIABLE policies

-----------------------------------------------------------------------------
(* The rules of one provider layer. *)

\* The policies of one provider that select w and govern dir.
Selecting(w, dir, provider) ==
  {p \in policies : /\ p.namespace = NamespaceOf[w]
                    /\ LabelOf[w] \in p.selector
                    /\ dir \in p.types
                    /\ p.provider = provider}

ResolvePeer(p, peer) ==
  IF peer.kind # "selector" THEN peer
  ELSE LET namespaces == IF peer.own THEN {p.namespace} ELSE peer.namespaces
       IN [kind |-> "pods",
           namespaces |-> namespaces,
           workloads |-> {w \in Workloads : /\ NamespaceOf[w] \in namespaces
                                            /\ LabelOf[w] \in peer.labels}]

\* A named entry becomes the ports of that name on the target workloads, and
\* disappears when none has it.
ResolveNamedPorts(entries, targets) ==
  UNION {IF e.name = NoName THEN e.covers
         ELSE {port \in e.covers :
                 \E w \in targets : [name |-> e.name, port |-> port] \in NamedPorts[w]}
         : e \in entries}

\* Wrong: ingress resolves names on the peer, which is the source.
RulePortsOnPeer(rule, dir, subject, peer) ==
  IF rule.ports = {} THEN {}
  ELSE ResolveNamedPorts(rule.ports, IF peer.kind = "pods" THEN peer.workloads ELSE {})

\* Ingress resolves names on the subject, egress on the peer's workloads.
RulePorts(rule, dir, subject, peer) ==
  LET destinations == IF peer.kind = "pods" THEN peer.workloads ELSE {}
  IN IF rule.ports = {} THEN {}
     ELSE ResolveNamedPorts(rule.ports, IF dir = "egress" THEN destinations ELSE {subject})

RuleAllows(p, rule, dir, subject) ==
  LET peers == IF rule.peers = {} THEN {AnyPeer}
                                  ELSE {ResolvePeer(p, peer) : peer \in rule.peers}
  IN {[peer |-> peer, ports |-> RulePorts(rule, dir, subject, peer),
       via |-> {rule.id}, approximate |-> FALSE] : peer \in peers}

\* Wrong: every port and some ports make some ports.
MergeAllowsListing(allows, first) ==
  LET Same(peer) == {a \in allows : a.peer = peer}
  IN {[peer |-> peer,
       ports |-> UNION {a.ports : a \in Same(peer)},
       via |-> UNION {a.via : a \in Same(peer)},
       approximate |-> first[peer]] : peer \in {a.peer : a \in allows}}

\* Entries that name the same peer become one; `first` gives each peer the flag
\* of its first entry, which is the one the code copies and then extends.
MergeAllows(allows, first) ==
  LET Same(peer) == {a \in allows : a.peer = peer}
      PortsOf(peer) == {a.ports : a \in Same(peer)}
  IN {[peer |-> peer,
       ports |-> IF {} \in PortsOf(peer) THEN {} ELSE UNION PortsOf(peer),
       via |-> UNION {a.via : a \in Same(peer)},
       approximate |-> first[peer]] : peer \in {a.peer : a \in allows}}

Exact(allows) == [peer \in {a.peer : a \in allows} |-> FALSE]

Layer(w, dir, provider) ==
  LET allows == UNION {UNION {RuleAllows(p, r, dir, w) : r \in p.rules[dir]}
                         : p \in Selecting(w, dir, provider)}
  IN MergeAllows(allows, Exact(allows))

Isolates(w, dir, provider) == Selecting(w, dir, provider) # {}
Layers(w, dir) == {provider \in Providers : Isolates(w, dir, provider)}

-----------------------------------------------------------------------------
(* Combining the layers. *)

\* The pairs configuration alone cannot decide: DNS is not observed, pod
\* addresses are not modelled.
Undecided(a, b) == {a.kind, b.kind} \in {{"domain", "cidr"}, {"pods", "cidr"}}

\* The `ok` of intersectPeers.
PeersMeet(a, b) ==
  \/ a.kind = "any" \/ b.kind = "any"
  \/ Undecided(a, b)
  \/ /\ a.kind = "pods" /\ b.kind = "pods"
     /\ a.workloads \cap b.workloads # {} \/ a.namespaces \cap b.namespaces # {}
  \/ a.kind = "cidr" /\ b.kind = "cidr" /\ a.block \cap b.block # {}
  \/ a.kind = "domain" /\ b.kind = "domain" /\ DomainsMeet(a.domain, b.domain)

\* Wrong: only the exclusions of the first layer survive.
IntersectCIDRsFirst(a, b) ==
  LET block == IF a.block \subseteq b.block THEN a.block ELSE b.block
  IN [kind |-> "cidr", block |-> block, except |-> {x \in a.except : x \cap block # {}}]

\* Wrong: no exclusion survives.
IntersectCIDRsWhole(a, b) ==
  [kind |-> "cidr", block |-> IF a.block \subseteq b.block THEN a.block ELSE b.block,
   except |-> {}]

IntersectCIDRs(a, b) ==
  LET block == IF a.block \subseteq b.block THEN a.block ELSE b.block
  IN [kind |-> "cidr", block |-> block,
      except |-> {x \in a.except \cup b.except : x \cap block # {}}]

IntersectPeers(a, b) ==
  CASE a.kind = "any" -> b
    [] b.kind = "any" -> a
    [] a.kind = "pods" /\ b.kind = "pods" ->
         [kind |-> "pods", namespaces |-> a.namespaces \cap b.namespaces,
          workloads |-> a.workloads \cap b.workloads]
    [] a.kind = "cidr" /\ b.kind = "cidr" -> IntersectCIDRs(a, b)
    [] a.kind = "domain" /\ b.kind = "domain" ->
         [kind |-> "domain", domain |-> IntersectDomains(a.domain, b.domain)]
    [] OTHER -> IF a.kind = "cidr" THEN b ELSE a

\* Wrong: the list that means every port meets nothing.
PortsMeetListed(x, y) == x \cap y # {}

PortsMeet(x, y) == x = {} \/ y = {} \/ x \cap y # {}
IntersectPorts(x, y) == IF x = {} THEN y ELSE IF y = {} THEN x ELSE x \cap y

\* Wrong: the rules of the second layer are forgotten.
MeetCitingOne(x, y) ==
  [peer |-> IntersectPeers(x.peer, y.peer),
   ports |-> IntersectPorts(x.ports, y.ports),
   via |-> x.via,
   approximate |-> x.approximate \/ y.approximate \/ Undecided(x.peer, y.peer)]

Meet(x, y) ==
  [peer |-> IntersectPeers(x.peer, y.peer),
   ports |-> IntersectPorts(x.ports, y.ports),
   via |-> x.via \cup y.via,
   approximate |-> x.approximate \/ y.approximate \/ Undecided(x.peer, y.peer)]

\* intersectAllows on two layers in the order of their keys, then mergeAllows:
\* the pairs that give a peer are met in the order of x, then of y.
IntersectAllows(a, b) ==
  LET pairs == {m \in a \X b : /\ PeersMeet(m[1].peer, m[2].peer)
                                /\ PortsMeet(m[1].ports, m[2].ports)}
      Earlier(m, n) == \/ Before(m[1].peer, n[1].peer)
                       \/ m[1].peer = n[1].peer /\ Before(m[2].peer, n[2].peer)
      Giving(peer) == {m \in pairs : IntersectPeers(m[1].peer, m[2].peer) = peer}
      First(peer) == CHOOSE m \in Giving(peer) : \A n \in Giving(peer) \ {m} : Earlier(m, n)
      met == {Meet(m[1], m[2]) : m \in pairs}
  IN MergeAllows(met, [peer \in {a1.peer : a1 \in met} |->
                         Meet(First(peer)[1], First(peer)[2]).approximate])

\* Wrong: the combination mode is ignored.
CombineLayersIntersecting(w, dir, mode) ==
  LET aws == Layer(w, dir, "aws-anp")
      k8s == Layer(w, dir, "k8s")
  IN IF Layers(w, dir) = Providers THEN IntersectAllows(aws, k8s) ELSE aws \cup k8s

\* combineLayers: one isolating layer speaks alone.
CombineLayers(w, dir, mode) ==
  LET aws == Layer(w, dir, "aws-anp")
      k8s == Layer(w, dir, "k8s")
  IN IF Layers(w, dir) = Providers
     THEN IF mode = "union" THEN MergeAllows(aws \cup k8s, Exact(aws \cup k8s))
                               ELSE IntersectAllows(aws, k8s)
     ELSE aws \cup k8s   \* at most one of them has entries

-----------------------------------------------------------------------------
(* One half of a simulation. *)

PeerMatches(peer, ep) ==
  \/ peer.kind = "any"
  \/ peer.kind = "pods" /\ ep.kind = "workload" /\ ep.workload \in peer.workloads
  \/ /\ peer.kind = "cidr" /\ ep.kind = "cidr"
     /\ ep.block \subseteq peer.block
     /\ \A x \in peer.except : x \cap ep.block = {}
  \/ peer.kind = "domain" /\ ep.kind = "domain" /\ MatchDomain(peer.domain, ep.name)

PortsAllow(ports, port) == ports = {} \/ port \in ports

Matching(allows, other, port) ==
  {a \in allows : PeerMatches(a.peer, other) /\ PortsAllow(a.ports, port)}

\* undecidableAgainst: a domain rule and an address, or an address rule and a
\* domain.
UndecidableAgainst(allows, other, port) ==
  \E a \in allows : /\ PortsAllow(a.ports, port)
                    /\ \/ a.peer.kind = "domain" /\ other.kind = "cidr"
                       \/ a.peer.kind = "cidr" /\ other.kind = "domain"

ResultOf(allows, other, port) ==
  IF Matching(allows, other, port) # {} THEN "allowed"
  ELSE IF UndecidableAgainst(allows, other, port) THEN "undecidable"
  ELSE "denied"

\* decide for a workload of the snapshot; an endpoint that is not one has no
\* policy of its own to ask.
Decide(w, other, dir, port, mode) ==
  LET allows == CombineLayers(w, dir, mode)
      matching == Matching(allows, other, port)
  IN IF Layers(w, dir) = {}
     THEN [result |-> "allowed", via |-> {}, approximate |-> FALSE]
     ELSE [result |-> ResultOf(allows, other, port),
           via |-> UNION {a.via : a \in matching},
           approximate |-> \E a \in matching : a.approximate]

\* The verdict of one provider, Decision.ByLayer.
ByLayer(w, other, dir, port, provider) == ResultOf(Layer(w, dir, provider), other, port)

\* An endpoint that is no workload of the snapshot has no policy to ask.
Half(subject, other, dir, port, mode) ==
  IF subject.kind = "workload"
  THEN Decide(subject.workload, other, dir, port, mode)
  ELSE [result |-> "not applicable", via |-> {}, approximate |-> FALSE]

\* Wrong: one half that does not refuse is enough.
VerdictEither(halves) ==
  LET undecidable == \E h \in halves : h.result = "undecidable"
      allowed == ~undecidable /\ \E h \in halves : h.result # "denied"
  IN [undecidable |-> undecidable,
      allowed |-> allowed,
      approximate |-> allowed /\ \E h \in halves : h.approximate]

\* The verdict on what the two halves say.
Verdict(halves) ==
  LET undecidable == \E h \in halves : h.result = "undecidable"
      allowed == ~undecidable /\ \A h \in halves : h.result # "denied"
  IN [undecidable |-> undecidable,
      allowed |-> allowed,
      approximate |-> allowed /\ \E h \in halves : h.approximate]

Simulate(from, to, port, mode) ==
  Verdict({Half(from, to, "egress", port, mode), Half(to, from, "ingress", port, mode)})

-----------------------------------------------------------------------------
(* The specification. *)

Init == policies = {}

\* Builder.AddPolicy and Build; a second policy of the same name is refused.
AddPolicy(p) ==
  /\ p \notin policies
  /\ Cardinality(policies) < MaxPolicies
  /\ policies' = policies \cup {p}

Next == \E p \in Policies : AddPolicy(p)

Spec == Init /\ [][Next]_policies

-----------------------------------------------------------------------------
(* What the policies say, read as the table of docs/design/npeval.md reads     *)
(* them and not as the evaluator computes it.                                  *)

PeerSays(p, peer, other) ==
  IF peer.kind = "selector"
  THEN /\ other.kind = "workload"
       /\ IF peer.own THEN NamespaceOf[other.workload] = p.namespace
                      ELSE NamespaceOf[other.workload] \in peer.namespaces
       /\ LabelOf[other.workload] \in peer.labels
  ELSE PeerMatches(peer, other)

\* A named port is the port of that name on the destination.
PortSays(entry, destination, port) ==
  /\ port \in entry.covers
  /\ entry.name # NoName =>
       /\ destination.kind = "workload"
       /\ [name |-> entry.name, port |-> port] \in NamedPorts[destination.workload]

RuleSays(p, r, dir, w, other, port) ==
  LET destination == IF dir = "egress" THEN other ELSE [kind |-> "workload", workload |-> w]
  IN /\ r.peers = {} \/ \E peer \in r.peers : PeerSays(p, peer, other)
     /\ r.ports = {} \/ \E entry \in r.ports : PortSays(entry, destination, port)

\* Every name that a rule gives is a port of its destinations, with the same numbers
\* at each: what resolving a rule's names once for each of its peers relies on.
NamesSettle ==
  \A p \in Policies, dir \in Directions, w \in Workloads : \A r \in p.rules[dir] :
    r.ports # {} /\ p.namespace = NamespaceOf[w] /\ LabelOf[w] \in p.selector /\ dir \in p.types =>
      \A peer \in IF r.peers = {} THEN {AnyPeer} ELSE {ResolvePeer(p, q) : q \in r.peers} :
        /\ RulePorts(r, dir, w, peer) # {}
        /\ dir = "egress" =>
             \A v \in Workloads :
               PeerMatches(peer, [kind |-> "workload", workload |-> v])
                 => ResolveNamedPorts(r.ports, {v}) = RulePorts(r, dir, w, peer)

LayerSays(w, other, dir, port, provider) ==
  \E p \in Selecting(w, dir, provider) : \E r \in p.rules[dir] : RuleSays(p, r, dir, w, other, port)

-----------------------------------------------------------------------------
(* Properties. *)

\* Every question that can be asked of one half.
Asked(P(_, _, _, _)) ==
  \A w \in Workloads, dir \in Directions, other \in Endpoints, port \in Ports :
    Layers(w, dir) # {} => P(w, other, dir, port)

AllLayersAllow(w, other, dir, port) ==
  \A provider \in Layers(w, dir) : ByLayer(w, other, dir, port, provider) = "allowed"

SomeLayerAllows(w, other, dir, port) ==
  \E provider \in Layers(w, dir) : ByLayer(w, other, dir, port, provider) = "allowed"

Allowed(w, other, dir, port, mode) == Decide(w, other, dir, port, mode).result = "allowed"

\* What every layer allows is not denied by their combination, in either mode:
\* the intersection of two peers loses no endpoint both match.
NoFalseDenial ==
  Asked(LAMBDA w, other, dir, port :
    AllLayersAllow(w, other, dir, port) =>
      \A mode \in CombineModes : Allowed(w, other, dir, port, mode))

\* An address is allowed only if every layer allows it: the narrower prefix
\* keeps the exclusions of both.
AddressesNeedEveryLayer ==
  Asked(LAMBDA w, other, dir, port :
    other.kind = "cidr" /\ Allowed(w, other, dir, port, "intersect")
      => AllLayersAllow(w, other, dir, port))

\* A pair of entries, one of each layer, that covers the query as far as
\* configuration tells and that intersectPeers marks approximate.
UndecidedPair(w, other, dir, port) ==
  \E x \in Layer(w, dir, "aws-anp"), y \in Layer(w, dir, "k8s") :
    /\ Undecided(x.peer, y.peer)
    /\ PortsAllow(x.ports, port) /\ PortsAllow(y.ports, port)
    /\ PeerMatches(x.peer, other) \/ PeerMatches(y.peer, other)

\* "CombineIntersect requires every isolating layer to permit the traffic": what
\* it allows beyond that comes from a pair that needs runtime facts to decide,
\* and one layer still stands behind it.
OverreachIsUndecided ==
  Asked(LAMBDA w, other, dir, port :
    Allowed(w, other, dir, port, "intersect") =>
      \/ AllLayersAllow(w, other, dir, port)
      \/ SomeLayerAllows(w, other, dir, port) /\ UndecidedPair(w, other, dir, port))

\* With -combine=union one layer is enough, and one is needed.
UnionNeedsOneLayer ==
  Asked(LAMBDA w, other, dir, port :
    Allowed(w, other, dir, port, "union") <=> SomeLayerAllows(w, other, dir, port))

\* What the combination of a workload's layers allows, in either mode, is
\* accounted for by what each layer allows (combine.go:9-138).
CombinationIsExplained ==
  AddressesNeedEveryLayer /\ OverreachIsUndecided /\ UnionNeedsOneLayer

\* What the combined layers let w do.
Permitted(w, dir, mode) ==
  LET allows == CombineLayers(w, dir, mode)
  IN {q \in Endpoints \X Ports : ResultOf(allows, q[1], q[2]) = "allowed"}

\* Policies are additive within a layer: one more policy of a provider that
\* already isolates the workload takes nothing away.
PoliciesAreAdditive ==
  [][\A w \in Workloads, dir \in Directions, mode \in CombineModes :
       Layers(w, dir) # {} /\ Layers(w, dir)' = Layers(w, dir) =>
         Permitted(w, dir, mode) \subseteq Permitted(w, dir, mode)']_policies

\* "a named port with no matching container port genuinely permits no traffic"
\* (resolveNamedPorts).
UnresolvedNamesPermitNothing ==
  Asked(LAMBDA w, other, dir, port :
    (/\ other.kind = "workload"
     /\ \A p \in policies : \A r \in p.rules[dir] :
          /\ r.ports # {}
          /\ \A e \in r.ports : e.name # NoName /\ \A np \in UNION {NamedPorts[v] : v \in Workloads} :
                                                     np.name # e.name)
      => ~Allowed(w, other, dir, port, "intersect"))

\* A yes that is not marked Approximate is certain: every layer on both sides
\* says yes.  ("Those are marked Approximate or Undecidable with the reason,
\* never collapsed into a yes", README.md.)
UnmarkedYesIsCertain ==
  \A from, to \in Endpoints, port \in Ports :
    \A verdict \in {Simulate(from, to, port, "intersect")} :
      verdict.allowed /\ ~verdict.approximate =>
        /\ from.kind = "workload" => AllLayersAllow(from.workload, to, "egress", port)
        /\ to.kind = "workload" => AllLayersAllow(to.workload, from, "ingress", port)

\* Every rule a verdict cites permits the connection.  ("get the verdict plus
\* the rule that produced it", README.md.)
CitedRulesPermit ==
  Asked(LAMBDA w, other, dir, port :
    \A p \in policies : \A r \in p.rules[dir] :
      r.id \in Decide(w, other, dir, port, "intersect").via => RuleSays(p, r, dir, w, other, port))

=============================================================================
