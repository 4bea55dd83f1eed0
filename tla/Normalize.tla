----------------------------- MODULE Normalize ------------------------------
(***************************************************************************)
(* pkg/npeval/provider: from the NetworkPolicies and                       *)
(* ApplicationNetworkPolicies as the API server has them to the policies   *)
(* the evaluator works on.                                                 *)
(*                                                                         *)
(* An object is a record with the API's fields; a field that is omitted is *)
(* `Omitted`, a list without entries is empty, a label selector is the set *)
(* of labels or namespaces it matches, a prefix the set of its addresses,  *)
(* a domain name a pattern of Domains.  The texts of errors are left out.  *)
(***************************************************************************)
EXTENDS Evaluator

CONSTANTS
  Objects,   \* the policy objects there may be
  Omitted

Protocols == {"TCP", "UDP", "SCTP"}
MaxPort == 65535

ASSUME PortAssumption == \A q \in Ports : q.protocol \in Protocols /\ q.number \in 1..MaxPort

\* The numbers of a port entry, which are signed in the API.
ASSUME ObjectAssumption ==
  \A object \in Objects : \A rule \in Range(object.ingress) \cup Range(object.egress) :
    \A p \in rule.ports : \A n \in {p.number, p.endPort} : n = Omitted \/ n \in Int

\* Wrong: rules for egress do not make a policy govern it.
PolicyTypesIngress(declared, hasEgressRules) ==
  IF declared = {} THEN {"ingress"} ELSE declared

PolicyTypes(declared, hasEgressRules) ==
  IF declared = {} THEN {"ingress"} \cup (IF hasEgressRules THEN {"egress"} ELSE {})
                   ELSE declared

-----------------------------------------------------------------------------
(* NormalizePorts *)

PortRejected(p) ==
  \/ p.protocol \notin Protocols \cup {Omitted}
  \/ p.number = Omitted /\ p.endPort # Omitted    \* also with a name
  \/ /\ p.number # Omitted
     /\ \/ p.number \notin 1..MaxPort
        \/ p.endPort # Omitted /\ p.endPort \notin p.number..MaxPort

\* The ports of an entry; those of a named one are narrowed down when it is resolved.
NormalizePort(p) ==
  LET protocol == IF p.protocol = Omitted THEN "TCP" ELSE p.protocol
      from == IF p.number = Omitted THEN 1 ELSE p.number
      to == IF p.number = Omitted THEN MaxPort ELSE IF p.endPort = Omitted THEN from ELSE p.endPort
  IN [name |-> p.name,
      covers |-> {q \in Ports : q.protocol = protocol /\ from <= q.number /\ q.number <= to}]

-----------------------------------------------------------------------------
(* NormalizePeer, normalizeEgressPeer *)

Selects(peer) == peer.podSelector # Omitted \/ peer.namespaceSelector # Omitted

\* NormalizeIPBlock
IPBlockRejected(b) == \E e \in b.except : ~(e \subseteq b.cidr)

\* Only an egress peer of an ApplicationNetworkPolicy has domain names.
PeerRejected(peer) ==
  IF peer.domainNames # {} THEN peer.ipBlock # Omitted \/ Selects(peer)
  ELSE IF peer.ipBlock # Omitted THEN Selects(peer) \/ IPBlockRejected(peer.ipBlock)
  ELSE ~Selects(peer)

\* One peer for each domain name.
NormalizePeer(peer) ==
  IF peer.domainNames # {} THEN {[kind |-> "domain", domain |-> d] : d \in peer.domainNames}
  ELSE IF peer.ipBlock # Omitted
  THEN {[kind |-> "cidr", block |-> peer.ipBlock.cidr, except |-> peer.ipBlock.except]}
  ELSE {[kind |-> "selector",
         own |-> peer.namespaceSelector = Omitted,
         namespaces |-> IF peer.namespaceSelector = Omitted THEN {} ELSE peer.namespaceSelector,
         labels |-> IF peer.podSelector = Omitted THEN Labels ELSE peer.podSelector]}

-----------------------------------------------------------------------------
(* NormalizePolicy, collectPolicies *)

RulesOf(object, dir) == IF dir = "egress" THEN object.egress ELSE object.ingress

\* NormalizeIngressRules, and the loop over the egress rules.
NormalizeRules(object, dir) ==
  LET rules == RulesOf(object, dir)
  IN {[id |-> <<object.name, dir, i>>,
       peers |-> UNION {NormalizePeer(peer) : peer \in rules[i].peers},
       ports |-> {NormalizePort(p) : p \in rules[i].ports}] : i \in DOMAIN rules}

NormalizePolicy(object) ==
  [name |-> object.name, namespace |-> object.namespace, provider |-> object.provider,
   selector |-> object.podSelector,
   types |-> PolicyTypes(object.policyTypes, object.egress # << >>),
   rules |-> [dir \in Directions |-> NormalizeRules(object, dir)],
   raw |-> object]

\* One entry that makes no sense and the whole object is left out, with a warning.
Rejected(object) ==
  \E dir \in Directions : \E i \in DOMAIN RulesOf(object, dir) :
    LET rule == RulesOf(object, dir)[i]
    IN (\E peer \in rule.peers : PeerRejected(peer)) \/ (\E p \in rule.ports : PortRejected(p))

CollectPolicies == {NormalizePolicy(object) : object \in {o \in Objects : ~Rejected(o)}}

-----------------------------------------------------------------------------
(* What an object says, as the API documents its fields                        *)
(* (docs/design/npeval.md, "Semantics" and the table of edge cases).           *)

\* A peer that is of one of its kinds and no other, exclusions inside their block.
SoundPeer(peer) ==
  /\ Cardinality({k \in {"ip", "names", "selector"} :
                    CASE k = "ip" -> peer.ipBlock # Omitted
                      [] k = "names" -> peer.domainNames # {}
                      [] k = "selector" -> Selects(peer)}) = 1
  /\ peer.ipBlock # Omitted => UNION peer.ipBlock.except \subseteq peer.ipBlock.cidr

\* A port with an end has a number before it; and so on.
SoundPort(p) ==
  /\ p.protocol \in {Omitted, "TCP", "UDP", "SCTP"}
  /\ p.number # Omitted => 0 < p.number /\ p.number < 65536
  /\ p.endPort # Omitted => p.number # Omitted /\ p.number <= p.endPort /\ p.endPort < 65536

Sound(object) ==
  \A rule \in Range(object.ingress) \cup Range(object.egress) :
    (\A peer \in rule.peers : SoundPeer(peer)) /\ \A p \in rule.ports : SoundPort(p)

ObjectSelects(object, w) == object.namespace = NamespaceOf[w] /\ LabelOf[w] \in object.podSelector

ObjectGoverns(object, dir) ==
  \/ dir \in object.policyTypes
  \/ object.policyTypes = {} /\ (dir = "ingress" \/ object.egress # << >>)

PeerAdmits(object, peer, other) ==
  CASE other.kind = "workload" ->
         /\ Selects(peer)
         /\ NamespaceOf[other.workload] \in
              IF peer.namespaceSelector = Omitted THEN {object.namespace} ELSE peer.namespaceSelector
         /\ peer.podSelector # Omitted => LabelOf[other.workload] \in peer.podSelector
    [] other.kind = "cidr" ->
         /\ peer.ipBlock # Omitted
         /\ other.block \subseteq peer.ipBlock.cidr
         /\ \A e \in peer.ipBlock.except : other.block \cap e = {}
    [] other.kind = "domain" -> \E d \in peer.domainNames : MatchDomain(d, other.name)

\* `at` is the destination, whose container ports a name is looked up in.
PortAdmits(p, at, port) ==
  /\ port.protocol = IF p.protocol = Omitted THEN "TCP" ELSE p.protocol
  /\ p.name # NoName => /\ at.kind = "workload"
                        /\ [name |-> p.name, port |-> port] \in NamedPorts[at.workload]
  /\ p.number # Omitted =>
       IF p.endPort = Omitted THEN port.number = p.number
                              ELSE p.number <= port.number /\ port.number <= p.endPort

ObjectAdmits(object, w, dir, other, port) ==
  \E rule \in Range(RulesOf(object, dir)) :
    /\ rule.peers = {} \/ \E peer \in rule.peers : PeerAdmits(object, peer, other)
    /\ rule.ports = {} \/
         LET at == IF dir = "egress" THEN other ELSE [kind |-> "workload", workload |-> w]
         IN \E p \in rule.ports : PortAdmits(p, at, port)

-----------------------------------------------------------------------------

Governing(w, dir, provider) ==
  {object \in {p.raw : p \in policies} :
     object.provider = provider /\ ObjectSelects(object, w) /\ ObjectGoverns(object, dir)}

\* From the object to the answer: a workload is isolated by exactly the objects that
\* select it and govern the direction, a layer allows exactly what a rule of
\* one of them admits, and no object is left out but the unsound ones.
\* Normalising, resolving, expanding and merging add nothing and lose nothing.
LayersSayWhatTheirObjectsSay ==
  /\ \A object \in Objects : Rejected(object) <=> ~Sound(object)
  /\ \A w \in Workloads, dir \in Directions, provider \in Providers :
       Isolates(w, dir, provider) <=> Governing(w, dir, provider) # {}
  /\ Asked(LAMBDA w, other, dir, port :
       \A provider \in Layers(w, dir) :
         ByLayer(w, other, dir, port, provider) = "allowed"
           <=> \E object \in Governing(w, dir, provider) : ObjectAdmits(object, w, dir, other, port))
=============================================================================
