---------------------------- MODULE MCEvaluator -----------------------------
(* A small cluster for Evaluator, and the policies each run adds. *)
EXTENDS InspectorPanel, Normalize

MCNamespaces == {"prod", "edge"}
MCLabels == {"api", "db"}
MCWorkloads == {"api", "db", "web"}
MCNamespaceOf == [w \in MCWorkloads |-> IF w = "web" THEN "edge" ELSE "prod"]
MCLabelOf == [w \in MCWorkloads |-> IF w = "db" THEN "db" ELSE "api"]

TCP(number) == [protocol |-> "TCP", number |-> number]
MCPorts == {TCP(80), TCP(443), [protocol |-> "UDP", number |-> 80]}
MCPortNames == {"http", "admin", "gone"}
\* "http" is 80 everywhere; "admin" differs; nobody has "gone".
MCNamedPorts ==
  [w \in MCWorkloads |->
     {[name |-> "http", port |-> TCP(80)]} \cup
     (CASE w = "api" -> {} [] w = "db" -> {[name |-> "admin", port |-> TCP(80)]}
        [] w = "web" -> {[name |-> "admin", port |-> TCP(443)]})]

World == 1..4
MCBlocks == {World, {1, 2}, {3, 4}, {1}}

MCDomainLabels == {"com", "aws", "s3"}
Aws == <<"com", "aws">>
MCDomainNames == {Aws, <<"com", "aws", "s3">>}

\* The order of the keys: by kind, then as the strings of these instances sort.
KindRank == [any |-> 1, cidr |-> 2, domain |-> 3, pods |-> 4]
WorkloadRank == [api |-> 1, db |-> 2, web |-> 3]
Lexical(A, B) ==
  LET differ == (A \ B) \cup (B \ A)
  IN A # B /\ (CHOOSE w \in differ : \A v \in differ : WorkloadRank[w] <= WorkloadRank[v]) \in A
SizeThenLeast(A, B) ==
  \/ Cardinality(A) > Cardinality(B)
  \/ Cardinality(A) = Cardinality(B) /\ A # B /\ \E x \in A \ B : \A y \in B \ A : x < y

MCBefore(p, q) ==
  \/ KindRank[p.kind] < KindRank[q.kind]
  \/ /\ p.kind = "pods" /\ q.kind = "pods"
     /\ \/ Lexical(p.workloads, q.workloads)
        \/ p.workloads = q.workloads /\ p.namespaces # q.namespaces
             /\ (p.namespaces \subseteq q.namespaces \/ "edge" \in p.namespaces \ q.namespaces)
  \/ /\ p.kind = "cidr" /\ q.kind = "cidr"
     /\ \/ SizeThenLeast(p.block, q.block)
        \/ p.block = q.block /\ Cardinality(p.except) < Cardinality(q.except)
  \/ /\ p.kind = "domain" /\ q.kind = "domain"
     /\ \/ p.domain.wild /\ ~q.domain.wild
        \/ p.domain.wild = q.domain.wild /\ Len(p.domain.labels) < Len(q.domain.labels)

\* Peers and ports as the API has them.
NoPeer == [podSelector |-> Omitted, namespaceSelector |-> Omitted, ipBlock |-> Omitted,
           domainNames |-> {}]
In(namespaces, labels) ==
  [NoPeer EXCEPT !.namespaceSelector = namespaces, !.podSelector = labels]
Block(block, except) == [NoPeer EXCEPT !.ipBlock = [cidr |-> block, except |-> except]]
Named(names) == [NoPeer EXCEPT !.domainNames = names]
AnyOf(labels) == [wild |-> TRUE, labels |-> labels]
Just(labels) == [wild |-> FALSE, labels |-> labels]

AnyTCP == [protocol |-> Omitted, name |-> NoName, number |-> Omitted, endPort |-> Omitted]
Port(number) == [AnyTCP EXCEPT !.number = number]
UDPPort == [Port(80) EXCEPT !.protocol = "UDP"]
UpTo(number, endPort) == [Port(number) EXCEPT !.endPort = endPort]
PortNamed(name) == [AnyTCP EXCEPT !.name = name]

\* The database has no labels at all.
MCPairs == [api |-> [app |-> "api", tier |-> "front"], db |-> << >>]

\* The same selectors written in more clauses and in fewer.
MCClauses(p) ==
  LET app == [key |-> "app", op |-> "In", values |-> p.selector]
      tier(op) == [key |-> "tier", op |-> op, values |-> {}]
  IN IF p.selector = MCLabels THEN {}
     ELSE IF p.selector = {"api"} THEN {app} \cup (IF p.provider = "k8s" THEN {} ELSE {tier("Exists")})
     ELSE {[app EXCEPT !.op = "NotIn", !.values = MCLabels \ p.selector], tier("DoesNotExist")}

\* An object in prod for the pods of `selector`, with one rule for `dir`.
Object(name, provider, selector, types, dir, peers, ports) ==
  LET rules == <<[peers |-> peers, ports |-> ports]>>
  IN [name |-> <<provider, dir, name>>, namespace |-> "prod", provider |-> provider,
      podSelector |-> selector, policyTypes |-> types,
      ingress |-> IF dir = "ingress" THEN rules ELSE << >>,
      egress |-> IF dir = "egress" THEN rules ELSE << >>]

\* Default deny: it governs the direction and has no rule.
Deny(provider, types, name) ==
  [name |-> <<provider, name, "deny">>, namespace |-> "prod", provider |-> provider,
   podSelector |-> {"api", "db"}, policyTypes |-> types, ingress |-> << >>, egress |-> << >>]

PeersOf ==
  [anyone  |-> {}, own |-> {In(Omitted, MCLabels)},
   apis    |-> {In(MCNamespaces, {"api"})},
   edge    |-> {In({"edge"}, Omitted)},
   world   |-> {Block(World, {{1}})},
   halves  |-> {Block({1, 2}, {}), Block({3, 4}, {})},
   wild    |-> {Named({AnyOf(<<"com">>)})},
   s3      |-> {Named({Just(<<"com", "aws", "s3">>)}), In(Omitted, {"db"})}]

PortsOf == [all |-> {}, tcp |-> {AnyTCP}, web |-> {Port(80)}, tls |-> {Port(443)},
            both |-> {UpTo(80, 443)}, udp |-> {UDPPort, Port(443)}, http |-> {PortNamed("http")},
            admin |-> {PortNamed("admin")}, gone |-> {PortNamed("gone")}]

Egress(provider, names, ports) ==
  {Object(n \o " " \o ports, provider, {"api"}, {"egress"}, "egress", PeersOf[n], PortsOf[ports]) :
     n \in names}

\* Every kind of peer in both layers, on one port, some and all of them; some
\* leave policyTypes to its default.
PlainObjects ==
  Egress("k8s", {"anyone", "own", "world"}, "all")
    \cup Egress("k8s", {"own", "world"}, "web")
    \cup Egress("k8s", {"apis"}, "tls")
    \cup Egress("k8s", {"own"}, "http")
    \cup Egress("aws-anp", {"own", "halves", "wild"}, "all")
    \cup Egress("aws-anp", {"anyone", "apis"}, "both")
    \cup Egress("aws-anp", {"world"}, "udp")
    \cup {Object("s3", "aws-anp", {"api"}, {}, "egress", PeersOf.s3, PortsOf.tcp),
          Object("in", "k8s", {"api", "db"}, {}, "ingress", PeersOf.edge, PortsOf.http),
          Object("admin", "k8s", {"db"}, {"ingress"}, "ingress", PeersOf.apis, PortsOf.admin),
          Deny("aws-anp", {}, "in"), Deny("k8s", {"egress"}, "out")}

\* Peers and ports no API server admits.
UnsoundPeers ==
  <<NoPeer, [Block(World, {}) EXCEPT !.podSelector = MCLabels],
    [Named({AnyOf(<<"com">>)}) EXCEPT !.namespaceSelector = MCNamespaces],
    [Named({AnyOf(<<"com">>)}) EXCEPT !.ipBlock = [cidr |-> World, except |-> {}]],
    Block({1, 2}, {{1}, {3, 4}}), Block({1, 2}, {World})>>
UnsoundPorts ==
  <<[Port(80) EXCEPT !.protocol = "ICMP"], Port(0), Port(65536), UpTo(443, 80), UpTo(80, 65536),
    [PortNamed("http") EXCEPT !.endPort = 443], [AnyTCP EXCEPT !.endPort = 443]>>
UnsoundObjects ==
  {Object(ToString(i), "aws-anp", {"api"}, {"egress"}, "egress", {UnsoundPeers[i]}, {}) :
     i \in DOMAIN UnsoundPeers}
  \cup
  {Object(ToString(i), "k8s", {"api"}, {"ingress"}, "ingress", {}, {Port(80), UnsoundPorts[i]}) :
     i \in DOMAIN UnsoundPorts}

MCObjects == PlainObjects \cup UnsoundObjects

ASSUME MCNames == Objects = MCObjects => NamesSettle

\* A name no workload has.
GoneObjects ==
  {Object("gone", provider, {"api"}, {dir}, dir, PeersOf.apis, PortsOf.gone) :
     provider \in Providers, dir \in Directions}

\* A domain that meets everyone on one port and an address range on the other.
OverlapObjects ==
  Egress("k8s", {"anyone"}, "web") \cup Egress("k8s", {"world"}, "tls")
    \cup Egress("aws-anp", {"wild"}, "all")

=============================================================================
