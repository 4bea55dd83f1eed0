------------------------------- MODULE MCView -------------------------------
(***************************************************************************)
(* Two States for View: a cluster of six workloads with a collapsed system *)
(* namespace, too large to be drawn when that is expanded, and an empty    *)
(* one; and the same cluster without policies.                             *)
(***************************************************************************)
EXTENDS View

Home ==
  [web |-> "shop", db |-> "shop", batch |-> "jobs",
   dns |-> "kube-system", proxy |-> "kube-system", log |-> "kube-system"]
Kind ==
  [web |-> "Deployment", db |-> "StatefulSet", batch |-> "Job",
   dns |-> "Deployment", proxy |-> "DaemonSet", log |-> "DaemonSet"]
Pods(ws) == [kind |-> "pods", name |-> "", workloads |-> ws, namespaces |-> {Home[w] : w \in ws}]
Peer(kind, name) == [kind |-> kind, name |-> name, workloads |-> {}, namespaces |-> {}]
Allow(w, dir, peer, kind, ports) ==
  [subject |-> w, dir |-> dir, peer |-> peer, kind |-> kind, ports |-> ports]
Port(n, protocol) == <<n, protocol>>

WithPolicies ==
  [namespaces |-> {"shop", "jobs", "kube-system", "idle"},
   system |-> {"kube-system"},
   home |-> Home,
   wkind |-> Kind,
   isolation |-> [web |-> {"ingress", "egress"}, db |-> {"ingress"}, batch |-> {"ingress", "egress"},
                 dns |-> {"ingress"}, proxy |-> {}, log |-> {}],
   allows |-> {Allow("web", "ingress", Peer("world", "0.0.0.0/0"), "allowed", {Port("443", "TCP")}),
               Allow("web", "egress", Pods({"db"}), "allowed", {Port("5432", "TCP")}),
               Allow("web", "egress", Pods({"dns"}), "allowed", {Port("53", "UDP"), Port("53", "TCP")}),
               Allow("web", "egress", Peer("domain", "example.org"), "approximate", {}),
               Allow("db", "ingress", Pods({"web"}), "allowed", {Port("5432", "TCP"), Port("9187", "TCP")}),
               Allow("dns", "ingress", Pods({"web"}), "allowed", {Port("9153", "TCP")})},
   policies |-> 2]

WithoutPolicies ==
  [WithPolicies EXCEPT !.isolation = [w \in DOMAIN Home |-> {}], !.allows = {}, !.policies = 0]

MCClusters == <<WithPolicies, WithoutPolicies>>
=============================================================================
