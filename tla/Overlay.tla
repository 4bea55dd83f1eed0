------------------------------ MODULE Overlay ------------------------------
(***************************************************************************)
(* web/src/graph/overlay.ts: the cards and curves that are drawn of a      *)
(* graph, as ClusterGraph!Build returns it and Filters leaves it.          *)
(*                                                                         *)
(* A card is drawn in layout units, from its top: a header, a row for each *)
(* port that edges reach it on, and the rows that say what no policy       *)
(* forbids.  Glyphs, colours and text widths are left out.  Ports and      *)
(* edges come in the order of the answer, which is some fixed order here.  *)
(***************************************************************************)
EXTENDS Naturals, Sequences, FiniteSets, FiniteSetsExt, Filters

CONSTANT MaxRows   \* a card shows so many ports

ASSUME OverlayAssumption == MaxRows \in Nat

HeaderH == 36
RowH == 21

InOrder(S) == FoldSet(LAMBDA x, s : Append(s, x), << >>, S)

\* What is allowed by default is a line only when lines is set.
DrawnEdges(g, lines) == {e \in g.edges : e.kind = "default" => lines}

\* Peers that nothing drawn refers to are not drawn.
DrawnNodes(g, lines) ==
  LET referenced == UNION {{e.source, e.target} : e \in DrawnEdges(g, lines)}
  IN {n \in g.nodes : n.kind \in {"any", "world"} => n.id \in referenced}

PortsOf(e) == IF e.ports = {} THEN {<<"all ports", "">>} ELSE e.ports

\* One row per port, protocol and kind of the edges that reach a card.
Access(g, lines, id) ==
  LET rows == InOrder(UNION {{[label |-> p[1], protocol |-> p[2], kind |-> e.kind] : p \in PortsOf(e)}
                              : e \in {f \in DrawnEdges(g, lines) : f.target = id}})
  IN SubSeq(rows, 1, Min({MaxRows, Len(rows)}))

\* Wrong: what no policy forbids is read off the default edges for every card.
OpenByEdges(g, n) ==
  {d \in {"ingress", "egress"} :
     \E e \in g.edges : e.kind = "default" /\ n.id = IF d = "ingress" THEN e.target ELSE e.source}

\* The directions a card states as open: a workload's by its own isolation, also
\* when the server left the default edges out.
Open(g, n) ==
  IF n.kind = "workload" /\ n.known THEN {"ingress", "egress"} \ n.isolation
  ELSE {d \in {"ingress", "egress"} :
          \E e \in g.edges : e.kind = "default" /\ n.id = IF d = "ingress" THEN e.target ELSE e.source}

NoPolicy(n) == n.kind = "workload" /\ IsUnprotectedNode(n)

\* The heading of the open rows.
Heading(n, open) ==
  IF open = {} THEN "" ELSE IF NoPolicy(n) THEN "UNPROTECTED" ELSE "NOT ISOLATED"

\* The line below the name.
Posture(n) ==
  IF n.hidden THEN <<n.workloads, "nodes not drawn">>
  ELSE IF n.kind # "namespace" \/ n.workloads = 0 THEN << >>
  ELSE IF n.unprotected > 0 THEN <<n.unprotected, "of", n.workloads, "unprotected">>
  ELSE <<n.workloads, "workloads">>

\* What is in the header's corner.
Corner(n) ==
  IF NoPolicy(n) THEN "no policy"
  ELSE IF n.system THEN "expand"
  ELSE IF n.kind = "namespace" /\ n.workloads > 1 THEN "count" ELSE ""

Height(n, rows, open) ==
  LET lines == Len(rows) + (IF open = {} THEN 0 ELSE Cardinality(open) + 1)
  IN HeaderH + (IF n.kind = "namespace" /\ n.workloads > 0 THEN 8 ELSE 0)
     + (IF lines = 0 THEN 0 ELSE lines * RowH + 6)

Card(g, lines, n) ==
  LET rows == Access(g, lines, n.id)
      open == Open(g, n)
  IN [id |-> n.id, kind |-> n.kind, group |-> IF n.kind = "workload" THEN n.ns ELSE "",
      danger |-> IsUnprotectedNode(n), access |-> rows, open |-> open,
      heading |-> Heading(n, open), posture |-> Posture(n), corner |-> Corner(n),
      h |-> Height(n, rows, open)]

Cards(g, lines) == {Card(g, lines, n) : n \in DrawnNodes(g, lines)}

\* Wrong: the first row of the kind, whatever its port.
AccessIndexOfKind(card, e) ==
  LET hits == {i \in DOMAIN card.access : card.access[i].kind = e.kind}
  IN IF hits = {} THEN 0 ELSE Min(hits)

\* The row an edge ends on, by the label of its first port; 0 for the card.
AccessIndex(card, e) ==
  LET hits == {i \in DOMAIN card.access : /\ card.access[i].label = InOrder(PortsOf(e))[1][1]
                                         /\ card.access[i].kind = e.kind}
  IN IF hits = {} THEN 0 ELSE Min(hits)

\* How far below the top of a card its i-th row begins.
RowTop(i) == HeaderH + 6 + (i - 1) * RowH

\* Below the top of the card: where the curve ends, in half units.
AttachPoint(card, i) == IF i = 0 THEN card.h ELSE 2 * RowTop(i) + RowH

\* The open rows follow the rows of the ports, below their heading.
HeadingTop(card) == RowTop(Len(card.access) + 1)
OpenRowTop(card, i) == RowTop(Len(card.access) + 1 + i)

\* The curves: what is drawn between two cards that are.
Curves(g, lines) ==
  {e \in DrawnEdges(g, lines) : {e.source, e.target} \subseteq {n.id : n \in DrawnNodes(g, lines)}}

\* The label in the middle of a curve, at namespace level.
PortLabel(g, e) == IF g.query.level = "namespace" THEN e.ports ELSE {}
=============================================================================
