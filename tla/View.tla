-------------------------------- MODULE View --------------------------------
(***************************************************************************)
(* The state of web/src/App.tsx that a viewer changes: what the server is  *)
(* asked for (query), what the browser hides of the answer (filters), what *)
(* is selected, and the screens this puts over the canvas.  The rail, the  *)
(* header's chip, the command palette, the keyboard and the canvas all     *)
(* change it, the cluster changes under it, and the answer to a query      *)
(* comes later than the click: until then the graph of the former query is *)
(* what is drawn.                                                          *)
(*                                                                         *)
(* An action is one event with every setState of its handlers.  How graphs *)
(* and summaries are fetched and overtake each other is the module Page;   *)
(* here an answer is the newest State's, with the summaries of that State. *)
(***************************************************************************)
EXTENDS ClusterGraph, Overlay

CONSTANTS
  Clusters,   \* what the evaluator says of each State, in order
  MaxClicks   \* bound: how many events the viewer causes

ASSUME ViewAssumption ==
  /\ Len(Clusters) \in Nat \ {0} /\ DOMAIN Clusters = 1..Len(Clusters)
  /\ \A i \in DOMAIN Clusters : IsCluster(Clusters[i])
  /\ MaxClicks \in Nat

VARIABLES
  rev,        \* the newest State
  query,      \* what the graph is asked for; its focus is focusNodeId
  filters,
  graph,      \* the graph that is held, and of which query and State it is
  node,       \* the id of selectedNode, << >> for null
  edge,       \* the ends and kind of selectedEdge, << >> for null
  edgeAt,     \* is edgeAt set
  palette,    \* paletteOpen
  simulate,   \* simulateOpen
  crashed,    \* did a render throw, so that the ErrorBoundary is shown
  clicks,     \* how many events there were
  framed      \* history: the last settled picture and the view it was of

selection == <<node, edge, edgeAt>>
dialogs == <<palette, simulate>>
vars == <<rev, query, filters, graph, node, edge, edgeAt, palette, simulate,
          crashed, clicks, framed>>

FirstQuery ==
  [level |-> "namespace", namespaces |-> {}, includeDefault |-> TRUE, focus |-> << >>,
   expand |-> {}, includeEmpty |-> FALSE]
NoGraph ==
  [nodes |-> {}, edges |-> {}, empty |-> {}, focus |-> NoFocus, oversize |-> 0,
   query |-> FirstQuery, rev |-> 0]
NoFrame == [view |-> << >>, rev |-> 0, nodes |-> {}, edges |-> {}]

Cluster == Clusters[rev]
Namespaces ==
  UNION {c.namespaces \cup {c.home[w] : w \in Workloads(c)} : c \in {Clusters[i] : i \in DOMAIN Clusters}}
Filtered == ApplyFilters(graph, filters)
EdgeId(e) == <<e.source, e.target, e.kind>>

TypeOK ==
  /\ rev \in DOMAIN Clusters
  /\ query \in [level : {"namespace", "workload"}, namespaces : SUBSET Namespaces,
                includeDefault : BOOLEAN, focus : {query.focus},
                expand : SUBSET Namespaces, includeEmpty : BOOLEAN]
  /\ filters \in [edgeKinds : SUBSET EdgeKinds, workloadKinds : {filters.workloadKinds},
                  hideDNS : BOOLEAN, onlyUnprotected : BOOLEAN,
                  hideIsolatedNodes : BOOLEAN, onlyExposed : BOOLEAN]
  /\ query.includeDefault <=> "default" \in filters.edgeKinds
  /\ graph.rev \in 0..rev
  /\ edge # << >> => node = << >> /\ edgeAt
  /\ {edgeAt, palette, simulate, crashed} \subseteq BOOLEAN
  /\ clicks \in 0..MaxClicks

Init ==
  /\ rev = 1
  /\ query = FirstQuery
  /\ filters = DefaultFilters
  /\ graph = NoGraph
  /\ node = << >> /\ edge = << >> /\ edgeAt = FALSE
  /\ palette = FALSE /\ simulate = FALSE
  /\ crashed = FALSE
  /\ clicks = 0
  /\ framed = NoFrame

\* The dashboard is on screen: no splash and no error boundary.
Shell == graph.rev > 0 /\ ~crashed

\* A click, which a dialog keeps from what is behind it.
Click == Shell /\ clicks < MaxClicks /\ clicks' = clicks + 1 /\ UNCHANGED <<rev, graph, crashed>>
Behind == Click /\ ~palette /\ ~simulate /\ UNCHANGED dialogs

Select(n, e, at) == node' = n /\ edge' = e /\ edgeAt' = at

\* Wrong: empty namespaces are drawn without a new view.
ViewTokenNoEmpty ==
  <<query.level, query.includeDefault, query.namespaces, filters.onlyUnprotected,
    filters.onlyExposed, query.focus, query.expand,
    filters.hideIsolatedNodes, filters.hideDNS, filters.workloadKinds, filters.edgeKinds>>

\* Everything that means "show me something else".
ViewToken ==
  <<query.level, query.includeDefault, query.namespaces, filters.onlyUnprotected,
    filters.onlyExposed, query.focus, query.expand, query.includeEmpty,
    filters.hideIsolatedNodes, filters.hideDNS, filters.workloadKinds, filters.edgeKinds>>

-----------------------------------------------------------------------------
(* The rail and the header: query and filters. *)

Toggled(S, x) == IF x \in S THEN S \ {x} ELSE S \cup {x}

Ask(q) == query' = q /\ UNCHANGED <<filters, selection>>
Hide(f) == filters' = f /\ UNCHANGED <<query, selection>>

SetLevel(l) == Behind /\ Ask([query EXCEPT !.level = l])

ToggleNamespace(ns) == Ask([query EXCEPT !.namespaces = Toggled(@, ns)])

RailNamespace(ns) == Behind /\ ns \in Clusters[graph.rev].namespaces /\ ToggleNamespace(ns)

ClearNamespaces == Behind /\ query.namespaces # {} /\ Ask([query EXCEPT !.namespaces = {}])

\* Wrong: the box of the default connections changes the query alone.
SetEdgeKindApart(k) ==
  /\ Behind
  /\ query' = [query EXCEPT !.includeDefault = IF k = "default" THEN ~@ ELSE @]
  /\ filters' = [filters EXCEPT !.edgeKinds = IF k = "default" THEN @ ELSE Toggled(@, k)]
  /\ UNCHANGED <<selection>>

\* A connection row; the box of "default" is the query's as well.
SetEdgeKind(k) ==
  LET on == IF k = "default" THEN ~query.includeDefault ELSE k \notin filters.edgeKinds
  IN /\ Behind
     /\ filters' = [filters EXCEPT !.edgeKinds = IF on THEN @ \cup {k} ELSE @ \ {k}]
     /\ query' = [query EXCEPT !.includeDefault = IF k = "default" THEN on ELSE @]
     /\ UNCHANGED <<selection>>

\* A kind row.  With no kind chosen every box is checked, and unchecking one
\* takes it out of the empty set.
SetWorkloadKind(k) ==
  LET checked == filters.workloadKinds = {} \/ k \in filters.workloadKinds
  IN /\ Behind
     /\ Cardinality(PresentWorkloadKinds(graph)) > 1
     /\ k \in PresentWorkloadKinds(graph)
     /\ Hide([filters EXCEPT !.workloadKinds = IF checked THEN @ \ {k} ELSE @ \cup {k}])

\* The other boxes; onlyUnprotected is the header's chip too.
ToggleFilter(name) == Behind /\ Hide([filters EXCEPT ![name] = ~@])

\* "reset", "Clear filters": the filters and the default connections.
Reset(q) == [q EXCEPT !.includeDefault = TRUE]

\* Wrong: the namespaces stay chosen.
ShowAllChosen(q) == [q EXCEPT !.includeDefault = TRUE, !.level = "workload"]

\* "Show all workloads" of a cluster without policies.
ShowAll(q) == [q EXCEPT !.includeDefault = TRUE, !.namespaces = {}, !.level = "workload"]

ClearFilters(q) ==
  Behind /\ filters' = DefaultFilters /\ query' = q /\ UNCHANGED <<selection>>

ShowEmpty == Behind /\ graph.empty # {} /\ Ask([query EXCEPT !.includeEmpty = TRUE])

SystemNamespaces == {n.ns : n \in {m \in graph.nodes : m.system}}

ExpandAll ==
  Behind /\ SystemNamespaces # {} /\ Ask([query EXCEPT !.expand = @ \cup SystemNamespaces])

CollapseAgain == Behind /\ query.expand # {} /\ Ask([query EXCEPT !.expand = {}])

ClearFocus == Behind /\ graph.focus # NoFocus /\ Ask([query EXCEPT !.focus = << >>])

-----------------------------------------------------------------------------
(* The canvas, its panels and the keyboard: the selection. *)

\* A collapsed system card opens instead of being selected.
SelectNode(n) ==
  /\ Behind
  /\ IF n.system
     THEN Ask([query EXCEPT !.expand = @ \cup {n.ns}])
     ELSE Select(n.id, << >>, edgeAt) /\ UNCHANGED <<query, filters>>

SelectEdge(e) == Behind /\ Select(<< >>, EdgeId(e), TRUE) /\ UNCHANGED <<query, filters>>

\* A click beside everything, Escape outside a text field, and, for the popover of an
\* edge, Escape anywhere and any press outside it, also in an open dialog.
ClearSelection ==
  /\ Click
  /\ palette => edge # << >>
  /\ Select(<< >>, << >>, FALSE)
  /\ UNCHANGED <<query, filters, dialogs>>

CloseInspector ==
  Behind /\ node # << >> /\ Select(<< >>, edge, edgeAt) /\ UNCHANGED <<query, filters>>

\* The popover of an edge: closed, or left for one of its ends that is drawn.
PopoverOpenNode(id) ==
  /\ Behind
  /\ edge # << >> /\ edgeAt
  /\ id \in {edge[1], edge[2]} \cap {n.id : n \in Filtered.nodes}
  /\ Select(id, << >>, FALSE)
  /\ UNCHANGED <<query, filters>>

\* F: focus on the selection, or give the focus up.
FocusKey ==
  /\ Click
  /\ ~palette
  /\ Ask([query EXCEPT !.focus = IF @ = << >> THEN node ELSE << >>])
  /\ UNCHANGED dialogs

OpenPalette ==
  Click /\ ~palette /\ palette' = TRUE /\ UNCHANGED <<query, filters, selection, simulate>>

\* S, and the buttons of inspector and palette.
OpenSimulate ==
  Click /\ ~palette /\ simulate' = TRUE /\ UNCHANGED <<query, filters, selection, palette>>

\* By its cross, a press beside it, or Escape, which outside a text field clears the
\* selection too.
CloseDialog ==
  /\ Click
  /\ palette \/ simulate
  /\ palette' = FALSE
  /\ simulate' = (simulate /\ palette)
  /\ UNCHANGED selection \/ Select(<< >>, << >>, FALSE)
  /\ UNCHANGED <<query, filters>>

-----------------------------------------------------------------------------
(* The command palette. *)

Choose == Click /\ palette /\ palette' = FALSE

PaletteNode(n) ==
  Choose /\ Select(n.id, << >>, edgeAt) /\ UNCHANGED <<query, filters, simulate>>

\* A namespace, or a policy by its namespace.
PaletteNamespace(ns) ==
  Choose /\ ns \in Clusters[graph.rev].namespaces /\ ToggleNamespace(ns) /\ UNCHANGED simulate

PaletteSimulate == Choose /\ simulate' = TRUE /\ UNCHANGED <<query, filters, selection>>

PaletteSimulateFrom(n) ==
  Choose /\ simulate' = TRUE /\ Select(n.id, << >>, edgeAt) /\ UNCHANGED <<query, filters>>

-----------------------------------------------------------------------------
(* The cluster and the answers. *)

Push ==
  /\ rev < Len(Clusters)
  /\ rev' = rev + 1
  /\ UNCHANGED <<query, filters, graph, selection, dialogs, crashed, clicks>>

\* The newest answer to the query is what is held.
Settled == graph.rev = rev /\ graph.query = query

\* A graph arrives.  The nodes of a refused one are null, where applyFilters
\* reads an array: the render throws and React unmounts the page.
Deliver ==
  LET g == Build(Cluster, query)
      new == [nodes |-> g.nodes, edges |-> g.edges, empty |-> g.empty, focus |-> g.focus,
              oversize |-> g.oversize, query |-> query, rev |-> rev]
  IN /\ ~crashed
     /\ ~Settled
     /\ graph' = new
     /\ crashed' = (g.oversize > 0)
     /\ UNCHANGED <<rev, query, filters, selection, dialogs, clicks>>

\* "Try again" renders a new page, whose state is that of the first.
TryAgain ==
  /\ crashed
  /\ query' = FirstQuery
  /\ filters' = DefaultFilters
  /\ graph' = NoGraph
  /\ Select(<< >>, << >>, FALSE)
  /\ palette' = FALSE /\ simulate' = FALSE
  /\ crashed' = FALSE
  /\ UNCHANGED <<rev, clicks>>

Frame(g) ==
  [view |-> ViewToken', rev |-> rev', nodes |-> {n.id : n \in g.nodes},
   edges |-> {EdgeId(e) : e \in g.edges}]

Remember ==
  framed' = IF Settled' /\ ~crashed' THEN Frame(Filtered') ELSE framed

RailEvent ==
  \/ \E l \in {"namespace", "workload"} : SetLevel(l)
  \/ \E ns \in Namespaces : RailNamespace(ns)
  \/ ClearNamespaces
  \/ \E k \in EdgeKinds : SetEdgeKind(k)
  \/ \E k \in PresentWorkloadKinds(graph) : SetWorkloadKind(k)
  \/ \E b \in {"hideDNS", "onlyUnprotected", "hideIsolatedNodes", "onlyExposed"} : ToggleFilter(b)
  \/ Shell /\ IsHiding(graph, Filtered, query.includeDefault) /\ ClearFilters(Reset(query))
  \/ Shell /\ Filtered.nodes = {} /\ Clusters[graph.rev].policies = 0 /\ ClearFilters(ShowAll(query))
  \/ ShowEmpty
  \/ ExpandAll
  \/ CollapseAgain
  \/ ClearFocus

SelectionEvent ==
  \/ \E n \in Filtered.nodes : SelectNode(n) \/ PaletteNode(n) \/ PaletteSimulateFrom(n)
  \/ \E e \in Filtered.edges : SelectEdge(e)
  \/ ClearSelection
  \/ CloseInspector
  \/ \E n \in Filtered.nodes : PopoverOpenNode(n.id)
  \/ FocusKey

DialogEvent ==
  \/ OpenPalette
  \/ OpenSimulate
  \/ CloseDialog
  \/ \E ns \in Namespaces : PaletteNamespace(ns)
  \/ PaletteSimulate

Next == (RailEvent \/ SelectionEvent \/ DialogEvent \/ Push \/ Deliver \/ TryAgain) /\ Remember

Spec == Init /\ [][Next]_vars

-----------------------------------------------------------------------------
(* What is checked. *)

\* While the rail says "Nothing hidden" (FilterRail.tsx:417), every workload of the
\* newest State is on the canvas, as itself or in the card of its namespace or of
\* the rest, unless a namespace scope leaves it out or the focus banner counts it.
NothingHiddenIsTrue ==
  Shell /\ Settled /\ ~IsHiding(graph, Filtered, query.includeDefault) =>
    \A w \in Workloads(Cluster) :
      \/ ~InScope(query, Cluster.home[w])
      \/ graph.focus # NoFocus
      \/ {WorkloadId(w), NsId(Cluster.home[w])} \cap {n.id : n \in Filtered.nodes} # {}

Shows(q, f) ==
  \A g \in {Build(Cluster, q)} : g.oversize > 0 \/ ApplyFilters(g, f).nodes # {}

\* Each of the empty screens (App.tsx:600-661) says what is so: the button that
\* clears filters, or that shows all workloads, leads to a picture, and "no
\* workloads in the selected namespaces" and "in this cluster" are true.
EmptyScreensAreTrue ==
  Shell /\ Settled /\ Filtered.nodes = {} =>
    IF Cluster.policies = 0
    THEN Shows(ShowAll(query), DefaultFilters) \/ Workloads(Cluster) = {}
    ELSE IF HiddenCount(graph, Filtered) > 0
    THEN Shows(Reset(query), DefaultFilters)
    ELSE \A w \in Workloads(Cluster) : ~InScope(query, Cluster.home[w])

\* The footer counts workloads (filters.ts:131-134): without a focus, whose card
\* counts nodes, and without a collapsed namespace, whose workloads are drawn a
\* second time when they are peers, it counts those in scope, and never shows
\* more than there are.
FooterCountsWorkloads ==
  Shell /\ Settled /\ graph.focus = NoFocus /\ SystemNamespaces = {} =>
    /\ WorkloadCount(graph) = Cardinality(Drawn(Cluster, query))
    /\ WorkloadCount(Filtered) <= WorkloadCount(graph)

\* What the rail and the empty screens say of what is hidden, of how much is
\* shown, and of the way out.
RailIsTrue == NothingHiddenIsTrue /\ FooterCountsWorkloads /\ EmptyScreensAreTrue

Picture == Cards(Filtered, filters.onlyUnprotected)

\* The cards state the findings of their State whatever the filters, also when the
\* default edges are left out of the answer (overlay.ts:383-402): which directions
\* of a workload nothing isolates, and whether a workload in a card has no policy.
\* And a curve that ends on a port ends on a row that names one of its ports, is of
\* its kind and lies on the card; it ends on the card itself only if that is full.
CardsAreTrue ==
  Shell =>
    LET c == Clusters[graph.rev]
        For(n) == {w \in Drawn(c, graph.query) : ClusterNodeId(c, graph.query, w) = n.id}
    IN \A k \in Picture :
         /\ \A w \in For(k) : c.isolation[w] = {} => k.danger
         /\ k.danger => \E w \in For(k) : c.isolation[w] = {}
         /\ \A w \in For(k) : k.kind = "workload" =>
              k.open = {"ingress", "egress"} \ c.isolation[w]
         /\ k.open # {} => OpenRowTop(k, Cardinality(k.open)) + RowH <= k.h
         /\ \A e \in Curves(Filtered, filters.onlyUnprotected) : e.target = k.id =>
              LET i == AccessIndex(k, e)
              IN IF i = 0 THEN Len(k.access) = MaxRows
                 ELSE /\ k.access[i].label \in {p[1] : p \in PortsOf(e)}
                      /\ k.access[i].kind = e.kind
                      /\ AttachPoint(k, i) < 2 * k.h

\* The canvas reframes when the view token changes and only then (App.tsx:297-304),
\* so whatever changes the picture of one State must be in the token.
SameViewSamePicture ==
  [][/\ framed.rev = framed'.rev
     /\ framed.view = framed'.view
     => framed' = framed]_vars

\* What the page says of a graph that is too large (App.tsx:536-558 and the test
\* at e2e/smoke.spec.ts:1426): it is refused on a screen of the page.
OversizeIsRefused == graph.oversize > 0 => ~crashed

\* The comment on Edge.DNS (pkg/graph/graph.go:119): DNS edges are folded away
\* "without hiding anything else".
HidingDNSHidesNothingElse ==
  Shell /\ filters.hideDNS =>
    \A e \in graph.edges : e.dns => e.ports # {} /\ \A p \in e.ports : p[1] = "53"
=============================================================================
