------------------------------- MODULE Panels -------------------------------
(***************************************************************************)
(* The panels that ask the server on their own: the inspector for the      *)
(* selected workload, the popover for the rules behind the selected edge,  *)
(* and the simulation dialog for its suggestions, its verdict and what the *)
(* refusing half accepts.  The viewer selects, types and checks while      *)
(* answers are on their way, answers come in any order or fail, and live   *)
(* graphs arrive (Inspector.tsx, EdgePopover.tsx, SimulatePanel.tsx).      *)
(*                                                                         *)
(* An action is one event with the effects React runs after it.  A request *)
(* whose effect was cleaned up is cancelled: it stays under way and its    *)
(* answer is dropped.  A selected node or edge is the object of one live   *)
(* graph: <<id, rev>>.  An endpoint is a workload that was picked, the     *)
(* text "typed", or "" for a blank field.                                  *)
(***************************************************************************)
EXTENDS Naturals, FiniteSets

CONSTANTS
  Workloads,   \* the workloads
  Cards,       \* what else can be selected: namespaces and peers
  Hosts,       \* the cards that are domains
  Links,       \* the edges, as pairs of nodes
  Declared,    \* those a rule declares; the others are allowed by default
  MaxClicks,   \* bound: how many events the viewer causes
  MaxRev       \* bound: how many live graphs arrive

ASSUME PanelsAssumption ==
  /\ Links \subseteq (Workloads \cup Cards) \X (Workloads \cup Cards)
  /\ Declared \subseteq Links
  /\ {"", "typed"} \cap Workloads = {}
  /\ Hosts \subseteq Cards
  /\ MaxClicks \in Nat
  /\ MaxRev \in Nat

None == << >>           \* no selection, no verdict
Refusal == [error |-> 1]\* what a failed check leaves in place of a verdict
Fields == {"from", "to"}
Endpoints == Workloads \cup {"", "typed"}
Questions == [Fields -> Endpoints]
Verdicts == [about : Questions, denied : SUBSET Fields]
Asks == [of : {"detail"}, about : [node : Workloads], live : BOOLEAN]
        \cup [of : {"rules"}, about : [edge : Links], live : BOOLEAN]
        \cup [of : {"accepts"}, about : Verdicts, live : BOOLEAN]
        \cup [of : {"nodes"}, about : {None}, live : BOOLEAN]
        \cup [of : {"check"}, about : Questions, live : {TRUE}]

VARIABLES
  rev,        \* the live graph that is drawn
  node,       \* selectedNode
  edge,       \* selectedEdge
  detail,     \* Inspector: the workload whose detail is shown, or ""
  failed,     \* Inspector: error
  loading,    \* Inspector: loading
  rules,      \* EdgePopover: "null", or what its list of rules holds
  open,       \* SimulatePanel: is it open
  lists,      \* listsOpen: the fields whose suggestion list is open
  suggested,  \* does it hold the nodes to suggest
  fields,     \* from and to
  verdict,    \* None, a Refusal, or the verdict that is shown
  running,    \* running
  accepts,    \* per half, the workload whose lines are shown, or ""
  asks,       \* the requests under way
  touched,    \* history: were the fields set since the last check
  clicks

inspector == <<detail, failed, loading>>
panel == <<open, lists, suggested, fields, verdict, running, accepts, touched>>
vars == <<rev, node, edge, detail, failed, loading, rules, open, lists, suggested, fields,
          verdict, running, accepts, asks, touched, clicks>>

TypeOK ==
  /\ rev \in 0..MaxRev
  /\ node = None \/ node \in (Workloads \cup Cards) \X (0..rev)
  /\ edge = None \/ edge \in Links \X (0..rev)
  /\ detail \in Workloads \cup {""}
  /\ {failed, loading, open, suggested, running, touched} \subseteq BOOLEAN
  /\ rules \in {"null", "some", "none", "failed"}
  /\ lists \subseteq Fields
  /\ fields \in Questions
  /\ verdict \in Verdicts \cup {None, Refusal}
  /\ accepts \in [Fields -> Workloads \cup {""}]
  /\ asks \subseteq Asks
  /\ clicks \in 0..MaxClicks
  /\ running <=> \E a \in asks : a.of = "check"

Init ==
  /\ rev = 0
  /\ node = None /\ edge = None
  /\ detail = "" /\ failed = FALSE /\ loading = FALSE
  /\ rules = "null"
  /\ open = FALSE /\ lists = {} /\ suggested = FALSE
  /\ fields = [f \in Fields |-> ""]
  /\ verdict = None /\ running = FALSE
  /\ accepts = [f \in Fields |-> ""]
  /\ asks = {} /\ touched = FALSE /\ clicks = 0

Click == clicks < MaxClicks /\ clicks' = clicks + 1 /\ UNCHANGED rev

Picked(e) == IF e \in Workloads THEN e ELSE ""
Live(of, about) == [of |-> of, about |-> about, live |-> TRUE]

\* Wrong: no request is cancelled.
CancelNone(S, of) == S

\* The cleanup of an effect.
Cancel(S, of) == {IF a.of = of THEN [a EXCEPT !.live = FALSE] ELSE a : a \in S}

-----------------------------------------------------------------------------
(* The effects. *)

\* Inspector, on node: only a workload is asked for, and loading is left as it
\* was for anything else.
InspectEffect(n, S) ==
  IF n = node THEN UNCHANGED inspector /\ asks' = S
  ELSE /\ detail' = ""
       /\ failed' = FALSE
       /\ IF n # None /\ n[1] \in Workloads
          THEN loading' = TRUE /\ asks' = Cancel(S, "detail") \cup {Live("detail", [node |-> n[1]])}
          ELSE UNCHANGED loading /\ asks' = Cancel(S, "detail")

\* EdgePopover, which is mounted for an edge that is clicked, also when it is the
\* one that was selected: the press has closed its popover.
Rules(e) == IF e # None THEN rules' = "null" ELSE UNCHANGED rules
RulesAsked(e, S) ==
  Cancel(S, "rules") \cup (IF e = None THEN {} ELSE {Live("rules", [edge |-> e[1]])})

\* What the selection fills in; the ends of an edge are looked up in the graph.
EndpointFor(id) == IF id \in Hosts THEN "typed" ELSE Picked(id)
Prefill(n, e) ==
  IF e # None THEN [from |-> EndpointFor(e[1][1]), to |-> EndpointFor(e[1][2])]
  ELSE [from |-> IF n = None THEN "" ELSE EndpointFor(n[1]), to |-> ""]

\* SimulatePanel, on the verdict and the picked ends: the lines of the refusing
\* half are asked for again, and those shown stay meanwhile.
AcceptsAsked(q, v, S) ==
  Cancel(S, "accepts")
  \cup (IF v \in Verdicts THEN {Live("accepts", [about |-> q, denied |-> v.denied])} ELSE {})
AcceptsShown(v) ==
  IF v \notin Verdicts THEN accepts' = [f \in Fields |-> ""] ELSE UNCHANGED accepts

\* SimulatePanel, on open and prefill: the fields and the verdict are reset.
ResetTo(q) == fields' = q /\ verdict' = None /\ AcceptsShown(None) /\ touched' = TRUE

\* Wrong: the selection is not remembered, so that every graph is a new prefill.
PrefillAlways(n, e) == TRUE

\* Does a new graph make a new prefill: with a selection, since it is computed
\* from the graph's nodes.
PrefillFollows(n, e) == n # None \/ e # None

-----------------------------------------------------------------------------
(* The selection, on the canvas, in the popover or through the palette. *)

Selecting(n, e) ==
  /\ node' = n
  /\ edge' = e
  /\ Rules(e)
  /\ IF open /\ <<n, e>> # <<node, edge>>
     THEN /\ ResetTo(Prefill(n, e))
          /\ InspectEffect(n, RulesAsked(e, AcceptsAsked(Prefill(n, e), None, asks)))
          /\ UNCHANGED <<open, lists, suggested, running>>
     ELSE InspectEffect(n, RulesAsked(e, asks)) /\ UNCHANGED panel

SelectNode(id) == Click /\ Selecting(<<id, rev>>, None)

SelectEdge(l) == Click /\ ~open /\ Selecting(None, <<l, rev>>)

\* Escape, a click beside everything, the crosses of inspector and popover, or a press
\* anywhere outside the popover.
ClearSelection == Click /\ ~open /\ PrefillFollows(node, edge) /\ Selecting(None, None)

OpenTarget == Click /\ ~open /\ edge # None /\ Selecting(<<edge[1][2], rev>>, None)

\* A live graph.  The selected objects stay those of the graph they came from.
Push ==
  /\ rev < MaxRev
  /\ rev' = rev + 1
  /\ IF open /\ PrefillFollows(node, edge)
     THEN /\ ResetTo(Prefill(node, edge))
          /\ asks' = AcceptsAsked(Prefill(node, edge), None, asks)
          /\ UNCHANGED <<open, lists, suggested, running>>
     ELSE UNCHANGED <<panel, asks>>
  /\ UNCHANGED <<node, edge, inspector, rules, clicks>>

-----------------------------------------------------------------------------
(* The simulation dialog. *)

OpenSimulate ==
  /\ Click
  /\ ~open
  /\ open' = TRUE
  /\ lists' = {}
  /\ ResetTo(Prefill(node, edge))
  /\ asks' = AcceptsAsked(Prefill(node, edge), None, asks)
             \cup (IF suggested THEN {} ELSE {Live("nodes", None)})
  /\ UNCHANGED <<node, edge, inspector, rules, suggested, running>>

\* The cross, or a click beside the dialog.
CloseSimulate ==
  /\ Click
  /\ open
  /\ open' = FALSE
  /\ lists' = {}
  /\ asks' = Cancel(asks, "nodes")
  /\ UNCHANGED <<node, edge, inspector, rules, suggested, fields, verdict, running, accepts, touched>>

\* The selection becomes n, without an edge.  A dialog that stays open is reset when
\* that changes its prefill.
Deselecting(n, S) ==
  /\ node' = n
  /\ edge' = None
  /\ UNCHANGED rules
  /\ IF open' /\ <<n, None>> # <<node, edge>>
     THEN /\ ResetTo(Prefill(n, None))
          /\ InspectEffect(n, RulesAsked(None, AcceptsAsked(Prefill(n, None), None, S)))
     ELSE InspectEffect(n, RulesAsked(None, S)) /\ UNCHANGED <<fields, verdict, accepts, touched>>

\* Escape belongs to the open lists first.  The App hears it too and clears the
\* selection, unless it was pressed in a field, and so does the popover, wherever
\* it was pressed.
Escape(typing) ==
  /\ Click
  /\ open
  /\ lists' = {}
  /\ open' = (lists # {})
  /\ Deselecting(IF typing THEN node ELSE None, IF lists = {} THEN Cancel(asks, "nodes") ELSE asks)
  /\ UNCHANGED <<suggested, running>>

\* By the keyboard, which leaves the other field's list open.
FocusField(f) ==
  /\ Click
  /\ open
  /\ lists' = lists \cup {f}
  /\ UNCHANGED <<node, edge, inspector, rules, open, suggested, fields, verdict, running,
                 accepts, asks, touched>>

\* A press of the mouse, in field f or in none, closes the lists of the others, and the
\* popover, which hears every press outside it.
Press(f) ==
  /\ Click
  /\ open
  /\ lists' = {f} \cap Fields
  /\ UNCHANGED <<open, suggested, running>>
  /\ Deselecting(node, asks)

SetField(f, e) ==
  /\ fields' = [fields EXCEPT ![f] = e]
  /\ asks' = IF Picked(e) = Picked(fields[f]) THEN asks
             ELSE AcceptsAsked([fields EXCEPT ![f] = e], verdict, asks)
  /\ touched' = TRUE
  /\ UNCHANGED <<node, edge, inspector, rules, open, suggested, verdict, running, accepts>>

Type(f, e) == Click /\ open /\ e \in {"", "typed"} /\ SetField(f, e) /\ lists' = lists \cup {f}

\* By the keyboard, or by a press when no popover is open: with one, the press resets
\* the field it has just set, and is Press("neither").
Pick(f, w) == Click /\ open /\ suggested /\ f \in lists /\ SetField(f, w) /\ lists' = lists \ {f}

\* ready: both ends hold something (the port is always in range here).
Ready == "" \notin {fields[f] : f \in Fields}

\* run: a verdict stays on screen while the next one is computed, an error does not.
Run ==
  /\ Click
  /\ open
  /\ Ready
  /\ running' = TRUE
  /\ verdict' = IF verdict = Refusal THEN None ELSE verdict
  /\ asks' = asks \cup {Live("check", fields)}
  /\ touched' = FALSE
  /\ UNCHANGED <<node, edge, inspector, rules, open, lists, suggested, fields, accepts>>

\* Wrong: the button stays enabled while a check is running.
CheckTwice == Run

\* The submit button is disabled meanwhile.
Check == ~running /\ Run

-----------------------------------------------------------------------------
(* The answers.  One of a cancelled request is dropped. *)

Settle(a) == a \in asks /\ asks' = asks \ {a} /\ UNCHANGED <<rev, node, edge, clicks>>

Dropped(a) ==
  Settle(a) /\ ~a.live /\ UNCHANGED <<inspector, rules, panel>>

\* Wrong: loading is reset when the detail arrives, not when it fails.
SettleDetailLoaded(a, ok) ==
  /\ Settle(a)
  /\ a.of = "detail" /\ a.live
  /\ detail' = IF ok THEN a.about.node ELSE detail
  /\ failed' = ~ok
  /\ loading' = ~ok
  /\ UNCHANGED <<rules, panel>>

SettleDetail(a, ok) ==
  /\ Settle(a)
  /\ a.of = "detail" /\ a.live
  /\ detail' = IF ok THEN a.about.node ELSE detail
  /\ failed' = ~ok
  /\ loading' = FALSE
  /\ UNCHANGED <<rules, panel>>

\* A failure is an empty list, like an edge no rule declares.
SettleRules(a, ok) ==
  /\ Settle(a)
  /\ a.of = "rules" /\ a.live
  /\ rules' = IF ~ok THEN "failed" ELSE IF a.about.edge \in Declared THEN "some" ELSE "none"
  /\ UNCHANGED <<inspector, panel>>

SettleNodes(a, ok) ==
  /\ Settle(a)
  /\ a.of = "nodes" /\ a.live
  /\ suggested' = ok
  /\ UNCHANGED <<inspector, rules, open, lists, fields, verdict, running, accepts, touched>>

\* A verdict with what it denies, whatever the fields hold by now; or an error.
SettleCheck(a, v) ==
  /\ a \in asks
  /\ a.of = "check"
  /\ v \in Verdicts => v.about = a.about
  /\ verdict' = v
  /\ running' = FALSE
  /\ AcceptsShown(v)
  /\ asks' = AcceptsAsked(fields, v, asks \ {a})
  /\ UNCHANGED <<rev, node, edge, inspector, rules, open, lists, suggested, fields, touched, clicks>>

\* The lines of each half that refused and is a workload; a failed request
\* leaves its half without lines.
SettleAccepts(a, ok) ==
  /\ Settle(a)
  /\ a.of = "accepts" /\ a.live
  /\ accepts' = [f \in Fields |-> IF f \in a.about.denied \cap ok
                                  THEN Picked(a.about.about[f]) ELSE ""]
  /\ UNCHANGED <<inspector, rules, open, lists, suggested, fields, verdict, running, touched>>

Answer(a) ==
  \/ Dropped(a)
  \/ \E ok \in BOOLEAN : SettleDetail(a, ok) \/ SettleRules(a, ok) \/ SettleNodes(a, ok)
  \/ \E d \in SUBSET Fields : SettleCheck(a, [about |-> a.about, denied |-> d])
  \/ SettleCheck(a, Refusal)
  \/ \E ok \in SUBSET Fields : SettleAccepts(a, ok)

Next ==
  \/ \E id \in Workloads \cup Cards : SelectNode(id)
  \/ \E l \in Links : SelectEdge(l)
  \/ ClearSelection
  \/ OpenTarget
  \/ Push
  \/ OpenSimulate
  \/ CloseSimulate
  \/ \E typing \in BOOLEAN : Escape(typing)
  \/ \E f \in Fields : FocusField(f) \/ \E e \in Endpoints : Type(f, e)
  \/ \E f \in Fields \cup {"neither"} : Press(f)
  \/ \E f \in Fields, w \in Workloads : Pick(f, w)
  \/ Check
  \/ \E a \in asks : Answer(a)

\* Every request is answered or fails.
Spec == Init /\ [][Next]_vars /\ WF_vars(\E a \in asks : Answer(a))

-----------------------------------------------------------------------------
(* What is checked. *)

\* A detail, an error and the rules on screen are those of what is selected now,
\* however often the selection changed while they were on their way
\* (Inspector.tsx:485-493, EdgePopover.tsx:42-51).
PanelsShowTheSelection ==
  /\ detail # "" => node # None /\ node[1] = detail
  /\ failed => node # None /\ node[1] \in Workloads
  /\ edge # None => /\ rules = "some" => edge[1] \in Declared
                    /\ rules = "none" => edge[1] \notin Declared

\* The verdict answers the question in the fields unless they were set since it
\* was asked, and once nothing is loading the lines below it are of the halves
\* that refused and of the workloads in the fields (SimulatePanel.tsx:540-614).
AnswersFitTheirQuestion ==
  /\ verdict \in Verdicts /\ ~running /\ ~touched => verdict.about = fields
  /\ (\A a \in asks : a.of = "accepts" => ~a.live) =>
       \A f \in Fields : accepts[f] # "" =>
         verdict \in Verdicts /\ f \in verdict.denied /\ accepts[f] = fields[f]

\* What a panel shows is about what it is opened for.
AnswersFit == PanelsShowTheSelection /\ AnswersFitTheirQuestion

\* Nothing but the viewer changes what is typed, unless something is selected:
\* then every live graph resets the dialog (App.tsx:351-373,
\* SimulatePanel.tsx:519-526).
TypingIsKept ==
  [][fields' # fields => clicks' # clicks \/ node # None \/ edge # None]_vars

\* The skeleton of a selected workload ends; one left over for a card that is
\* selected while a workload loads does not (Inspector.tsx:479-494).
WorkloadsFinishLoading ==
  [](loading /\ node # None /\ node[1] \in Workloads =>
       <>(~loading \/ node = None \/ node[1] \notin Workloads))

\* The comment at SimulatePanel.tsx:517: the dialog is reset when it opens.
ResetOnOpenOnly == [][open /\ open' /\ clicks' = clicks => fields' = fields]_vars

\* The comment at SimulatePanel.tsx:494: "Escape belongs to the list when one is open
\* and to the dialog otherwise".
EscapeBelongsToTheList == [][Escape(TRUE) /\ lists # {} => fields' = fields]_vars

\* What the popover says of an edge without rules (EdgePopover.tsx:166-168):
\* "Nothing declares this."
UndeclaredIsTrue == edge # None /\ rules \in {"none", "failed"} => edge[1] \notin Declared
=============================================================================
