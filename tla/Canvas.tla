------------------------------- MODULE Canvas -------------------------------
(***************************************************************************)
(* web/src/components/GraphCanvas.tsx with the worker that lays the cards  *)
(* out: when a graph is drawn where, and who aims the camera.              *)
(*                                                                         *)
(* The page passes a picture (the filtered graph) and the token of the     *)
(* view it is of.  A picture that comes with the cluster leaves the token  *)
(* alone; a viewer who asks for something else changes the token, and the  *)
(* picture with it, or later when the server has to answer first.  Each    *)
(* picture starts a worker, and ends the one before it.                    *)
(*                                                                         *)
(* A picture is [view, cards, edges, peers]: cards a sequence of [id, w,   *)
(* h, group], edges a set of pairs of ids, peers the ids of the nodes that *)
(* are no cards, drawn at their edges' ends.  Ranks are dagre's, external. *)
(* Lengths are half units and ratios are hundredths; what a click selects  *)
(* is the module View.                                                     *)
(***************************************************************************)
EXTENDS Packing

CONSTANTS
  Pictures,     \* what the page may pass
  FirstPicture,
  Viewport,     \* the smaller side of the canvas, in pixels
  MinimapOver,  \* the minimap is there for more nodes than this (12)
  MaxPushes,    \* bound: pictures the cluster causes
  MaxViews,     \* bound: views the viewer asks for
  MaxEvents     \* bound: times the viewer moves the camera or the mouse

ASSUME CanvasAssumption ==
  /\ FirstPicture \in Pictures
  /\ \A d \in Pictures :
       /\ d.cards \in Seq([id : STRING, w : Nat, h : Nat, group : STRING])
       /\ d.peers \subseteq STRING
       /\ \A i, j \in DOMAIN d.cards : d.cards[i].id = d.cards[j].id => i = j
  /\ {Viewport, MinimapOver, MaxPushes, MaxViews, MaxEvents} \subseteq Nat

VARIABLES
  token,      \* the view that is asked for
  data,       \* the picture
  awaiting,   \* has the server to answer for the picture of this view
  at,         \* graph: where Sigma has each node
  worker,     \* the layout worker
  userMoved,
  fitted,     \* <<the ids of the last layout>>, << >> for null
  lastFit,    \* a ratio, 0 for null
  camera,     \* who aimed it last, the ratio of a fit, and in which view
  focusId,    \* << >> for null
  pressed,    \* downAt: is the mouse button down on the stage, and has it moved
  views, pushes, events

viewer == <<focusId, pressed, events>>
framing == <<userMoved, fitted, lastFit, camera>>
vars == <<token, data, awaiting, at, worker, userMoved, fitted, lastFit, camera, viewer, views, pushes>>

Ids(d) == {d.cards[i].id : i \in DOMAIN d.cards}
Nodes(d) == Ids(d) \cup d.peers
AnyNode == UNION {Nodes(d) : d \in Pictures}
Signature(d) == <<[i \in DOMAIN d.cards |-> d.cards[i].id], d.peers>>
Origin == [x |-> 0, y |-> 0]

Started(phase, d) ==
  [phase |-> phase, job |-> d, ranked |-> NoCards, cards |-> << >>, blocks |-> << >>,
   todo |-> {}, flow |-> StartFlow, result |-> NoCards]
Idle == Started("idle", << >>)

\* Wrong: a running layout is left to finish.
LaunchUnlessBusy(d) ==
  IF worker.phase = "idle" THEN Started("posted", d) ELSE worker

\* A new worker is handed the picture; the old one is terminated.
Launch(d) == Started("posted", d)

\* The effect of a new picture: nodes keep their places, and new ones are at the
\* origin until the layout is done.
Draw(d) ==
  /\ data' = d
  /\ at' = [id \in Ids(d) |-> IF id \in DOMAIN at THEN at[id] ELSE Origin]
  /\ worker' = Launch(d)

TypeOK ==
  /\ token \in {d.view : d \in Pictures}
  /\ data \in Pictures
  /\ awaiting \in BOOLEAN
  /\ DOMAIN at = Ids(data)
  /\ \A id \in DOMAIN at : at[id] \in [x : Int, y : Int]
  /\ worker.phase \in {"idle", "posted", "packing", "answered"}
  /\ worker.phase # "idle" => worker.job = data
  /\ worker.todo \subseteq DOMAIN data.cards
  /\ userMoved \in BOOLEAN
  /\ fitted = << >> \/ fitted \in {<<Signature(d)>> : d \in Pictures}
  /\ lastFit \in Nat
  /\ camera \in [by : {"start", "fit", "viewer", "double", "node"}, ratio : Nat, views : 0..views]
  /\ focusId \in {"none"} \cup AnyNode
  /\ pressed \in {"no", "down", "dragged"}
  /\ views \in 0..MaxViews /\ pushes \in 0..MaxPushes /\ events \in 0..MaxEvents

Init ==
  /\ token = FirstPicture.view
  /\ data = FirstPicture
  /\ awaiting = FALSE
  /\ at = [id \in Ids(FirstPicture) |-> Origin]
  /\ worker = Started("posted", FirstPicture)
  /\ userMoved = FALSE /\ fitted = << >> /\ lastFit = 0
  /\ camera = [by |-> "start", ratio |-> 100, views |-> 0]
  /\ focusId = "none"
  /\ pressed = "no"
  /\ views = 0 /\ pushes = 0 /\ events = 0

-----------------------------------------------------------------------------
(* The layout worker. *)

\* The cards that an edge between two different cards touches.
Touched(d) ==
  {i \in DOMAIN d.cards : \E e \in d.edges :
     d.cards[i].id \in {e[1], e[2]} /\ {e[1], e[2]} \subseteq Ids(d) /\ e[1] # e[2]}

Orphans(d) == [i \in DOMAIN d.cards \ Touched(d) |-> d.cards[i]]

\* Dagre, external, with its margins and separations: two of the placements it can
\* make, a rank for each card from the left, and a single rank.  The boxes of
\* namespaces, which are compound nodes to it, are left out.
Before(d, i) == {j \in Touched(d) : j < i}
Rankings(d) ==
  {[i \in Touched(d) |->
      [x |-> 2 * (60 + MapThenSumSet(LAMBDA j : d.cards[j].w + 130, Before(d, i))) + d.cards[i].w,
       y |-> 120 + d.cards[i].h]],
   [i \in Touched(d) |->
      [x |-> 120 + d.cards[i].w,
       y |-> 2 * (60 + MapThenSumSet(LAMBDA j : d.cards[j].h + 34, Before(d, i))) + d.cards[i].h]]}

\* The message arrives: the ranked part is placed, and the rest is put in blocks.
Rank ==
  /\ worker.phase = "posted"
  /\ \E ranked \in Rankings(worker.job), orphans \in {Orphans(worker.job)} :
       worker' = [worker EXCEPT !.phase = "packing", !.ranked = ranked, !.cards = orphans,
                                !.blocks = Blocks(orphans), !.todo = Firsts(orphans)]
  /\ UNCHANGED <<token, data, awaiting, at, framing, viewer, views, pushes>>

\* The loop of packOrphans takes its next block.
Pack ==
  /\ worker.phase = "packing"
  /\ worker.todo # {}
  /\ LET i == Min(worker.todo)
     IN worker' = [worker EXCEPT !.todo = @ \ {i},
                                 !.flow = PlaceBlock(worker.cards, worker.blocks, @, i)]
  /\ UNCHANGED <<token, data, awaiting, at, framing, viewer, views, pushes>>

\* The grid begins below the ranked cards, at their left.
GridCorner(d, ranked) ==
  IF ranked = NoCards THEN Origin
  ELSE [x |-> Min({ranked[i].x - d.cards[i].w : i \in DOMAIN ranked}),
        y |-> Max({ranked[i].y + d.cards[i].h : i \in DOMAIN ranked}) + 2 * BlockGap]

\* The result is posted, by the position of the card.
Post ==
  /\ worker.phase = "packing"
  /\ worker.todo = {}
  /\ \E corner \in {GridCorner(worker.job, worker.ranked)} :
       worker' = [worker EXCEPT
         !.phase = "answered",
         !.result = [i \in DOMAIN worker.job.cards |->
                       IF i \in DOMAIN worker.ranked THEN worker.ranked[i]
                       ELSE [x |-> corner.x + worker.flow.at[i].x,
                             y |-> corner.y + worker.flow.at[i].y]]]
  /\ UNCHANGED <<token, data, awaiting, at, framing, viewer, views, pushes>>

-----------------------------------------------------------------------------
(* The camera. *)

Span(S) == IF S = {} THEN 0 ELSE Max(S) - Min(S)
SpanX(places) == Span({places[id].x : id \in DOMAIN places})
SpanY(places) == Span({places[id].y : id \in DOMAIN places})
WidestCard(d) == Max({0} \cup {d.cards[i].w : i \in DOMAIN d.cards})
TallestCard(d) == Max({0} \cup {d.cards[i].h : i \in DOMAIN d.cards})

Padded(span, card) == IF span > 0 THEN (106 * (span + 2 * card)) \div span ELSE 106

\* The ratio that frames the cards and not only their centres, and that does not
\* magnify them.
FitRatio(d, places) ==
  LET span == Larger(SpanX(places), SpanY(places))
      frame == Larger(Padded(SpanX(places), WidestCard(d)), Padded(SpanY(places), TallestCard(d)))
  IN IF span > 0 /\ Viewport > 0 THEN Larger(frame, (200 * Viewport) \div span) ELSE frame

Aim(by) == camera' = [by |-> by, ratio |-> 0, views |-> views]
AimFit(ratio) == camera' = [by |-> "fit", ratio |-> ratio, views |-> views]

\* Wrong: the frame is recorded only when the camera goes there.
RecordedIfFramed(stays, ratio) == IF stays THEN lastFit ELSE ratio

Recorded(stays, ratio) == ratio

\* Where the graph has its nodes after a result, whose y grows downward; a card
\* that is no longer drawn is left out.
Placed(w) ==
  [id \in DOMAIN at |->
     IF id \notin Ids(w.job) THEN at[id]
     ELSE LET i == CHOOSE j \in DOMAIN w.job.cards : w.job.cards[j].id = id
          IN [x |-> w.result[i].x, y |-> -w.result[i].y]]

\* The result arrives: places, and a frame for the cards, to which the camera goes
\* unless these ids were framed or the viewer has aimed it.
Laid ==
  /\ worker.phase = "answered"
  /\ \E places \in {Placed(worker)} :
     \E ratio \in {FitRatio(worker.job, places)} :
     \E stays \in {fitted = <<Signature(worker.job)>> \/ userMoved} :
       /\ at' = places
       /\ lastFit' = Recorded(stays, ratio)
       /\ IF stays THEN UNCHANGED camera ELSE AimFit(ratio)
  /\ fitted' = <<Signature(worker.job)>>
  /\ worker' = Idle
  /\ UNCHANGED <<token, data, awaiting, userMoved, viewer, views, pushes>>

-----------------------------------------------------------------------------
(* The page. *)

\* A graph comes with the cluster, or the theme changes.
Push ==
  /\ pushes < MaxPushes
  /\ pushes' = pushes + 1
  /\ \E d \in Pictures : d.view = data.view /\ Draw(d)
  /\ UNCHANGED <<token, awaiting, framing, viewer, views>>

\* Wrong: a new view leaves the camera to the viewer.
HandedBackUnlessAimed == userMoved' = userMoved

HandedBack == userMoved' = FALSE

\* The viewer asks for another view, or for the same in another way: of what the
\* browser has, or of what the server will answer.
ChangeView ==
  /\ views < MaxViews
  /\ views' = views + 1
  /\ \E v \in {d.view : d \in Pictures} :
       /\ v # token
       /\ token' = v
       /\ \/ (\E d \in Pictures : d.view = v /\ Draw(d)) /\ UNCHANGED awaiting
          \/ awaiting' = TRUE /\ UNCHANGED <<data, at, worker>>
  /\ HandedBack
  /\ fitted' = << >>
  /\ UNCHANGED <<lastFit, camera, viewer, pushes>>

\* The server's answer to the view that is asked for.
Answer ==
  /\ awaiting
  /\ awaiting' = FALSE
  /\ \E d \in Pictures : d.view = token /\ Draw(d)
  /\ UNCHANGED <<token, framing, viewer, views, pushes>>

-----------------------------------------------------------------------------
(* The viewer. *)

Event == events < MaxEvents /\ events' = events + 1 /\ UNCHANGED <<token, data, awaiting, at, worker, views, pushes>>

\* The zoom buttons, the wheel, a finger.
Zoom ==
  /\ Event
  /\ userMoved' = TRUE
  /\ Aim("viewer")
  /\ UNCHANGED <<fitted, lastFit, focusId, pressed>>

\* A click on the minimap.
PanTo == Zoom /\ Cardinality(Nodes(data)) > MinimapOver

\* A double click on the stage, or a double tap, which Sigma zooms for by itself:
\* none of the listeners that set userMoved hears of it.
DoubleClick ==
  /\ Event
  /\ pressed = "no"
  /\ Aim(IF userMoved THEN "viewer" ELSE "double")
  /\ UNCHANGED <<userMoved, fitted, lastFit, focusId, pressed>>

Fit ==
  /\ Event
  /\ userMoved' = FALSE
  /\ IF lastFit > 0 THEN AimFit(lastFit)
     ELSE camera' = [by |-> "start", ratio |-> 100, views |-> views]
  /\ UNCHANGED <<fitted, lastFit, focusId, pressed>>

\* The mouse: down on the stage, moved with the button down, which pans, and up.
Down == Event /\ pressed = "no" /\ pressed' = "down" /\ UNCHANGED <<framing, focusId>>

Drag ==
  /\ Event
  /\ pressed # "no"
  /\ pressed' = "dragged"
  /\ Aim("viewer")
  /\ UNCHANGED <<userMoved, fitted, lastFit, focusId>>

\* Wrong: a drag that ends off the stage is not seen.
UpOnStage(inside) == userMoved' = (userMoved \/ (inside /\ pressed = "dragged"))

\* A drag claims the camera wherever it ends; anything else is a click.
UpAnywhere(inside) == userMoved' = (userMoved \/ pressed = "dragged")

\* The button is let go; after a drag the picture glides on.
Up ==
  /\ pressed # "no"
  /\ pressed' = "no"
  /\ \E inside \in BOOLEAN : UpAnywhere(inside)
  /\ IF pressed = "dragged" THEN Aim("viewer") ELSE UNCHANGED camera
  /\ UNCHANGED <<token, data, awaiting, at, worker, views, pushes, fitted, lastFit, focusId, events>>

\* A search result is chosen that was not the last one chosen.  The graph may have
\* come without it just now, and then nothing is aimed.
JumpTo(id) ==
  /\ Event
  /\ focusId # id
  /\ focusId' = id
  /\ IF id \in Nodes(data) THEN userMoved' = TRUE /\ Aim("node") ELSE UNCHANGED <<userMoved, camera>>
  /\ UNCHANGED <<fitted, lastFit, pressed>>

Next ==
  \/ Rank \/ Pack \/ Post \/ Laid
  \/ Push \/ ChangeView \/ Answer
  \/ Zoom \/ PanTo \/ DoubleClick \/ Fit \/ Down \/ Drag \/ Up
  \/ \E id \in AnyNode : JumpTo(id)

\* The worker runs, the server answers, and a mouse button is let go.
Fairness == WF_vars(Rank \/ Pack \/ Post \/ Laid) /\ WF_vars(Answer) /\ WF_vars(Up)

Spec == Init /\ [][Next]_vars /\ Fairness

-----------------------------------------------------------------------------
(* What is checked. *)

\* The grid keeps cards, and the boxes of namespaces, apart at every block it
\* places (the comment on packOrphans, layout.worker.ts:53).
GridIsApart == Apart(worker.cards, worker.flow.at)

\* Once no layout is under way every card has its place of a layout of this very
\* picture, and no two lie on each other: also when one layout was ended by the
\* next picture at any of its steps.
PictureIsLaidOut ==
  worker.phase = "idle" =>
    LET place == [i \in DOMAIN data.cards |-> at[data.cards[i].id]]
    IN \A i, j \in DOMAIN place : i # j => Clear(data.cards, place, i, j, GapX, GapY)

\* Once the viewer has aimed the camera with the buttons, the wheel, a finger, a drag,
\* the minimap or a search, it stays there while graphs come and go (the test
\* at e2e/smoke.spec.ts:596): within a view, only the viewer moves it.  The
\* mouse button is up, and it was no double click: see the next properties.
CameraIsTheViewers ==
  [][/\ camera.by \in {"viewer", "node"}
     /\ camera.views = views'
     /\ pressed = "no"
     /\ events' = events
     => camera' = camera]_vars

\* The comment on userMoved (GraphCanvas.tsx:99): "From then on the view is theirs:
\* workloads coming and going must not drag it away".  A drag under way is not
\* known to the layout that ends then, because userMoved is set on mouseup.
DragIsTheViewers ==
  [][/\ camera.by = "viewer"
     /\ camera.views = views'
     /\ events' = events
     => camera' = camera]_vars

\* The same comment, of the camera that a double click has aimed.
DoubleClickIsTheViewers ==
  [][/\ camera.by = "double"
     /\ camera.views = views'
     /\ events' = events
     => camera' = camera]_vars

\* The canvas has room for any one card and a little more.
RoomForOne ==
  \A d \in Pictures : \A i \in DOMAIN d.cards :
    106 * Viewport >= 107 * d.cards[i].w /\ 106 * Viewport >= 107 * d.cards[i].h

\* What the fit button goes back to shows every card of the picture, its whole width
\* and height, in a viewport that has room for one (GraphCanvas.tsx:373-376).
FitShowsEveryCard ==
  worker.phase = "idle" =>
    LET span == Larger(SpanX(at), SpanY(at))
    IN span > 0 =>
         /\ lastFit * span >= 100 * (SpanX(at) + 2 * WidestCard(data))
         /\ lastFit * span >= 100 * (SpanY(at) + 2 * TallestCard(data))

\* What a layout that has ended leaves on screen: every card in a place of its own
\* and inside the frame the camera goes to when it fits.
LayoutStands == PictureIsLaidOut /\ FitShowsEveryCard

\* A view that is asked for is framed, once it has come and is laid out, unless the
\* viewer aims the camera first: it is not left where the former view had it.
NewViewIsFramed ==
  \A k \in 0..MaxViews : views = k ~> camera.views >= k /\ camera.by # "start"
=============================================================================
