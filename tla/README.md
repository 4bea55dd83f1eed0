# A formal model of Marsad

Marsad watches a Kubernetes cluster, evaluates its network policies and draws
what may talk to what. This directory holds TLA+ modules translated from its
source, the TLC runs that check them on small instances, and TLAPS proofs of
the properties that matter most for every instance. Paths in this file and in
the modules are relative to the repository; `PROJECT.json` maps each
definition to the lines it stands for.

Run TLC with `tlc -config X.cfg M` for the pairs of the tables below, and the
proofs with `tlapm M.tla` for the modules ending in `Proofs`.

## The system

| part | code | state | operations | talks to |
|---|---|---|---|---|
| Cluster watcher | `pkg/cluster/watcher.go` | informer caches, the dirty token, debounce timer and deadline, current `State`, first fault | handlers, `Run`, `loop`, `rebuild`, `Fault` | API server (list/watch), streams (publish) |
| Workload attribution | `watcher.go` 451-578, `workloads.go` | none; reads seven caches in turn | pods to their controllers | watcher |
| Normalisation | `pkg/npeval/provider/*`, `watcher.go` 580-621 | none | API objects to `npeval.Policy`, or a warning | watcher, evaluator |
| Publication | `watcher.go` 341-386 | subscribers, one-slot channels, a mutex | `Subscribe`, unsubscribe, `publish` | watcher's goroutine, stream handlers |
| Live streams | `internal/server/stream.go` | one goroutine and websocket per client | `handleStream`, `send` | publication, browser |
| Policy evaluator | `pkg/npeval` | the `Builder`'s objects; a snapshot is immutable | `AddPolicy`, `Build`, `Effective`, `combineLayers`, `Simulate` | everything that answers a question |
| Closest misses, selectors | `pkg/npeval/{misses,selector}.go` | none | which policy nearly selects a workload | evaluator, inspector |
| Graph | `pkg/graph` | none | nodes and edges of a snapshot, collapsing, focus, exposure, size limit | evaluator, HTTP API, streams |
| HTTP API | `internal/server/*.go` | the evaluator of the current `State` | meta, namespaces, graph, rules, simulate, health | page, panels |
| Stream client | `web/src/api.ts` `openStream` | newest socket, retry timer, `retry`, `closed`, `giveUp` | `connect`, socket callbacks, `close`, `reconnect`, `keepSnapshot` | live streams, page |
| Page: data | `web/src/App.tsx` | graph, summaries, `syncing`, `error` | effects that fetch, stream and poll | HTTP API, stream client |
| Page: view and selection | `App.tsx`, `FilterRail`, `AppHeader`, `CommandPalette`, `ErrorBoundary` | query, filters, selection, dialogs | every control of rail, header, palette, strips and empty screens | page data, canvas, panels |
| Filters | `web/src/lib/filters.ts` | none | what is kept, what is counted | page, rail |
| Panels | `Inspector.tsx`, `EdgePopover.tsx`, `SimulatePanel.tsx` | what each fetched, the dialog's fields and verdict | requests, their cancellation, check | page, HTTP API |
| Canvas | `GraphCanvas.tsx`, `Minimap.tsx`, `CanvasBar.tsx` | Sigma's graph, the worker, `userMoved`, `fitted`, `lastFit`, the camera | data, view token, drags, buttons | page, layout, overlay |
| Layout | `web/src/graph/layout.worker.ts` | none | dagre for cards with edges, `packOrphans` for the rest | canvas |
| Overlay | `web/src/graph/overlay.ts` | cards and curves | what is drawn, rows, heights, ends of curves, pills | canvas |
| Discovery, preflight, faults | `pkg/cluster/{discovery,preflight,fault,client}.go` | none | what can be read, and why not | command, watcher |
| Command | `cmd/marsad/main.go` | preflight fault, two error channels | start, serve, shut down | watcher, HTTP API |
| Theme | `internal/theme`, `web/src/graph/style.ts` | none | colours | overlay |

### What is hard, and what has to be right

* **Watcher.** Reflectors, informer listeners and the rebuild run
  concurrently, and the only thing that connects them is a token in a channel
  of capacity one and a timer. A change must never slip between "the rebuild
  has read that lister" and "nobody will rebuild again"; the debounce must not
  postpone for ever; a `State` made from caches of different moments must be
  complete and never go back; a resync must cost nothing.
* **Attribution.** The caches are of different moments, so the owner of a pod
  may not be there yet, or any more. Every pod must still be counted once, and
  what is no workload must not stay on the graph.
* **Publication and streams.** `publish` runs on the watcher's goroutine under
  a mutex and must not wait for a client; it must not send on a channel that
  is being closed; and a stream that subscribes in the middle of it must not
  miss the newest `State`.
* **Normalisation and evaluator.** Omitted fields have meanings of their own;
  rules are resolved, merged by peer, and the layers of two providers are
  intersected though one speaks of pods and the other of addresses and domains.
  A wrong yes is a false sense of security, a wrong no a false alarm, and an
  empty list means "everything" in several places.
* **Stream client.** One closure is shared by all sockets the handle ever made,
  and events of the old ones arrive after the new one has replaced them.
* **Page and panels.** The same graph comes by two routes, HTTP and websocket;
  summaries, details, rules, verdicts and lines are fetched while the viewer
  goes on selecting and typing, and nothing orders the answers.
* **What the page says.** Nodes are left out at four places (the server's
  query, the focus, collapsed namespaces, the filters), and "Nothing hidden", a
  count or an empty screen that is wrong reads as an all clear.
* **Canvas.** Each new graph ends the layout under way and starts another while
  the viewer pans and zooms: every card must end up somewhere, a new view must
  be framed, and a camera the viewer has aimed must be left alone.

`PROJECT.json` lists every hazard at its line with the properties that guard
it, or the reason why none does.

## The modules

| module | models | extends / instantiates |
|---|---|---|
| `LiveView` | what the watcher promises: a complete view that only moves forward and catches up | |
| `Watcher`, `MCWatcher` | informers, dirty token, `loop`, `rebuild`, fault, cancellation | instance of `LiveView` |
| `Attribution`, `MCAttribution` | `collectWorkloads` and `rootRef` over lagging caches | |
| `Streams` | `publish` and one `handleStream` per client | |
| `StreamClient` | `openStream` and its handle | |
| `Page` | the effects of `App` that decide which data is shown | |
| `Domains` | domain patterns: match, contain, intersect | |
| `Evaluator` | layers, combination, ports, simulation | `Domains` |
| `Normalize` | API objects to policies, and what objects say | `Evaluator` |
| `VerdictPanel` | what the dialog says of a verdict | `Evaluator` |
| `InspectorPanel` | closest misses, and what the inspector says of a workload | `VerdictPanel` |
| `MCEvaluator` | a cluster of three workloads and the objects of each run | `InspectorPanel`, `Normalize` |
| `ClusterGraph` | `pkg/graph`: nodes and edges of a query | |
| `Filters` | `lib/filters.ts`: what is kept and counted | |
| `Overlay` | the cards and curves of a filtered graph | `Filters` |
| `View`, `MCView` | what the viewer changes on the page: query, filters, selection, screens | `ClusterGraph`, `Overlay` |
| `Panels`, `MCPanels` | inspector, popover and dialog with their requests | |
| `Packing` | `packOrphans`: the grid of cards without edges | |
| `Canvas`, `MCCanvas` | renderer's data, layout worker, camera | `Packing` |
| `Exposure` | where the "anything" pills go | |
| `WatcherProofs`, `StreamsProofs`, `EvaluatorProofs`, `ViewProofs`, `PanelsProofs`, `PageProofs`, `CanvasProofs`, `AttributionProofs` | the theorems | the module they are about; `StreamsProofs` also `StreamClient`, `CanvasProofs` also `Exposure`, `EvaluatorProofs` also `Normalize`, `VerdictPanel` and `InspectorPanel` |

How they correspond to the code:

* **Watcher.** What a kind of object contains is a version number that grows
  with every change of any object of that kind, so "the view is stale" is a
  comparison. `rebuild` reads one lister per `ReadLister` step, in the code's
  order, while the reflectors go on; `next` is the lister it reads next.
  `dirty` is the channel, `timer` and `left` are the `*time.Timer` and the
  deadline of `loop`. `Tick` lets time pass also while a ready case has not been
  taken, so the deadline can be past when it is (bounded by `MaxLate`). A
  failing `Build` keeps the previous `State` (`KeepPrevious`); with no previous
  `State` `Run` would dereference nil, the state `"panicked"`.
* **Attribution.** An object is its reference; its value is its pod template's
  label, `Absent` or `Done`. `Root` is `rootRef`, `Workloads` everything
  `collectWorkloads` may return (the pod that stands for a synthetic node is
  whichever comes first). `rebuild` reads kind by kind in the code's `Order`
  while informers catch up, each as a whole; controllers' edits, garbage
  collection, finished and deleted pods are the environment's actions. `status` is
  the number each controller last wrote of what it owns, in the cluster, the caches
  and what was read: `Recount` writes it, late, and a workload none of whose pods was
  read keeps it (watcher.go:543). A CronJob counts its Jobs, any other its pods. That a
  token is never lost is `Watcher`'s business: here a cache's change and its
  token are one step.
* **Streams.** Each channel operation of `publish` (offer, drain, send again)
  and each step of `handleStream` is an action; `todo` is the subscribers the
  range has not reached and holding the mutex is `pub` between `Lock` and
  `Unlock`. `held` is the `State` the handler is about to send, `last` and
  `count` what its client got. A publication is stored before the mutex is
  taken, which is what makes the step back of `BackstepOnlyOnce` possible.
  `ctx.Done()` of a hijacked connection never fires, so that case of the select
  has no action; `updates` is closed only by the handler's own deferred call, so
  `!ok` has none either.
* **StreamClient.** An action is a whole JavaScript callback. A socket that is
  "closing" owes a close event, one that is "failing" an error and a close
  event. Timers are named after the socket whose close event set them, so two
  pending timers with one variable can be told apart. `rash` records that
  reconnect was pressed while the previous socket was not closed. `status` is the
  page's, which all its handles share (App.tsx:113): a handle starts under whatever
  its predecessor left there, and one that leaked may say live at any moment
  (`Leaked`); `mine` records that this handle reported last.
* **Page.** A query is a number, an answer a revision, 503 or a failure. Every
  request is asked, answered at some later moment with what the server has
  then, and delivered at some later moment still; `loads` counts the
  `loadSummaries` calls in each stage, since calls are alike. The stream
  is reduced to what `Streams` and `StreamClient` say of it, the leak of `client_leak`
  included: pressing reconnect while the handle connects (`Reconnect`) leaves a `second`
  connection, which the cleanup at a change of query may or may not end, and which
  goes on drawing graphs of the query it was opened for (`SecondMessage`); there is at
  most one at a time, where more presses would leave more. Both requests
  of one `loadSummaries` are one, answered with the older of what the two see, which
  is as new as the pair on screen is. Clicks run their
  effects before the next event (React 18 flushes the effects of discrete
  events synchronously), hence one action per event.
* **Normalize.** An object has the API's fields with `Omitted` for what is left
  out. `PortRejected` and `PeerRejected` are the normaliser's error returns,
  `NormalizePort`, `NormalizePeer`, `NormalizePolicy` what it makes of the
  rest; one rejection drops the whole object, as `collectPolicies` does with a
  warning. `Policies` of `Evaluator` is `CollectPolicies`, so the evaluator's
  runs start from API objects. The other side, `Sound`, `ObjectAdmits` and
  `ObjectGoverns`, reads the objects as the API documents them and uses none of
  the normaliser.
* **Evaluator.** The state is the set of policies added so far; the questions are
  asked of the snapshot built after each. A prefix is the set of its addresses,
  a list of ports the set of its ports (empty = every port), a selector the set
  of labels it matches. `Layer` is one provider's part of `Effective`,
  including `mergeAllows`, which keeps the first entry's flags and order by
  `Before`; `CombineLayers`, `IntersectPeers`, `IntersectCIDRs` and
  `IntersectPorts` are `combine.go` and `ports.go`; `Decide` and `Simulate` are
  `simulate.go` with its reasons.
* **VerdictPanel, InspectorPanel.** A sentence on screen is its meaning. Both
  are operators over the evaluator's answers, and their properties compare them
  with the rules, not with the answers.
* **ClusterGraph, Filters, Overlay, View.** A cluster is what the evaluator says
  of a snapshot; `Build` is `build.go` for a query, `ApplyFilters` the
  browser's part, `Cards` and `Curves` what the overlay makes of it. `View` has
  one action per control, each with every `setState` of its handlers; the
  answer to a changed query comes in a later step (`Deliver`), and until then
  the old graph is drawn under the new filters. Escape closes a dialog and, outside a text
  field, clears the selection in the same event (`CloseDialog`); the popover of an edge
  hears every Escape and every press outside it, also in a dialog (`ClearSelection`). A graph that is too large
  arrives without arrays and the render throws (`crashed`).
* **Panels.** A request is in `asks` until it is answered, `live` until its
  effect is cleaned up. An action is one event with the effects React runs
  after it, in their order: a selection that changes cancels and asks again, a
  live graph makes the selected node a new object and so the prefill. Escape and a press
  in the dialog also reach the popover of a selected edge (`Deselecting`), which resets the
  fields; the press is an event before whatever it is the beginning of. An
  endpoint is a workload, `"typed"` or blank; text itself is left out.
* **Packing, Canvas, Exposure.** Lengths are half units and ratios hundredths.
  A card's block is named by its first card; `PlaceBlock` is one turn of the
  loop over the blocks. dagre is external: `Rankings` are two placements it
  can make, a rank for each card and a single rank, without the boxes of namespaces it
  draws around ranked cards. `worker` is one layout at a time: a new picture
  ends it at any step. The camera's animations, 340 ms long, are one step. `camera.by`
  says who aimed it last: `"double"` is Sigma's own zoom for a double click or double tap,
  of which no listener of the canvas hears.

## The runs

| run | module, cfg | instance | shows |
|---|---|---|---|
| `watcher` | `MCWatcher`, `Watcher` | 2 kinds that arrive and change once, debounce 2, deadline 3, half of the views unbuildable | `NoLostChange`, `PostponementBounded`, `RebuildsArePaidFor`, `ImplementsLiveViewSafety` |
| `watcher_live` | `MCWatcher`, `WatcherLive` | 1 kind, up to 4 versions, debounce 1, deadline 2 | `ImplementsLiveView` with its liveness, `RunReturns` |
| `attribution` | `MCAttribution`, `Attribution` | a Deployment with a ReplicaSet (its pod not there yet), a CronJob with a running Job, a controller Marsad does not read (its pod not there yet); 2 changes | `PodsAreAttributed`, `AttributionSettles` |
| `streams` | `Streams`, `Streams` | 2 streams that come and go, 3 revisions | `NewestOnItsWay`, `NoSendOnClosed`, `BackstepOnlyOnce`, `PublishNeverWaits`, `StreamsSettle` |
| `client` | `StreamClient`, `StreamClient` | 5 sockets, backoff capped at 2, any status at the start | `ConnectionIsAsShown`, `StoppedStaysStopped`, `TriesAgain` |
| `client_leak` | `StreamClient`, `StreamClientLeak` | the same | violated: `ClosedDeliversNothing` |
| `page` | `Page`, `Page` | 2 queries, 2 revisions, 2 loads, 1 failure, 1 second connection at a time | `GraphAnswersItsQuery`, `PageSettles` |
| `evaluator` | `MCEvaluator`, `Evaluator` | 3 workloads, 4 addresses, 3 ports, up to 3 of the policies of 31 objects, 13 of them unsound | `LayersSayWhatTheirObjectsSay`, `NoFalseDenial`, `CombinationIsExplained`, `PanelsSayTrue`, `PoliciesAreAdditive`, in both modes |
| `evaluator_unresolved` | `MCEvaluator`, `EvaluatorUnresolved` | named ports nobody has | violated: `UnresolvedNamesPermitNothing` |
| `view` | `MCView`, `View` | 6 workloads, 4 namespaces (one collapsed, one empty), cards of 2 rows, peers of up to 2 workloads, 8 drawable nodes, focus of 1 hop, 3 events, 2 `State`s | `RailIsTrue`, `CardsAreTrue`, `SameViewSamePicture` |
| `panels` | `MCPanels`, `Panels` | 2 workloads, a domain, 2 edges, 5 events, 1 live graph | `AnswersFit`, `TypingIsKept`, `WorkloadsFinishLoading` |
| `canvas` | `MCCanvas`, `Canvas` | 4 pictures, one of them empty and the others of 3 to 4 cards, 1 push, 2 views, 2 events | `GridIsApart`, `LayoutStands`, `CameraIsTheViewers`, `NewViewIsFramed` |

Each module's `TypeOK` (`ClientTypeOK` of `StreamClient`) is checked too, in `attribution` as a part of
`PodsAreAttributed`. Every property of a passing run is broken by a mutant: the
operators marked "Wrong:" in the modules are plausible bugs of the code (a
channel closed outside the mutex, a token cleared after the rebuild, a
`policyTypes` default that forgets egress, a filter the view token lacks), and
TLC finds the property violated when one of them replaces the definition it
stands before.

### Further configurations

Each states one sentence of a comment, a document or a screen, and TLC violates
it; the findings in `PROJECT.json` quote the sentence. Where a configuration names
a second property in a comment, it is violated as well when it is put in the place of the
first.

| module, cfg | violated |
|---|---|
| `MCWatcher`, `WatcherFault` | `FaultOnlyWhileUnreadable` |
| `StreamClient`, `StreamClientBadge` | `LiveIsConnected` |
| `Page`, `PageLeak` | `OnlyThisQuery` |
| `MCAttribution`, `AttributionLabels` | `PodsShareTheirNodesLabels`; in its place `BadgesShowWhatExists` |
| `MCEvaluator`, `EvaluatorUnmarked` | `UnmarkedYesIsCertain` |
| `MCEvaluator`, `EvaluatorCited` | `CitedRulesPermit` |
| `MCEvaluator`, `EvaluatorUnasked` | `AllowedWasAsked`; in its place `OnlyEmptySelectsUnlabelled` |
| `MCView`, `ViewOversize` | `OversizeIsRefused` |
| `MCView`, `ViewDNS` | `HidingDNSHidesNothingElse` |
| `MCPanels`, `PanelsReset` | `ResetOnOpenOnly`; in its place `EscapeBelongsToTheList` |
| `MCPanels`, `PanelsUndeclared` | `UndeclaredIsTrue` |
| `MCCanvas`, `CanvasDrag` | `DragIsTheViewers`; in its place `DoubleClickIsTheViewers` |

### Why the bounds are enough

* Watcher: two kinds are the least for which "before" and "after" the lister a
  rebuild is at differ; two versions (three with the empty cache) give every
  kind a change before, during and after it is read. A debounce of 2 under a
  deadline of 3 makes the third token meet the cut; `MaxLate = 2` lets it be met
  late. The theorems take all of these away but for liveness.
* Attribution: there is one chain of every shape `rootRef` tells apart (through
  a ReplicaSet, through a Job, to an owner Marsad does not read), each owner can
  be created or deleted on either side of the lister that reads it, and two
  changes delete a pod's owner and its owner's owner, or an owner and touch another
  object; the controllers' counts, the garbage collector and the informers, which make
  most of the interleavings, are not counted as changes. `EveryPodIsAttributed` takes the
  bound away.
* Streams: two streams are the least with one that blocks, leaves or arrives
  while `publish` serves the other; three revisions make a channel full twice.
* Stream client: five sockets allow a first connection, a reconnect, the second
  chain it leaves, and a retry of each; the backoff is at its cap after two. A former
  handle that leaked is only its reports, at any moment.
* Page: two revisions, two queries and two loads in flight are the least for an
  answer to be overtaken, by another load and by another query; one failure can
  hit any request or the stream; a second connection can be of either query.
* Evaluator: three policies allow two rules of one layer to merge and still meet
  the other layer; every kind of peer occurs in both layers, on one port, on a
  range, by name and on all; every field occurs given and omitted, and every
  error return of the normaliser has an object.
* View: three events reach any combination of two filters and a selection or a
  focus; the namespaces have one that is collapsed, one that is empty and one
  that expanding makes too large; a card has more ports than rows.
* Panels: five events select, open, type, check and select again; one live graph
  can fall between any two of them.
* Canvas: the pictures have no card, one and several blocks, two rows, cards of several
  heights and a cycle of edges; a push or a view can come at each step of the
  layout before it. What the bound says little about, the grid and who owns the
  camera, is proved for all pictures and any number of events.

### Fairness

* Watcher: client-go retries a failed list or watch for ever and its listeners
  call every handler; the goroutine of `Run` is scheduled; time passes.
  Changes of the cluster, errors and cancellation may never come.
* Attribution: informers catch up, a rebuild goes on, the garbage collector of
  Kubernetes collects what has lost its owner, and each controller comes to write the
  number of what it owns. Nobody needs to change anything.
* Streams: the goroutine inside `publish` is scheduled. `StreamsSettle`
  also needs handlers that run: a write ends within `streamWriteTimeout`, a
  ping to a client that has gone fails. Whether a select with a ready message
  and a ready ping ever takes the ping is covered by weak fairness of the ping
  of a broken client only, whose next write fails as well. `PublishNeverWaits`
  needs only the fairness of `publish` itself.
* Stream client: an attempt ends, a closing socket fires its event, a pending
  timer fires. No message needs to arrive and no button to be pressed.
* Page: requests are answered, answers delivered, the interval fires, the
  handler of an open stream sends what is new, the server's first `State`
  comes. The stream's messages need strong fairness because a message waits in
  the model while `MaxLoads` calls are in flight; the code has no such limit.
* Panels: a request is answered or fails; the viewer need do nothing.
* Canvas: the worker's steps and its message, the server's answer to a new
  view, and the release of a mouse button that is down.
* View and Evaluator have only safety properties, and no fairness.

## What is proved

All proofs hold for every value of the constants under the modules' ASSUMEs,
which TLC evaluates in the runs.

**Watcher** (`WatcherProofs`): `TypeCorrect`; `NothingLost` from the inductive
`LossInv`, which adds to `NoLostChange` only that `next` stays in range; the
argument is that whatever a lister shows later than it was read left a handler
call, a token or an armed timer. `PostponementIsBounded` from
`TimerInv`: a set timer exists only in the loop. `MovesForward` and
`WatcherImplementsLiveView` from `OrderInv`, which orders the four
copies of a version, published view <= view being read <= cache <= cluster,
for the kinds already read, and the revisions; the refinement maps `truth` to
the cluster, `shown` to the published view and `live` to "not cancelled",
`Change` to `Evolve`, `Publish` to `Show`, `Cancel` to `Halt` and every other
step to a stutter. `EveryRebuildIsPaidFor` (`RebuildsArePaidFor`) from `PaidInv`: a
rebuild, a token and an armed timer each have a delivered change of their own.
The sum over the kinds is a recursive function; that changing one kind's count
changes it by as much is shown from the least kind where it would not.
`WatcherRestsOnTheCluster`, from `LossInv` and `BuiltInv` (`loop` is entered with a `State`,
the one of the last rebuild that could be built): with nothing left to do, the
watcher has published the cluster as it is, unless `Build` fails on that very view.

**Streams** (`StreamsProofs`): `TypeCorrect`; `NeverSendsOnClosed` from `LockInv`
(who still has to be offered a `State` is subscribed, and the set is empty
while nobody holds the mutex); `NewestReachesAll` from `ChanInv` (a channel holds
the newest `State`, or the one before while `publish` is still to come by);
`BackstepAtMostOnce` from `OrderInv` (what is in the channel is newer than
what the handler holds once that came from the channel itself). They are
proved of `PublisherSpec`, so of slow clients as well. `StreamRestsOnNewest`: while
`publish` is not under way, a stream that waits for the next `State` has sent the
newest, however many were dropped from its channel; from the two above, and that
before its first message it found no `State`. `PublishIsBounded`: once it has the
mutex, `publish` takes at most three steps for each subscriber and one to unlock;
the count of what is left only falls, and no handler moves it.

**Stream client** (`StreamsProofs`), for any number of sockets and any backoff:
`ClientTypeCorrect`, `ConnectionShown` and `StoppedIsStopped`, from the invariant that
unless reconnect was pressed during an attempt, `timer` and `socket` name all
that is pending: at most one timer, or one socket with an event to come. That
is why clearing one and closing the other stops the handle; the exception is
the run `client_leak`. What `ConnectionShown` says of the badge is about what this handle
reported, with or without a second chain: a "live" of its own has an open socket behind
it, or one that still owes its close event. The badge itself is the page's, and a new
handle starts under what it says (`StreamClientBadge`). `ReconnectingIsTrue`: a handle that says it is reconnecting has
a timer set or a socket with an event to come, also with two chains, since each
step that takes the last one of them away makes another or gives up.

**Domains** (first part of `EvaluatorProofs`): two patterns nest or are disjoint
(`PatternsNestOrAreDisjoint`), a containing pattern matches what the contained
one does, and `IntersectDomains` matches exactly what both match.

**Evaluator** (`EvaluatorProofs`): `IntersectPeersIsExact`: where
`intersectPeers` does not mark the pair approximate, the result matches an
endpoint exactly when both peers do. From it and the lemmas on merging
(`MergeCovers`) and ports (`IntersectPortsIsExact`): `NeverDeniedFalsely`,
`AddressesAreSafe`, `OverreachIsExplained` and `UnionIsUnion`, which together are
`CombinationExplained`. The assumptions are that prefixes nest or are disjoint
and that domain labels are labels; the invariant of the specification they need
is only that the policies added are of the given set, the rest is about
functions of them. `OneMorePolicyTakesNothing` (`PoliciesAreAdditive`): a layer of
more policies covers, for each peer, every port it covered; and a combination
matches what some pair of covered peers matches, so it grows with its layers.

**From objects to the screen** (`EvaluatorProofs`), under one hypothesis, `NamesSettle`:
each name a rule gives is a port of its destinations, with the same numbers at
each. It is where the code is known to answer otherwise (`evaluator_unresolved`, and
the names of an egress rule that differ between its destinations), and `MCEvaluator`
assumes it of the objects of `evaluator`. `LayersSayTheirObjects`
(`LayersSayWhatTheirObjectsSay`): an object is left out exactly if it is unsound, and a
layer allows exactly what a rule of an object that governs the workload admits.
The argument goes down one step at a time: a normalised peer and port says what
the object's does (`PeersAdmit`, `PortsAdmit`), a resolved rule what the normalised one
does (`RuleAllowsWhatItSays`), a layer what its rules do (`LayersSayIt`). From the last:
`HeadlinesAreTrue` (`HeadlineIsTrue`) and `SectionsAreTrue` (`SectionIsTrue` of every
workload, direction and mode). For the chips of the inspector's rules the ids of
rules have to be distinct (`RuleAssumption`): a combination cites only rules of the
policies that govern, and where both layers must permit, of both
(`CombinationCites`). `PanelsTellTheTruth` (`PanelsSayTrue`) adds what the inspector
says of a workload nothing selects, for any number of policies: the banner
(`UnprotectedIsUnselected`: no policy is without a direction) and the misses
(`NearestAreListed`). They are the first five of a list sorted by an order with ties.
That there is such a list is `OrdersList`, by the smallest set without one: drop its
last member and append it to a list of the rest. So the five are five policies,
and none left out is nearer. The run has three policies, so nothing is
cut off there; only the theorem speaks of the cut. The invariant it needs of the specification
is that the policies are of the given set and finitely many.

**Page: view, graph, filters and overlay** (`ViewProofs`), for any sequence of
clusters, any limits and any number of events. What is assumed of a cluster is
`IsCluster`: it is finite, its isolation and its rules name the two directions and the
kinds of peers there are, and peers are workloads and namespaces of the snapshot (a
workload's own namespace need not be, since its object may come later).
`TypeCorrect`: the invariant is that the graph held is what some State up to the
newest answered to some query (`HeldInv`), so a card that opens is of a namespace
that exists. `OneViewOnePicture` (`SameViewSamePicture`): what was remembered is the
picture of the one query and the one choice of filters its token tells (`TokensTell`).
`RailTellsTheTruth` (`RailIsTrue`): filters that leave as many nodes leave the same ones;
resetting the default connections only adds nodes (`ResetKeeps`), and a focus keeps
its own node (`StartIsReached`), so each button leads to a picture or a refusal; and
each node counts the workloads drawn as it, which add up to those in scope
(`CountsAddUp`). It needs that no namespace is collapsed: a workload that is drawn
as a peer is counted a second time otherwise. `CardsTellTheTruth` (`CardsAreTrue`): a
workload's node has no other members, so its card's open rows are its own; a fold
lists every port of a finite set (`OrderLists`), so an edge that finds no row has met
a full card (`EdgeHasItsRow`); and the height leaves room for the last row. That the
recursive functions behind folds and hops exist is shown of the least number, or
the smallest set, where they would not.

**Panels** (`PanelsProofs`), for any workloads, cards, edges and number of events:
`TypeCorrect`, `PanelsFit` (`AnswersFit`) and `TypingKept` (`TypingIsKept`). The
invariant says of the requests what the properties say of the screen: one that
has not been cancelled is about what is selected, or about the verdict and the
picked ends of the fields; a check is under way exactly while `running`, at most
one, and about the fields unless they were set since. It is what an answer needs
to be right when it comes, and each effect re-establishes it because it cancels
its own earlier request whenever it asks again. `WaitsAreAsked`: the inspector of a
workload shows its skeleton exactly while a request that is not cancelled is
under way for that workload, and is never blank; the popover likewise for its
rules. It is inductive beside the former: a workload that is selected is asked
for, and only its answer takes the skeleton away.

**Page: data** (`PageProofs`), for any settings and number of events: `TypeCorrect`,
and `DrawnGraphAnswers` (`GraphAnswersItsQuery`): what is newly drawn answers the query
on screen, or the query of the one connection `close` did not find (that it can be the
latter is `PageLeak`). The invariant counts the requests
in flight, so that a number below the bound stays one, and says that a graph in
the stream's pipe or in an answer is of a revision the server has had. The count
is a fold over the answers, unfolded by the smallest set where it would be wrong.
`PageComesToRestOnTheNewest`: with the stream open and drained, the graph is the
newest State's of the query on screen, and the summaries are the newest's once
nothing more is asked. Its exceptions are named in it: an answer of `/api` that was
read before and came last, a second connection that drew last (`stray`), and for the
summaries a failed request.

**Workload attribution** (`AttributionProofs`), for any objects and owners that
Kubernetes lets own one another, and any number of changes: `EveryPodIsAttributed`
(`PodsAreAttributed`). The invariant is that a kind the rebuild has passed was
read as its cache now is unless the token is set again (`LagInv`), and that the
nodes are what `collectWorkloads` makes of what was read; so the counts of the nodes with
pods add up to the pods, and any other node was returned by a lister and keeps its
controller's number. A detail that became a
node was absent when its kind was read, so with caches that have caught up and no
token it is absent from the cluster. `AttributionRestsOnTheCluster`: when the
garbage collector, the controllers, the informers and the loop have nothing left to do, the
nodes are the workloads of the cluster as it is, each with its pods and its labels, and a
CronJob without pods with its unfinished Jobs, whatever was read while it changed. It needs that no label is one of the marks for an
object that is absent or a pod that is done. That the nodes' counts add up to the
running pods is shown of the smallest set of nodes for which they would not.

**Canvas** (`CanvasProofs`): `GridStaysApart`: for any cards of
any sizes and groups, at every turn of the loop no two cards of the grid, nor
the boxes of two namespaces, overlap. The lemmas are about one block (its cells
hold its cards, by division with remainder) and about one turn (`FlowStep`: what
was placed lies above or left of where the next block goes). The invariant
says that a worker that packs stands at such a turn of its own cards' blocks.
Induction over a number is by the least element of a set of naturals.
`CameraStaysTheViewers`: for any pictures and any number of events, a layout
moves a camera that the viewer aimed, by buttons, wheel, finger, drag, minimap or search,
only when the view was changed since (a double click is the exception, `DoubleClickIsTheViewers`);
the invariant ties `userMoved` and `fitted` to who aimed it last.
`TypeCorrect` and `EveryCardHasItsPlace` (`PictureIsLaidOut`), for any pictures whose
ids are distinct and for the two placements of dagre that `Rankings` has: an answer of the worker is a placing of the picture on screen
(`PlacesInv`), because a new picture replaces worker and result. That dagre's
ranks, the grid, and a grid below the ranks keep cards apart are the lemmas
`RanksApart`, `FlowStep` and `ResultIsPlacing`; the positions of ranked cards are sums
over the cards before, which are the lengths of strips (`LengthsAddUp`).
`LayoutAlwaysStands` (`LayoutStands`): the fit button shows every card, if the
canvas has room for any one card (`RoomForOne`, which `MCCanvas` assumes of its
pictures); its 6 % of padding make up for ratios rounded down, and without the
hypothesis a column of cards wider than the canvas is the counterexample.
`ViewRestsFramed`: once the picture that was asked for has come and is laid out, the
camera was aimed in this view. The invariant (`FramingInv`) is that a claim of the
viewer and the memory of a layout are of this view, since a new view forgets both
(GraphCanvas.tsx:412-415), and that a layout leaves a ratio that is not 0.

**Pills** (`CanvasProofs`): a pill that is placed on a side with room stands off its
card (`PillsStandOff`), and the two pills of a card never overlap (`PillsPart`), for
any card, zoom and canvas.

Only model-checked: everything with fairness (`ImplementsLiveView`'s catching
up, `RunReturns`, `AttributionSettles`, `PublishNeverWaits`, `StreamsSettle`,
`TriesAgain`, `PageSettles`, `WorkloadsFinishLoading`, `NewViewIsFramed`), since the
prover handles neither fairness nor ENABLED here. Every invariant and every
action property of the runs is a theorem. All but `RunReturns` are proved in a safety
part: what the system is left with when it comes to rest
(`WatcherRestsOnTheCluster`, `AttributionRestsOnTheCluster`, `StreamRestsOnNewest`, `PageComesToRestOnTheNewest`,
`ViewRestsFramed`), or that what is waited for is under way (`ReconnectingIsTrue`,
`WaitsAreAsked`), or that what is left to do only shrinks (`PublishIsBounded`). That the
rest is reached, or the wait ends, is what only TLC shows.

## What the code does otherwise than it says

With a run or a configuration that shows it:

* Reconnecting during an attempt leaves two retry chains behind one `timer` and one
  `socket`; after `close` one of them can go on delivering graphs of the
  abandoned query to the page (`client_leak`).
* A rule whose only port is a name nobody has permits every port
  (`evaluator_unresolved`).
* A graph that is too large is sent with null nodes, and the page fails to
  render instead of refusing it (`ViewOversize`).
* The fault of the first watch error is never cleared (`WatcherFault`), and the page
  replaces its whole screen while `/api/health` reports one (App.tsx:390).
* During a rollout a Deployment's pods do not share one template's labels, and
  those of the former one are counted in its node (`AttributionLabels`).
* `mergeAllows` keeps the first entry's `Approximate` only, so an undecided yes
  can be unmarked (`EvaluatorUnmarked`).
* A verdict cites the pooled rules of a peer, among them rules for other ports
  (`EvaluatorCited`).
* A query between two endpoints of which neither is a workload is "Allowed", and
  both sides are said to permit it (`EvaluatorUnasked`).
* The inspector says that only an empty podSelector selects a workload without
  labels; NotIn and DoesNotExist do too (`OnlyEmptySelectsUnlabelled`).
* An edge is marked DNS when any of its links is, and hiding DNS hides its other
  ports (`ViewDNS`).
* A live graph resets the simulation dialog while something is selected
  (`PanelsReset`).
* The popover says "Nothing declares this." of an edge whose rules could not be
  fetched (`PanelsUndeclared`).
* Escape in a field of the dialog, pressed to close its list, throws away what was typed
  while an edge is selected: the edge's popover hears it and clears the selection, and
  that resets the fields (`EscapeBelongsToTheList`). So does a press of the mouse in the dialog.
* A layout that ends during a drag moves the camera (`CanvasDrag`), and so does one that
  ends after a double click, which Sigma zooms for without the canvas hearing of it
  (`DoubleClickIsTheViewers`).
* The page's status is not reset when its stream is replaced, so the badge can say live
  while the new handle only connects (`StreamClientBadge`).
* After reconnecting during an attempt and changing the query, the page can draw graphs of
  the query it left (`PageLeak`), which is `client_leak` seen from the page.
* A workload without live pods shows its controller's number, which is late, and for a
  CronJob counts Jobs (`BadgesShowWhatExists`).

Seen while modelling, and either made explicit in a property or left out:

* *Watcher and attribution.* A ReplicaSet or a Job of a CronJob can be a node for
  one `State`, though watcher_test.go:152 says it must not be; the next rebuild
  takes it away (`PodsAreAttributed`).
* *Evaluator.* A named port of an egress rule resolves to the union of the
  numbers over all destinations of the rule (eval.go:318), where the design has it
  per destination (docs/design/npeval.md:414). A pod selector of one layer
  against an address range of the other is kept as an approximate yes for the
  pod, though the layer of the range denies every pod (combine.go:127;
  docs/design/npeval.md:307); `OverreachIsUndecided` says that this, and domains
  against addresses, is the only way a connection is allowed that some layer
  denies. `decide` reports UNDECIDABLE for some connections that a layer
  denies outright (simulate.go:316).
* *Page.* The first graph of a query, fetched over HTTP, can arrive after a newer
  one came on the stream; it is drawn over it and stays until the cluster changes
  (`GraphSettlesUnlessOvertaken`); so do summaries. The error overlay of a
  failed graph request stays until a later `loadSummaries` succeeds. Keeping
  the snapshot during a connection attempt lets the attempt go on (api.ts:544).
* *View.* The workload-kind filter does nothing while no kind is chosen
  (FilterRail.tsx:168-173, 383). Choosing a policy or namespace of the palette
  that is in scope removes it from the scope (CommandPalette.tsx:183, 203). The
  rail says "Nothing hidden" under a focus or a scope, and never while default
  connections are left out. The focus card counts nodes, not workloads; the
  workloads of a collapsed namespace are drawn again as peers. Which workloads
  count as exposed depends on the scope and on `includeDefault`, against the
  comment near build.go:103. `focusId` is never reset.
* *Panels.* The verdict's lines are fetched for the fields as they are when it
  arrives; a late verdict comes under fields that were reset. The lines show
  only the first port of a range (SimulatePanel.tsx:551-561). A prefill without a
  port keeps the former one. `listsOpen` is not what its comment says
  (SimulatePanel.tsx:494-497), and Escape outside a field closes more than the
  list. The inspector's skeleton can stay for a card that is selected while a
  workload loads (Inspector.tsx:479-494; `WorkloadsFinishLoading` says it of
  workloads).
* *Canvas and overlay.* Pushes that come faster than layouts end starve the
  layout; a pan between a change of view and its arrival leaves it unframed; the
  layout of an old picture that is under way at a change of view with the same
  cards counts as the new one's. The minimap pans in graph coordinates where the
  camera has framed ones (GraphCanvas.tsx:178-181). An edge ends on the first
  row of its port's number whatever the protocol (overlay.ts:467-470), and at
  the zoom of chips at the middle of the full card (overlay.ts:845, 1081-1085).
  Default edges that are not drawn are laid out, and add an "all ports" row
  under "only unprotected". Peers that are not drawn sit at the origin and
  enlarge Sigma's frame. The box of a namespace with both connected and
  unconnected cards can overlap others, against layout.worker.ts:52-53. Cards
  overlap below a zoom of about 0.58. The comment at overlay.ts:1003-1005 is
  not so. A hovered id is not cleared when its card vanishes.

## What is not modelled, and why

* `cmd/marsad/main.go`, discovery, preflight and the wording of faults: start-up
  that runs once, in sequence, with no state of its own to go wrong later. One
  hazard of it is listed: the preflight fault is never tried again.
* The theme, colours, contrast, glyphs, text widths, animation, hovering, hit
  tests and grouping on the canvas: presentation without a promise to check.
* Compiling and printing selectors, explanations, display strings, JSON and
  logging: formatting. What a selector, prefix or domain name parses to is
  abstracted to what it matches, so errors of parsing are left out.
* The handlers that are one read of the current `State`; the health poll.
* The types of `pkg/apis`, charts and manifests: data.
* What websocket libraries, client-go, Kubernetes, React, dagre and Sigma do
  internally is modelled from how the code uses it, and marked external in
  `PROJECT.json`.
