-------------------------------- MODULE Page --------------------------------
(***************************************************************************)
(* The effects of web/src/App.tsx that decide what the page shows: the     *)
(* graph of the current query fetched over HTTP and streamed on a          *)
(* websocket, the summaries that are loaded again on every message, and    *)
(* the poll while the server has nothing yet.                              *)
(*                                                                         *)
(* A query changes by a click, after which React 18 runs the effects       *)
(* before the next event, so an action is one event with its effects.      *)
(* The answers of the server are content revisions, a fetch is named by    *)
(* the query it was made for.  The stream is what Streams and StreamClient *)
(* promise of one handle: its messages arrive in order, end with the       *)
(* newest State and may step back once after it opened.  A handle whose    *)
(* viewer reconnects during an attempt has a second connection, which its  *)
(* close() need not find (StreamClientLeak): it goes on drawing graphs of  *)
(* the query it was opened for, whatever query the page has by then.       *)
(***************************************************************************)
EXTENDS Integers, Sequences, Functions

CONSTANTS
  MaxQueries,   \* bound: how many queries the viewer makes
  MaxRev,       \* bound: how many States the server publishes
  MaxLoads,     \* bound: how many loadSummaries calls are in flight
  MaxFailures   \* bound: how many requests or connections fail

ASSUME PageAssumption ==
  /\ MaxQueries \in Nat \ {0}
  /\ MaxRev \in Nat \ {0}
  /\ MaxLoads \in Nat \ {0, 1}
  /\ MaxFailures \in Nat

Queries == 1..MaxQueries
NotReady == 0               \* the answer 503: no State yet
Failed == MaxRev + 1        \* no answer, or another error
Asked == MaxRev + 2         \* the request is on its way
Unasked == MaxRev + 3       \* not made yet, or delivered
Answers == 0..Failed        \* a revision, NotReady or Failed
NoGraph == [query |-> 0, rev |-> 0]
None == 0                   \* no query

VARIABLES
  rev,       \* the server's newest State; 0 while the caches fill
  query,     \* the current query
  fetch,     \* per query, its fetchGraph
  loads,     \* how many loadSummaries calls are asked, or answered in each way
  stream,    \* the stream of the current query
  pipe,      \* the revisions on their way on it
  sent,      \* the last one that was sent on this connection
  second,    \* the query of a second connection some handle left; None if none did
  graph,     \* what is drawn
  stray,     \* history: a second connection drew it, since the query changed
  meta,      \* the revision of the summaries that are shown
  syncing,   \* the page's syncing
  error,     \* is the error overlay up
  seen,      \* history: the newest revision drawn of this query, and shown of
             \* the summaries
  failures   \* how many failures there were

server == <<rev, failures>>
screen == <<graph, stray, meta, syncing, error, seen>>
vars == <<rev, query, fetch, loads, stream, pipe, sent, second, graph, stray, meta,
          syncing, error, seen, failures>>

TypeOK ==
  /\ rev \in 0..MaxRev
  /\ query \in Queries
  /\ fetch \in [Queries -> Answers \cup {Asked, Unasked}]
  /\ loads \in [Answers \cup {Asked} -> 0..MaxLoads]
  /\ stream \in {"down", "open"}
  /\ \A i \in DOMAIN pipe : pipe[i] \in 1..rev
  /\ sent \in 0..rev
  /\ second \in 0..query
  /\ stray \in BOOLEAN
  /\ graph = NoGraph \/ graph \in [query : 1..query, rev : 1..rev]
  /\ meta \in 0..rev
  /\ syncing \in BOOLEAN
  /\ error \in BOOLEAN
  /\ seen \in [graph : 0..rev, meta : 0..rev]
  /\ failures \in 0..MaxFailures

Init ==
  /\ rev = 0
  /\ query = 1
  /\ fetch = [q \in Queries |-> IF q = 1 THEN Asked ELSE Unasked]
  /\ loads = [a \in Answers \cup {Asked} |-> IF a = Asked THEN 1 ELSE 0]
  /\ stream = "down"
  /\ pipe = << >>
  /\ sent = 0
  /\ second = None
  /\ graph = NoGraph
  /\ stray = FALSE
  /\ meta = 0
  /\ syncing = TRUE
  /\ error = FALSE
  /\ seen = [graph |-> 0, meta |-> 0]
  /\ failures = 0

Larger(a, b) == IF a > b THEN a ELSE b

\* Calls of loadSummaries, of the handler itself and of the effect that runs
\* again when syncing changes; l is what is in flight besides.
Loading(l, calls, s) ==
  LET n == calls + IF s # syncing THEN 1 ELSE 0
  IN /\ FoldFunction(+, n, l) <= MaxLoads
     /\ loads' = [l EXCEPT ![Asked] = @ + n]
     /\ syncing' = s

-----------------------------------------------------------------------------
(* The server and the network. *)

\* A State is published (Watcher, Streams).
Publish ==
  /\ rev < MaxRev
  /\ rev' = rev + 1
  /\ UNCHANGED <<query, fetch, loads, stream, pipe, sent, second, screen, failures>>

\* An answer to a request: the State of this moment, 503 before there is one,
\* or a failure.
Answer(a) ==
  \/ a = rev /\ UNCHANGED failures
  \/ a = Failed /\ failures < MaxFailures /\ failures' = failures + 1

AnswerGraph(q, a) ==
  /\ fetch[q] = Asked
  /\ Answer(a)
  /\ fetch' = [fetch EXCEPT ![q] = a]
  /\ UNCHANGED <<rev, query, loads, stream, pipe, sent, second, screen>>

\* Both requests of a loadSummaries (App.tsx:163) as one: what is shown of the pair
\* is as new as the older of its two answers, and a is that one.
AnswerSummaries(a) ==
  /\ loads[Asked] > 0
  /\ Answer(a)
  /\ loads' = [loads EXCEPT ![Asked] = @ - 1, ![a] = @ + 1]
  /\ UNCHANGED <<rev, query, fetch, stream, pipe, sent, second, screen>>

\* The stream opens and brings the current State, if there is one; the State
\* before it may follow, when it was still in the stream's channel.
OpenStream(back) ==
  /\ stream = "down"
  /\ stream' = "open"
  /\ back => rev > 1
  /\ pipe' = IF rev = 0 THEN << >> ELSE IF back THEN <<rev, rev - 1>> ELSE <<rev>>
  /\ sent' = IF back THEN rev - 1 ELSE rev
  /\ UNCHANGED <<server, query, fetch, loads, second, screen>>

\* handleStream sends the newest State.
Push ==
  /\ stream = "open"
  /\ sent < rev
  /\ pipe' = Append(pipe, rev)
  /\ sent' = rev
  /\ UNCHANGED <<server, query, fetch, loads, stream, second, screen>>

LoseStream ==
  /\ stream = "open"
  /\ failures < MaxFailures
  /\ failures' = failures + 1
  /\ stream' = "down"
  /\ pipe' = << >>
  /\ sent' = 0
  /\ UNCHANGED <<rev, query, fetch, loads, second, screen>>

-----------------------------------------------------------------------------
(* The page. *)

\* Another query: the old fetch is cancelled, the old handle closed.  A second
\* connection ends with it if it was waiting to be retried, or is the newer one.
ChangeQuery ==
  /\ query < MaxQueries
  /\ query' = query + 1
  /\ fetch' = [fetch EXCEPT ![query + 1] = Asked]
  /\ stream' = "down"
  /\ pipe' = << >>
  /\ sent' = 0
  /\ second' \in {second, None}
  /\ stray' = FALSE
  /\ seen' = [seen EXCEPT !.graph = 0]
  /\ UNCHANGED <<server, loads, graph, meta, syncing, error>>

\* Reconnect is pressed while the handle connects: the attempt it gives up for
\* another sets a retry of its own.  The button is not on the boot screen.  One
\* that ends is one that brings nothing more.  Bound: one second connection at a
\* time.
Reconnect ==
  /\ ~(syncing /\ graph = NoGraph /\ ~error)
  /\ stream = "down"
  /\ second = None
  /\ second' = query
  /\ UNCHANGED <<server, query, fetch, loads, stream, pipe, sent, screen>>

\* Draws revision r as the answer to query q.
Draw(q, r) ==
  /\ graph' = [query |-> q, rev |-> r]
  /\ stray' = FALSE
  /\ seen' = [seen EXCEPT !.graph = Larger(@, r)]

\* Wrong: an answer for a query that is gone is drawn.
DeliverGraphUncancelled(q) ==
  /\ fetch[q] \in Answers
  /\ fetch' = [fetch EXCEPT ![q] = Unasked]
  /\ IF fetch[q] = NotReady
     THEN UNCHANGED <<graph, stray, seen, error>>
     ELSE IF fetch[q] = Failed
     THEN error' = TRUE /\ UNCHANGED <<graph, stray, seen>>
     ELSE Draw(q, fetch[q]) /\ UNCHANGED error
  /\ UNCHANGED <<server, query, loads, stream, pipe, sent, second, meta, syncing>>

\* Wrong: the body of a 503 is drawn.
DeliverGraphUnchecked(q) ==
  /\ fetch[q] \in Answers
  /\ fetch' = [fetch EXCEPT ![q] = Unasked]
  /\ IF q # query
     THEN UNCHANGED <<graph, stray, seen, error>>
     ELSE IF fetch[q] = Failed
     THEN error' = TRUE /\ UNCHANGED <<graph, stray, seen>>
     ELSE Draw(q, fetch[q]) /\ UNCHANGED error
  /\ UNCHANGED <<server, query, loads, stream, pipe, sent, second, meta, syncing>>

\* fetchGraph settles, whatever has been drawn since it was asked.
DeliverGraph(q) ==
  /\ fetch[q] \in Answers
  /\ fetch' = [fetch EXCEPT ![q] = Unasked]
  /\ IF q # query \/ fetch[q] = NotReady
     THEN UNCHANGED <<graph, stray, seen, error>>
     ELSE IF fetch[q] = Failed
     THEN error' = TRUE /\ UNCHANGED <<graph, stray, seen>>
     ELSE Draw(q, fetch[q]) /\ UNCHANGED error
  /\ UNCHANGED <<server, query, loads, stream, pipe, sent, second, meta, syncing>>

\* Wrong: only the first graph of a query is drawn.
MessageOnce ==
  /\ pipe # << >>
  /\ pipe' = Tail(pipe)
  /\ IF graph.query = query THEN UNCHANGED <<graph, stray, seen>> ELSE Draw(query, Head(pipe))
  /\ Loading(loads, 1, FALSE)
  /\ UNCHANGED <<server, query, fetch, stream, sent, second, meta, error>>

\* Wrong: the summaries are not loaded again.
MessageOnly ==
  /\ pipe # << >>
  /\ pipe' = Tail(pipe)
  /\ Draw(query, Head(pipe))
  /\ Loading(loads, 0, FALSE)
  /\ UNCHANGED <<server, query, fetch, stream, sent, second, meta, error>>

\* A message of the stream: the graph, and the summaries again.
Message ==
  /\ pipe # << >>
  /\ pipe' = Tail(pipe)
  /\ Draw(query, Head(pipe))
  /\ Loading(loads, 1, FALSE)
  /\ UNCHANGED <<server, query, fetch, stream, sent, second, meta, error>>

\* A message of the second connection: the same callback draws the answer to its
\* handle's query.  It may be of any State there was; the order of these messages
\* is left out.
SecondMessage(r) ==
  /\ second # None
  /\ r \in 1..rev
  /\ graph' = [query |-> second, rev |-> r]
  /\ stray' = TRUE
  /\ seen' = [seen EXCEPT !.graph = IF second = query THEN Larger(@, r) ELSE @]
  /\ Loading(loads, 1, FALSE)
  /\ UNCHANGED <<server, query, fetch, stream, pipe, sent, second, meta, error>>

\* Wrong: success does not end the syncing screen.
DeliverSummariesSyncing(a) ==
  /\ loads[a] > 0
  /\ LET rest == [loads EXCEPT ![a] = @ - 1]
     IN CASE a = NotReady -> Loading(rest, 0, TRUE) /\ UNCHANGED <<meta, error, seen>>
          [] a = Failed   -> Loading(rest, 0, syncing) /\ error' = TRUE /\ UNCHANGED <<meta, seen>>
          [] OTHER        -> /\ Loading(rest, 0, syncing)
                             /\ meta' = a
                             /\ error' = FALSE
                             /\ seen' = [seen EXCEPT !.meta = Larger(@, a)]
  /\ UNCHANGED <<server, query, fetch, stream, pipe, sent, second, graph, stray>>

\* loadSummaries settles, in whatever order its calls were made.
DeliverSummaries(a) ==
  /\ loads[a] > 0
  /\ LET rest == [loads EXCEPT ![a] = @ - 1]
     IN CASE a = NotReady -> Loading(rest, 0, TRUE) /\ UNCHANGED <<meta, error, seen>>
          [] a = Failed   -> Loading(rest, 0, syncing) /\ error' = TRUE /\ UNCHANGED <<meta, seen>>
          [] OTHER        -> /\ Loading(rest, 0, FALSE)
                             /\ meta' = a
                             /\ error' = FALSE
                             /\ seen' = [seen EXCEPT !.meta = Larger(@, a)]
  /\ UNCHANGED <<server, query, fetch, stream, pipe, sent, second, graph, stray>>

\* The interval of two seconds.
Poll ==
  /\ syncing
  /\ Loading(loads, 1, syncing)
  /\ UNCHANGED <<server, query, fetch, stream, pipe, sent, second, graph, stray, meta, error, seen>>

Next ==
  \/ Publish
  \/ \E q \in Queries, a \in Answers : AnswerGraph(q, a)
  \/ \E a \in Answers : AnswerSummaries(a)
  \/ \E back \in BOOLEAN : OpenStream(back)
  \/ Push
  \/ LoseStream
  \/ ChangeQuery
  \/ \E q \in Queries : DeliverGraph(q)
  \/ Message
  \/ Reconnect
  \/ \E r \in 1..MaxRev : SecondMessage(r)
  \/ \E a \in Answers : DeliverSummaries(a)
  \/ Poll

\* Requests are answered and answers delivered, the interval fires, and the
\* handler sends what is new.  The first State comes, or there is nothing to ask
\* for; nothing makes the server publish another, the viewer click, a stream open
\* (the viewer may keep the snapshot) or anything fail.
Fairness ==
  /\ WF_vars(\E a \in Answers : AnswerSummaries(a) \/ \E q \in Queries : AnswerGraph(q, a))
  /\ WF_vars(\E q \in Queries : DeliverGraph(q))
  /\ WF_vars(\E a \in Answers : DeliverSummaries(a))
  /\ SF_vars(Message)
  /\ WF_vars(rev = 0 /\ Publish)
  /\ WF_vars(Poll)
  /\ WF_vars(Push)

Spec == Init /\ [][Next]_vars /\ Fairness

-----------------------------------------------------------------------------
(* What is checked. *)

\* What is newly drawn answers the query on screen, however late the answers to
\* earlier queries come (the cancelled flag of the fetch, App.tsx:190-199, and the
\* closed handle, App.tsx:215), or the query of the one connection close() did not
\* find: no other way leads a former query's graph to the screen.
GraphAnswersItsQuery == [][graph' # graph => graph'.query \in {query, second}]_vars

\* ... which is not what the page is to do: "Changing the graph query tears this
\* stream down" (api.ts:508-509), so that only the query on screen is answered.
OnlyThisQuery == [][graph' # graph => graph'.query = query]_vars

\* Once the server has a State the syncing screen goes and stays away, though
\* 503s asked for earlier arrive late and put it back (App.tsx:168-171).
SyncingEnds == <>[]~syncing

\* With an open stream the newest State is drawn in the end, unless the HTTP
\* answer, older than a streamed graph, came after it and took its
\* place (App.tsx:192), or a second connection drew last: then that stays until the
\* cluster changes again.
GraphSettlesUnlessOvertaken ==
  <>[](\/ stream # "open"
       \/ graph = [query |-> query, rev |-> rev]
       \/ graph.query = query /\ graph.rev < seen.graph
       \/ stray)

\* The same of the summaries, which every message loads again, if nothing fails:
\* they are of the newest State in the end unless an older answer came after a
\* newer one (App.tsx:163-165).
SummariesSettleUnlessOvertaken ==
  <>[](stream # "open" \/ failures > 0 \/ meta = rev \/ meta < seen.meta)

\* The page comes to rest on what the server has, as far as the three say.
PageSettles == SyncingEnds /\ GraphSettlesUnlessOvertaken /\ SummariesSettleUnlessOvertaken
=============================================================================
