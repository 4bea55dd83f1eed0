---------------------------- MODULE StreamClient ----------------------------
(***************************************************************************)
(* openStream in web/src/api.ts: the browser's end of one live stream.     *)
(*                                                                         *)
(* JavaScript runs one callback at a time, so every action is a whole      *)
(* callback; what interleaves are the events of the sockets this handle    *)
(* ever made, its retry timers, and the calls of the page: close when the  *)
(* graph query changes, and the two buttons App.tsx shows while the stream *)
(* is not live.  A WebSocket is modelled by the events it delivers: one    *)
(* that is "closing" will fire close, one that is "failing" will fire      *)
(* error and then close, in one task.                                      *)
(*                                                                         *)
(* What is reported goes to one state of the page that all its handles     *)
(* share (App.tsx:113): a handle starts under what its predecessor left    *)
(* there, and a predecessor that leaks (StoppedStaysStopped) goes on       *)
(* reporting beside it.                                                    *)
(***************************************************************************)
EXTENDS Naturals, FiniteSets

CONSTANTS
  MaxSockets,  \* bound: how many sockets the handle makes
  MaxRetry     \* the cap of the backoff's exponent

ASSUME StreamClientAssumption ==
  /\ MaxSockets \in Nat \ {0}
  /\ MaxRetry \in Nat

Sockets == 1..MaxSockets
None == 0            \* no socket, no timer

VARIABLES
  sock,     \* the state of each socket
  socket,   \* the variable `socket`: the newest one
  made,     \* how many sockets connect() has made
  timer,    \* the variable `timer`: the newest timer, named after the socket
            \* whose close event set it
  timers,   \* the timers that are pending
  retry,    \* the variable `retry`
  closed,   \* the variable `closed`
  giveUp,   \* the variable `giveUp`
  status,   \* the page's status: what was reported last, by whatever handle
  mine,     \* history: this handle reported it
  graph,    \* the socket the graph on screen came from; None for the first paint
  rash      \* history: reconnect was pressed during an attempt or before its end

clientVars == <<sock, socket, made, timer, timers, retry, closed, giveUp, status, mine, graph, rash>>

ClientTypeOK ==
  /\ sock \in [Sockets -> {"unused", "connecting", "open", "closing", "failing", "closed"}]
  /\ socket \in Sockets \cup {None}
  /\ made \in 0..MaxSockets
  /\ timer \in Sockets \cup {None}
  /\ timers \subseteq Sockets
  /\ retry \in 0..MaxRetry
  /\ closed \in BOOLEAN
  /\ giveUp \in BOOLEAN
  /\ status \in {"live", "reconnecting", "snapshot"}
  /\ mine \in BOOLEAN
  /\ graph \in Sockets \cup {None}
  /\ rash \in BOOLEAN

\* WebSocket.close() on socket i.
Closing(s, i) ==
  CASE i = None -> s
    [] i # None /\ s[i] = "connecting" -> [s EXCEPT ![i] = "failing"]
    [] i # None /\ s[i] = "open"       -> [s EXCEPT ![i] = "closing"]
    [] OTHER                           -> s

\* report(): onStatus is the page's setStatus.
Report(s) == status' = s /\ mine' = TRUE

\* connect(), given the sockets as the caller leaves them.
Connect(s) ==
  IF closed
  THEN sock' = s /\ UNCHANGED <<socket, made>>
  ELSE /\ made < MaxSockets
       /\ sock' = [s EXCEPT ![made + 1] = "connecting"]
       /\ socket' = made + 1
       /\ made' = made + 1

\* openStream calls connect() once, and reports nothing: the status is the page's
\* first, or what the handle before this one left.
ClientInit ==
  /\ sock = [i \in Sockets |-> IF i = 1 THEN "connecting" ELSE "unused"]
  /\ socket = 1
  /\ made = 1
  /\ timer = None
  /\ timers = {}
  /\ retry = 0
  /\ closed = FALSE
  /\ giveUp = FALSE
  /\ status \in {"live", "reconnecting", "snapshot"}
  /\ mine = FALSE
  /\ graph = None
  /\ rash = FALSE

-----------------------------------------------------------------------------
(* The callbacks. *)

OnOpen(i) ==
  /\ sock[i] = "connecting"
  /\ sock' = [sock EXCEPT ![i] = "open"]
  /\ retry' = 0
  /\ Report("live")
  /\ UNCHANGED <<socket, made, timer, timers, closed, giveUp, graph, rash>>

OnMessage(i) ==
  /\ sock[i] = "open"
  /\ graph' = i
  /\ Report("live")
  /\ UNCHANGED <<sock, socket, made, timer, timers, retry, closed, giveUp, rash>>

\* The connection attempt fails, or an open connection is lost or closed by the
\* server: the events are due.
Lose(i) ==
  /\ sock[i] \in {"connecting", "open"}
  /\ \/ sock' = [sock EXCEPT ![i] = "failing"]
     \/ sock[i] = "open" /\ sock' = [sock EXCEPT ![i] = "closing"]
  /\ UNCHANGED <<socket, made, timer, timers, retry, closed, giveUp, status, mine, graph, rash>>

\* Wrong: the backoff has no cap.
OnCloseNoCap(i) ==
  /\ sock[i] \in {"closing", "failing"}
  /\ LET gone == [sock EXCEPT ![i] = "closed"]
     IN sock' = IF sock[i] = "failing" THEN Closing(gone, socket) ELSE gone
  /\ IF closed
     THEN UNCHANGED <<timer, timers, retry, status, mine>>
     ELSE IF giveUp
     THEN Report("snapshot") /\ UNCHANGED <<timer, timers, retry>>
     ELSE /\ retry' = retry + 1
          /\ Report("reconnecting")
          /\ timer' = i
          /\ timers' = timers \cup {i}
  /\ UNCHANGED <<socket, made, closed, giveUp, graph, rash>>

\* Wrong: a close event sets the timer and reports nothing.
OnCloseSilent(i) ==
  /\ sock[i] \in {"closing", "failing"}
  /\ LET gone == [sock EXCEPT ![i] = "closed"]
     IN sock' = IF sock[i] = "failing" THEN Closing(gone, socket) ELSE gone
  /\ IF closed \/ giveUp
     THEN UNCHANGED <<timer, timers, retry>>
     ELSE /\ retry' = IF retry < MaxRetry THEN retry + 1 ELSE MaxRetry
          /\ timer' = i
          /\ timers' = timers \cup {i}
  /\ UNCHANGED <<socket, made, closed, giveUp, status, mine, graph, rash>>

\* Wrong: a close event reports and sets no timer.
OnCloseNoTimer(i) ==
  /\ sock[i] \in {"closing", "failing"}
  /\ LET gone == [sock EXCEPT ![i] = "closed"]
     IN sock' = IF sock[i] = "failing" THEN Closing(gone, socket) ELSE gone
  /\ IF closed THEN UNCHANGED <<status, mine>>
     ELSE Report(IF giveUp THEN "snapshot" ELSE "reconnecting")
  /\ UNCHANGED <<socket, made, timer, timers, retry, closed, giveUp, graph, rash>>

\* onerror, for a socket that failed, closes whatever `socket` now is; then
\* onclose reports and sets the next attempt's timer.
OnClose(i) ==
  /\ sock[i] \in {"closing", "failing"}
  /\ LET gone == [sock EXCEPT ![i] = "closed"]
     IN sock' = IF sock[i] = "failing" THEN Closing(gone, socket) ELSE gone
  /\ IF closed
     THEN UNCHANGED <<timer, timers, retry, status, mine>>
     ELSE IF giveUp
     THEN Report("snapshot") /\ UNCHANGED <<timer, timers, retry>>
     ELSE /\ retry' = IF retry < MaxRetry THEN retry + 1 ELSE MaxRetry
          /\ Report("reconnecting")
          /\ timer' = i
          /\ timers' = timers \cup {i}
  /\ UNCHANGED <<socket, made, closed, giveUp, graph, rash>>

\* A socket of a former handle that leaked opens, or delivers: onopen and onmessage
\* report whether or not the handle was closed, onclose does not.
Leaked ==
  /\ status # "live" \/ mine
  /\ status' = "live"
  /\ mine' = FALSE
  /\ UNCHANGED <<sock, socket, made, timer, timers, retry, closed, giveUp, graph, rash>>

TimerFires(t) ==
  /\ t \in timers
  /\ timers' = timers \ {t}
  /\ Connect(sock)
  /\ UNCHANGED <<timer, retry, closed, giveUp, status, mine, graph, rash>>

-----------------------------------------------------------------------------
(* The handle. *)

\* Wrong: close() leaves the socket open.
CloseTimerOnly ==
  /\ ~closed
  /\ closed' = TRUE
  /\ timers' = timers \ {timer}
  /\ UNCHANGED <<sock, socket, made, timer, retry, giveUp, status, mine, graph, rash>>

\* close(): the effect's cleanup, when the query changes or the page goes.
Close ==
  /\ ~closed
  /\ closed' = TRUE
  /\ timers' = timers \ {timer}
  /\ sock' = Closing(sock, socket)
  /\ UNCHANGED <<socket, made, timer, retry, giveUp, status, mine, graph, rash>>

\* The buttons are on screen while the stream is not live, and gone with the
\* handle.
Shown == ~closed /\ status # "live"

\* Wrong: the pending attempt is not called off.
ReconnectKeepingTimer ==
  /\ Shown
  /\ giveUp' = FALSE
  /\ retry' = 0
  /\ Report("reconnecting")
  /\ Connect(Closing(sock, socket))
  /\ rash' = (rash \/ sock[socket] # "closed")
  /\ UNCHANGED <<timer, timers, closed, graph>>

\* reconnect()
Reconnect ==
  /\ Shown
  /\ giveUp' = FALSE
  /\ retry' = 0
  /\ timers' = timers \ {timer}
  /\ Report("reconnecting")
  /\ Connect(Closing(sock, socket))
  /\ rash' = (rash \/ sock[socket] # "closed")
  /\ UNCHANGED <<timer, closed, graph>>

\* Wrong: the pending attempt is not called off.
KeepSnapshotAndTimer ==
  /\ Shown
  /\ status = "reconnecting"
  /\ giveUp' = TRUE
  /\ Report("snapshot")
  /\ UNCHANGED <<sock, socket, made, timer, timers, retry, closed, graph, rash>>

\* keepSnapshot()
KeepSnapshot ==
  /\ Shown
  /\ status = "reconnecting"
  /\ giveUp' = TRUE
  /\ timers' = timers \ {timer}
  /\ Report("snapshot")
  /\ UNCHANGED <<sock, socket, made, timer, retry, closed, graph, rash>>

-----------------------------------------------------------------------------

ClientNext ==
  \/ \E i \in Sockets :
       \/ OnOpen(i)
       \/ OnMessage(i)
       \/ Lose(i)
       \/ OnClose(i)
       \/ TimerFires(i)
  \/ Close
  \/ Reconnect
  \/ KeepSnapshot
  \/ Leaked

\* A socket that is closing or failing does say so, an attempt ends one way or
\* the other, and a timer that is not cleared fires.
ClientFairness ==
  \A i \in Sockets :
    /\ WF_clientVars(OnClose(i)) /\ WF_clientVars(TimerFires(i))
    /\ WF_clientVars(sock[i] = "connecting" /\ (OnOpen(i) \/ Lose(i)))

ClientSpec == ClientInit /\ [][ClientNext]_clientVars /\ ClientFairness

-----------------------------------------------------------------------------
(* Properties. *)

Busy == {i \in Sockets : sock[i] \in {"connecting", "open"}}

\* A handle has one connection at a time, or one on its way, never both, as
\* long as nobody reconnects while an attempt is under way; and a badge that says
\* live on this handle's word does so only while a connection of it is open, or its
\* close event is the next thing to hear from it: whatever the page did to the
\* handle, no event of it ever leaves an older "live" standing.
ConnectionIsAsShown ==
  /\ ~rash => Cardinality(Busy) + Cardinality(timers) <= 1
  /\ mine /\ status = "live" /\ ~closed => \E i \in Sockets : sock[i] \in {"open", "closing", "failing"}

\* What the comment over the stale banner says of the badge, "when the stream is not
\* live the canvas says so" (App.tsx:560-562), without regard to who reported last:
\* it does not hold, since the status is not reset for a new handle.
LiveIsConnected ==
  status = "live" /\ ~closed => \E i \in Sockets : sock[i] \in {"open", "closing", "failing"}

\* A handle that was closed delivers no graph: what it would deliver answers
\* the query the page has left.  (The comment in onclose: "Changing the graph
\* query tears this stream down and opens a replacement".)
ClosedDeliversNothing == [][closed => graph' = graph]_clientVars

\* ... which holds unless somebody reconnected while an attempt was under way;
\* and then a handle that was told to keep its snapshot makes no attempt either
\* (close and keepSnapshot, api.ts:531-548).
StoppedStaysStopped ==
  [][~rash => /\ closed => graph' = graph
              /\ giveUp /\ giveUp' => made' = made]_clientVars

\* A stream that is down and was not given up is tried again; MaxSockets bounds
\* how often.
TriesAgain ==
  (status = "reconnecting" /\ made < MaxSockets)
    ~> (Busy # {} \/ closed \/ giveUp \/ made = MaxSockets)

=============================================================================
