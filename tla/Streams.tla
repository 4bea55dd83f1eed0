------------------------------ MODULE Streams ------------------------------
(***************************************************************************)
(* How a published State reaches every open live stream:                   *)
(* Watcher.Subscribe and Watcher.publish (pkg/cluster/watcher.go) and one  *)
(* Server.handleStream (internal/server/stream.go) per connection.         *)
(*                                                                         *)
(* A State is abstracted to its revision.  The publisher, which is the     *)
(* goroutine of Watcher.Run, and the handlers interleave at every channel  *)
(* operation; Watcher.mu keeps Subscribe and the unsubscribe function out  *)
(* of the publisher's loop over the subscribers, and nothing else.         *)
(***************************************************************************)
EXTENDS Naturals

CONSTANTS
  Session,  \* the stream connections, each opened at most once
  MaxRev    \* bound: how many revisions are published

ASSUME StreamsAssumption == MaxRev \in Nat

NoRev == 0           \* no State yet, nothing in a channel, nothing sent

VARIABLES
  state,    \* Watcher.state, the revision last stored
  pub,      \* where publish() is
  todo,     \* the subscribers its loop has still to serve
  cur,      \* the subscriber it is serving while pub is "drain" or "resend"
  subs,     \* the domain of Watcher.subs
  chan,     \* what the buffer of each subscriber's channel holds
  pc,       \* where each handler is
  held,     \* the revision a handler is about to send
  broken,   \* the connections whose client has gone
  last,     \* history: the revision each client was sent last
  count     \* history: how many messages each client was sent

pubVars == <<state, pub, todo, cur>>
sessionVars == <<pc, held, broken, last, count>>
vars == <<pubVars, subs, chan, sessionVars>>

TypeOK ==
  /\ state \in Nat
  /\ pub \in {"idle", "stored", "serving", "drain", "resend"}
  /\ todo \subseteq Session
  /\ pub \in {"drain", "resend"} => cur \in todo
  /\ subs \subseteq Session
  /\ chan \in [Session -> Nat]
  /\ pc \in [Session -> {"none", "accepted", "subscribed", "sending", "loop", "leaving", "gone"}]
  /\ held \in [Session -> Nat]
  /\ broken \subseteq Session
  /\ last \in [Session -> Nat]
  /\ count \in [Session -> Nat]

Init ==
  /\ state = NoRev
  /\ pub = "idle"
  /\ todo = {}
  /\ cur \in Session
  /\ subs = {}
  /\ chan = [s \in Session |-> NoRev]
  /\ pc = [s \in Session |-> "none"]
  /\ held = [s \in Session |-> NoRev]
  /\ broken = {}
  /\ last = [s \in Session |-> NoRev]
  /\ count = [s \in Session |-> 0]

\* Watcher.mu is not held: only the publisher holds it for more than one step.
Unlocked == pub \in {"idle", "stored"}

-----------------------------------------------------------------------------
(* Watcher.publish *)

\* The State is stored before the mutex is taken: readers see it from here on.
Store ==
  /\ pub = "idle"
  /\ state < MaxRev
  /\ state' = state + 1
  /\ pub' = "stored"
  /\ UNCHANGED <<todo, cur, subs, chan, sessionVars>>

Lock ==
  /\ pub = "stored"
  /\ pub' = "serving"
  /\ todo' = subs
  /\ UNCHANGED <<state, cur, subs, chan, sessionVars>>

\* Wrong: the subscriber to drain is not remembered.
OfferForgetting(s) ==
  /\ pub = "serving"
  /\ s \in todo
  /\ \/ /\ chan[s] = NoRev
        /\ chan' = [chan EXCEPT ![s] = state]
        /\ todo' = todo \ {s}
        /\ UNCHANGED <<pub, cur>>
     \/ /\ chan[s] # NoRev
        /\ pub' = "drain"
        /\ UNCHANGED <<cur, chan, todo>>
  /\ UNCHANGED <<state, subs, sessionVars>>

\* Wrong: a subscriber whose buffer is full keeps the older State.
OfferDropping(s) ==
  /\ pub = "serving"
  /\ s \in todo
  /\ chan' = IF chan[s] = NoRev THEN [chan EXCEPT ![s] = state] ELSE chan
  /\ todo' = todo \ {s}
  /\ UNCHANGED <<state, pub, cur, subs, sessionVars>>

\* Wrong: a send that waits for room in the buffer.
OfferWaiting(s) ==
  /\ pub = "serving"
  /\ s \in todo
  /\ chan[s] = NoRev
  /\ chan' = [chan EXCEPT ![s] = state]
  /\ todo' = todo \ {s}
  /\ UNCHANGED <<state, pub, cur, subs, sessionVars>>

\* The first select: send if the buffer is empty, else go on to drop what is in it.
Offer(s) ==
  /\ pub = "serving"
  /\ s \in todo
  /\ \/ /\ chan[s] = NoRev
        /\ chan' = [chan EXCEPT ![s] = state]
        /\ todo' = todo \ {s}
        /\ UNCHANGED <<pub, cur>>
     \/ /\ chan[s] # NoRev
        /\ pub' = "drain"
        /\ cur' = s
        /\ UNCHANGED <<chan, todo>>
  /\ UNCHANGED <<state, subs, sessionVars>>

\* The second select: the handler may have emptied the buffer in the meantime.
Drain ==
  /\ pub = "drain"
  /\ chan' = [chan EXCEPT ![cur] = NoRev]
  /\ pub' = "resend"
  /\ UNCHANGED <<state, todo, cur, subs, sessionVars>>

\* Wrong: the stale State is dropped and the new one is not sent.
ResendNothing ==
  /\ pub = "resend"
  /\ todo' = todo \ {cur}
  /\ pub' = "serving"
  /\ UNCHANGED <<state, cur, subs, chan, sessionVars>>

\* The third select: send if the buffer is empty, else give up on this State.
Resend ==
  /\ pub = "resend"
  /\ chan' = IF chan[cur] = NoRev THEN [chan EXCEPT ![cur] = state] ELSE chan
  /\ todo' = todo \ {cur}
  /\ pub' = "serving"
  /\ UNCHANGED <<state, cur, subs, sessionVars>>

Unlock ==
  /\ pub = "serving"
  /\ todo = {}
  /\ pub' = "idle"
  /\ UNCHANGED <<state, todo, cur, subs, chan, sessionVars>>

-----------------------------------------------------------------------------
(* Server.handleStream *)

\* A client connects and the handler accepts the websocket.
Accept(s) ==
  /\ pc[s] = "none"
  /\ pc' = [pc EXCEPT ![s] = "accepted"]
  /\ UNCHANGED <<pubVars, subs, chan, held, broken, last, count>>

\* Watcher.Subscribe, before anything is read.
Subscribe(s) ==
  /\ pc[s] = "accepted"
  /\ Unlocked
  /\ subs' = subs \cup {s}
  /\ chan' = [chan EXCEPT ![s] = NoRev]
  /\ pc' = [pc EXCEPT ![s] = "subscribed"]
  /\ UNCHANGED <<pubVars, held, broken, last, count>>

\* evaluator(): the current State, to be sent at once if there is one.
ReadState(s) ==
  /\ pc[s] = "subscribed"
  /\ held' = [held EXCEPT ![s] = state]
  /\ pc' = [pc EXCEPT ![s] = IF state = NoRev THEN "loop" ELSE "sending"]
  /\ UNCHANGED <<pubVars, subs, chan, broken, last, count>>

\* Wrong: the update is only a signal, and the current State is read again.
TakeCurrent(s) ==
  /\ pc[s] = "loop"
  /\ chan[s] # NoRev
  /\ held' = [held EXCEPT ![s] = state]
  /\ chan' = [chan EXCEPT ![s] = NoRev]
  /\ pc' = [pc EXCEPT ![s] = "sending"]
  /\ UNCHANGED <<pubVars, subs, broken, last, count>>

\* The `<-updates` case of the loop.
Take(s) ==
  /\ pc[s] = "loop"
  /\ chan[s] # NoRev
  /\ held' = [held EXCEPT ![s] = chan[s]]
  /\ chan' = [chan EXCEPT ![s] = NoRev]
  /\ pc' = [pc EXCEPT ![s] = "sending"]
  /\ UNCHANGED <<pubVars, subs, broken, last, count>>

\* The write is done; if the client has gone unnoticed the bytes are lost.
Send(s) ==
  /\ pc[s] = "sending"
  /\ pc' = [pc EXCEPT ![s] = "loop"]
  /\ last' = [last EXCEPT ![s] = held[s]]
  /\ count' = [count EXCEPT ![s] = @ + 1]
  /\ UNCHANGED <<pubVars, subs, chan, held, broken>>

\* The write fails, because the client has gone or has not read for too long.
SendFails(s) ==
  /\ pc[s] = "sending"
  /\ pc' = [pc EXCEPT ![s] = "leaving"]
  /\ UNCHANGED <<pubVars, subs, chan, held, broken, last, count>>

\* Wrong: an unanswered ping is ignored.
PingIgnored(s) ==
  /\ pc[s] = "loop"
  /\ UNCHANGED vars

\* The ping ticks and goes unanswered.
PingFails(s) ==
  /\ pc[s] = "loop"
  /\ pc' = [pc EXCEPT ![s] = "leaving"]
  /\ UNCHANGED <<pubVars, subs, chan, held, broken, last, count>>

\* Wrong: the channel is closed without taking the mutex.
UnsubscribeUnlocked(s) ==
  /\ pc[s] = "leaving"
  /\ subs' = subs \ {s}
  /\ pc' = [pc EXCEPT ![s] = "gone"]
  /\ UNCHANGED <<pubVars, chan, held, broken, last, count>>

\* The deferred unsubscribe: the subscriber is forgotten and its channel closed.
Unsubscribe(s) ==
  /\ pc[s] = "leaving"
  /\ Unlocked
  /\ subs' = subs \ {s}
  /\ pc' = [pc EXCEPT ![s] = "gone"]
  /\ UNCHANGED <<pubVars, chan, held, broken, last, count>>

\* The client closes the page or loses its network.
Disconnect(s) ==
  /\ pc[s] \notin {"none", "gone"}
  /\ broken' = broken \cup {s}
  /\ UNCHANGED <<pubVars, subs, chan, pc, held, last, count>>

-----------------------------------------------------------------------------

Publisher == Store \/ Lock \/ (\E s \in Session : Offer(s)) \/ Drain \/ Resend \/ Unlock

Handler(s) ==
  \/ Subscribe(s)
  \/ ReadState(s)
  \/ Take(s)
  \/ Send(s)
  \/ SendFails(s)
  \/ PingFails(s)
  \/ Unsubscribe(s)

Next ==
  \/ Publisher
  \/ \E s \in Session : Accept(s) \/ Handler(s) \/ Disconnect(s)

\* The publisher goroutine keeps running inside publish(); publishing again is
\* up to the cluster.
PublisherFairness ==
  /\ WF_vars(Lock) /\ WF_vars(\E s \in Session : Offer(s))
  /\ WF_vars(Drain) /\ WF_vars(Resend) /\ WF_vars(Unlock)

\* A handler keeps running: a write ends within streamWriteTimeout, one way or
\* the other, and a ping to a client that has gone fails.
HandlerFairness ==
  \A s \in Session :
    /\ WF_vars(Subscribe(s)) /\ WF_vars(ReadState(s)) /\ WF_vars(Take(s))
    /\ WF_vars(Send(s) \/ SendFails(s)) /\ WF_vars(Unsubscribe(s))
    /\ WF_vars(s \in broken /\ PingFails(s))

\* With clients as slow as they like: no handler is fair.
PublisherSpec == Init /\ [][Next]_vars /\ PublisherFairness

Spec == PublisherSpec /\ HandlerFairness

-----------------------------------------------------------------------------
(* Properties. *)

\* publish() has still to offer the stored State to this subscriber.
Awaited(s) == pub = "stored" \/ (pub # "idle" /\ s \in todo)

\* No stream misses the newest State: it is what the handler holds or sent last,
\* or it is in the channel, or publish() is still to come by.  This is why
\* handleStream subscribes before it reads the current State.
NewestOnItsWay ==
  \A s \in subs :
    pc[s] \in {"sending", "loop"} =>
      held[s] = state \/ chan[s] = state \/ Awaited(s)

\* A channel is closed only when no publish() under way will send on it, which
\* would panic and take the process down.
NoSendOnClosed == \A s \in todo : pc[s] # "gone"

\* The revisions a client sees go back at most once, from its first message to
\* its second and by no more than one State; from there on they only grow.
BackstepOnlyOnce ==
  [][\A s \in Session :
       count'[s] # count[s] =>
         \/ count[s] = 0
         \/ count[s] = 1 /\ last'[s] + 1 >= last[s]
         \/ count[s] > 1 /\ last'[s] > last[s]]_<<last, count>>

\* Once the cluster is quiet every open stream shows the newest State, and a
\* connection whose client has gone does not stay subscribed for ever.
StreamsSettle ==
  /\ <>[](\A s \in Session : pc[s] \in {"none", "leaving", "gone"} \/ last[s] = state)
  /\ \A s \in Session : s \in broken ~> s \notin subs

\* publish() returns, and however slow the clients it always has a step of its
\* own to take: the rebuild loop never waits for one of them, not even for a
\* handler that would in the end make room.
PublishNeverWaits ==
  /\ [](pub # "idle" => ENABLED Publisher)
  /\ pub = "stored" ~> pub = "idle"

=============================================================================
