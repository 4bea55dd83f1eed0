--------------------------- MODULE StreamsProofs ---------------------------
(***************************************************************************)
(* What holds of Streams for any set of connections and any number of      *)
(* revisions.  The theorems are about PublisherSpec, the specification     *)
(* that assumes nothing of the clients and the handlers; Spec implies it.  *)
(* Then what holds of StreamClient for any number of sockets and any cap   *)
(* of the backoff.                                                         *)
(***************************************************************************)
EXTENDS Streams, StreamClient, FiniteSetTheorems, TLAPS

-----------------------------------------------------------------------------
(* Types. *)

LEMMA TypeInit == Init => TypeOK
BY DEF Init, TypeOK, NoRev

LEMMA TypeNext == TypeOK /\ [Next]_vars => TypeOK'
<1> SUFFICES ASSUME TypeOK, [Next]_vars PROVE TypeOK'
  OBVIOUS
<1> USE DEF TypeOK, NoRev, pubVars, sessionVars
<1>1. CASE Store
  BY <1>1 DEF Store
<1>2. CASE Lock
  BY <1>2 DEF Lock
<1>3. ASSUME NEW s \in Session, Offer(s) PROVE TypeOK'
  BY <1>3 DEF Offer
<1>4. CASE Drain
  BY <1>4 DEF Drain
<1>5. CASE Resend
  BY <1>5 DEF Resend
<1>6. CASE Unlock
  BY <1>6 DEF Unlock
<1>7. ASSUME NEW s \in Session, Accept(s) PROVE TypeOK'
  BY <1>7 DEF Accept
<1>8. ASSUME NEW s \in Session, Subscribe(s) PROVE TypeOK'
  BY <1>8 DEF Subscribe, Unlocked
<1>9. ASSUME NEW s \in Session, ReadState(s) PROVE TypeOK'
  BY <1>9 DEF ReadState
<1>10. ASSUME NEW s \in Session, Take(s) PROVE TypeOK'
  BY <1>10 DEF Take
<1>11. ASSUME NEW s \in Session, Send(s) PROVE TypeOK'
  BY <1>11 DEF Send
<1>12. ASSUME NEW s \in Session, SendFails(s) PROVE TypeOK'
  BY <1>12 DEF SendFails
<1>13. ASSUME NEW s \in Session, PingFails(s) PROVE TypeOK'
  BY <1>13 DEF PingFails
<1>14. ASSUME NEW s \in Session, Unsubscribe(s) PROVE TypeOK'
  BY <1>14 DEF Unsubscribe, Unlocked
<1>15. ASSUME NEW s \in Session, Disconnect(s) PROVE TypeOK'
  BY <1>15 DEF Disconnect
<1>16. CASE UNCHANGED vars
  BY <1>16 DEF vars
<1> HIDE DEF TypeOK, NoRev, pubVars, sessionVars
<1>17. QED
  BY <1>1, <1>2, <1>3, <1>4, <1>5, <1>6, <1>7, <1>8, <1>9, <1>10, <1>11,
     <1>12, <1>13, <1>14, <1>15, <1>16 DEF Next, Publisher, Handler

\* Every variable of the streams keeps its type.
THEOREM TypeCorrect == PublisherSpec => []TypeOK
BY TypeInit, TypeNext, PTL DEF PublisherSpec

-----------------------------------------------------------------------------
(* The mutex. *)

\* While the mutex is free nobody is being served; whoever is being served is
\* subscribed; whoever is subscribed has not closed its channel.
LockInv ==
  /\ Unlocked => todo = {}
  /\ todo \subseteq subs
  /\ \A s \in subs : pc[s] \in {"subscribed", "sending", "loop", "leaving"}
  /\ \A s \in Session : pc[s] \in {"subscribed", "sending", "loop", "leaving"} => s \in subs

LEMMA LockInit == Init => LockInv
BY DEF Init, LockInv

LEMMA LockNext == TypeOK /\ LockInv /\ [Next]_vars => LockInv'
<1> SUFFICES ASSUME TypeOK, LockInv, [Next]_vars PROVE LockInv'
  OBVIOUS
<1> USE DEF TypeOK, LockInv, Unlocked, NoRev, pubVars, sessionVars
<1>1. CASE Store
  BY <1>1 DEF Store
<1>2. CASE Lock
  BY <1>2 DEF Lock
<1>3. ASSUME NEW s \in Session, Offer(s) PROVE LockInv'
  BY <1>3 DEF Offer
<1>4. CASE Drain
  BY <1>4 DEF Drain
<1>5. CASE Resend
  BY <1>5 DEF Resend
<1>6. CASE Unlock
  BY <1>6 DEF Unlock
<1>7. ASSUME NEW s \in Session, Accept(s) PROVE LockInv'
  BY <1>7 DEF Accept
<1>8. ASSUME NEW s \in Session, Subscribe(s) PROVE LockInv'
  BY <1>8 DEF Subscribe, Unlocked
<1>9. ASSUME NEW s \in Session, ReadState(s) PROVE LockInv'
  BY <1>9 DEF ReadState
<1>10. ASSUME NEW s \in Session, Take(s) PROVE LockInv'
  BY <1>10 DEF Take
<1>11. ASSUME NEW s \in Session, Send(s) PROVE LockInv'
  BY <1>11 DEF Send
<1>12. ASSUME NEW s \in Session, SendFails(s) PROVE LockInv'
  BY <1>12 DEF SendFails
<1>13. ASSUME NEW s \in Session, PingFails(s) PROVE LockInv'
  BY <1>13 DEF PingFails
<1>14. ASSUME NEW s \in Session, Unsubscribe(s) PROVE LockInv'
  BY <1>14 DEF Unsubscribe, Unlocked
<1>15. ASSUME NEW s \in Session, Disconnect(s) PROVE LockInv'
  BY <1>15 DEF Disconnect
<1>16. CASE UNCHANGED vars
  BY <1>16 DEF vars
<1> HIDE DEF TypeOK, LockInv, Unlocked, NoRev, pubVars, sessionVars
<1>17. QED
  BY <1>1, <1>2, <1>3, <1>4, <1>5, <1>6, <1>7, <1>8, <1>9, <1>10, <1>11,
     <1>12, <1>13, <1>14, <1>15, <1>16 DEF Next, Publisher, Handler

LEMMA LockCorrect == PublisherSpec => []LockInv
BY LockInit, LockNext, TypeCorrect, PTL DEF PublisherSpec

\* publish() never sends on a channel an unsubscribe has closed.
THEOREM NeverSendsOnClosed == PublisherSpec => []NoSendOnClosed
<1>1. TypeOK /\ LockInv => NoSendOnClosed
  BY DEF TypeOK, LockInv, NoSendOnClosed
<1>2. QED
  BY <1>1, TypeCorrect, LockCorrect, PTL

-----------------------------------------------------------------------------
(* What the channels hold. *)

\* A subscriber publish() is still to serve holds nothing or the State before
\* the stored one; every other one holds nothing or the stored State.  The
\* buffer publish() has just drained is empty when it sends again.
ChanInv ==
  /\ \A s \in subs : IF Awaited(s) THEN chan[s] = NoRev \/ chan[s] + 1 = state
                                    ELSE chan[s] = NoRev \/ chan[s] = state
  /\ pub = "resend" => chan[cur] = NoRev
  /\ pub # "idle" => state > 0

LEMMA ChanInit == Init => ChanInv
BY DEF Init, ChanInv

LEMMA ChanNext == TypeOK /\ LockInv /\ ChanInv /\ [Next]_vars => ChanInv'
<1> SUFFICES ASSUME TypeOK, LockInv, ChanInv, [Next]_vars PROVE ChanInv'
  OBVIOUS
<1> USE DEF TypeOK, LockInv, ChanInv, Unlocked, Awaited, NoRev, pubVars, sessionVars
<1>1. CASE Store
  BY <1>1 DEF Store
<1>2. CASE Lock
  BY <1>2 DEF Lock
<1>3. ASSUME NEW s \in Session, Offer(s) PROVE ChanInv'
  BY <1>3 DEF Offer
<1>4. CASE Drain
  BY <1>4 DEF Drain
<1>5. CASE Resend
  BY <1>5 DEF Resend
<1>6. CASE Unlock
  BY <1>6 DEF Unlock
<1>7. ASSUME NEW s \in Session, Accept(s) PROVE ChanInv'
  BY <1>7 DEF Accept
<1>8. ASSUME NEW s \in Session, Subscribe(s) PROVE ChanInv'
  BY <1>8 DEF Subscribe, Unlocked
<1>9. ASSUME NEW s \in Session, ReadState(s) PROVE ChanInv'
  BY <1>9 DEF ReadState
<1>10. ASSUME NEW s \in Session, Take(s) PROVE ChanInv'
  BY <1>10 DEF Take
<1>11. ASSUME NEW s \in Session, Send(s) PROVE ChanInv'
  BY <1>11 DEF Send
<1>12. ASSUME NEW s \in Session, SendFails(s) PROVE ChanInv'
  BY <1>12 DEF SendFails
<1>13. ASSUME NEW s \in Session, PingFails(s) PROVE ChanInv'
  BY <1>13 DEF PingFails
<1>14. ASSUME NEW s \in Session, Unsubscribe(s) PROVE ChanInv'
  BY <1>14 DEF Unsubscribe, Unlocked
<1>15. ASSUME NEW s \in Session, Disconnect(s) PROVE ChanInv'
  BY <1>15 DEF Disconnect
<1>16. CASE UNCHANGED vars
  BY <1>16 DEF vars
<1> HIDE DEF TypeOK, LockInv, ChanInv, Unlocked, Awaited, NoRev, pubVars, sessionVars
<1>17. QED
  BY <1>1, <1>2, <1>3, <1>4, <1>5, <1>6, <1>7, <1>8, <1>9, <1>10, <1>11,
     <1>12, <1>13, <1>14, <1>15, <1>16 DEF Next, Publisher, Handler

LEMMA ChanCorrect == PublisherSpec => []ChanInv
BY ChanInit, ChanNext, TypeCorrect, LockCorrect, PTL DEF PublisherSpec

LEMMA NewestNext == TypeOK /\ LockInv /\ ChanInv /\ NewestOnItsWay /\ [Next]_vars => NewestOnItsWay'
<1> SUFFICES ASSUME TypeOK, LockInv, ChanInv, NewestOnItsWay, [Next]_vars PROVE NewestOnItsWay'
  OBVIOUS
<1> USE DEF TypeOK, LockInv, ChanInv, NewestOnItsWay, Unlocked, Awaited, NoRev, pubVars, sessionVars
<1>1. CASE Store
  BY <1>1 DEF Store
<1>2. CASE Lock
  BY <1>2 DEF Lock
<1>3. ASSUME NEW s \in Session, Offer(s) PROVE NewestOnItsWay'
  BY <1>3 DEF Offer
<1>4. CASE Drain
  BY <1>4 DEF Drain
<1>5. CASE Resend
  BY <1>5 DEF Resend
<1>6. CASE Unlock
  BY <1>6 DEF Unlock
<1>7. ASSUME NEW s \in Session, Accept(s) PROVE NewestOnItsWay'
  BY <1>7 DEF Accept
<1>8. ASSUME NEW s \in Session, Subscribe(s) PROVE NewestOnItsWay'
  BY <1>8 DEF Subscribe, Unlocked
<1>9. ASSUME NEW s \in Session, ReadState(s) PROVE NewestOnItsWay'
  BY <1>9 DEF ReadState
<1>10. ASSUME NEW s \in Session, Take(s) PROVE NewestOnItsWay'
  BY <1>10 DEF Take
<1>11. ASSUME NEW s \in Session, Send(s) PROVE NewestOnItsWay'
  BY <1>11 DEF Send
<1>12. ASSUME NEW s \in Session, SendFails(s) PROVE NewestOnItsWay'
  BY <1>12 DEF SendFails
<1>13. ASSUME NEW s \in Session, PingFails(s) PROVE NewestOnItsWay'
  BY <1>13 DEF PingFails
<1>14. ASSUME NEW s \in Session, Unsubscribe(s) PROVE NewestOnItsWay'
  BY <1>14 DEF Unsubscribe, Unlocked
<1>15. ASSUME NEW s \in Session, Disconnect(s) PROVE NewestOnItsWay'
  BY <1>15 DEF Disconnect
<1>16. CASE UNCHANGED vars
  BY <1>16 DEF vars
<1> HIDE DEF TypeOK, LockInv, ChanInv, NewestOnItsWay, Unlocked, Awaited, NoRev, pubVars, sessionVars
<1>17. QED
  BY <1>1, <1>2, <1>3, <1>4, <1>5, <1>6, <1>7, <1>8, <1>9, <1>10, <1>11,
     <1>12, <1>13, <1>14, <1>15, <1>16 DEF Next, Publisher, Handler

\* No open stream misses the newest State, however publish(), the subscriptions
\* and the handlers interleave.
THEOREM NewestReachesAll == PublisherSpec => []NewestOnItsWay
<1>1. Init => NewestOnItsWay
  BY DEF Init, NewestOnItsWay
<1>2. QED
  BY <1>1, NewestNext, TypeCorrect, LockCorrect, ChanCorrect, PTL DEF PublisherSpec

-----------------------------------------------------------------------------
(* The order of the revisions a client sees. *)

\* The handler's latest revision came out of its channel, after an earlier message.
FromChannel(s) ==
  \/ pc[s] = "sending" /\ count[s] >= 1
  \/ pc[s] = "loop" /\ count[s] >= 2

\* What is in a channel, or will be put there, is newer than what came out of it
\* before, and at most one revision behind what the handler read itself.
OrderInv ==
  /\ \A s \in Session : pc[s] \in {"none", "accepted", "subscribed"} => count[s] = 0
  /\ \A s \in Session : pc[s] \in {"sending", "loop"} =>
       /\ held[s] <= state
       /\ chan[s] # NoRev => chan[s] + 1 >= held[s]
       /\ FromChannel(s) => /\ chan[s] # NoRev => chan[s] > held[s]
                            /\ Awaited(s) => held[s] < state
       /\ pc[s] = "loop" /\ count[s] >= 1 => last[s] = held[s]
       /\ pc[s] = "sending" /\ count[s] = 1 => held[s] + 1 >= last[s]
       /\ pc[s] = "sending" /\ count[s] > 1 => held[s] > last[s]

LEMMA OrderInit == Init => OrderInv
BY DEF Init, OrderInv

LEMMA OrderNext == TypeOK /\ LockInv /\ ChanInv /\ OrderInv /\ [Next]_vars => OrderInv'
<1> SUFFICES ASSUME TypeOK, LockInv, ChanInv, OrderInv, [Next]_vars PROVE OrderInv'
  OBVIOUS
<1> USE DEF TypeOK, LockInv, ChanInv, OrderInv, FromChannel, Unlocked, Awaited, NoRev, pubVars, sessionVars
<1>1. CASE Store
  BY <1>1 DEF Store
<1>2. CASE Lock
  BY <1>2 DEF Lock
<1>3. ASSUME NEW s \in Session, Offer(s) PROVE OrderInv'
  BY <1>3 DEF Offer
<1>4. CASE Drain
  BY <1>4 DEF Drain
<1>5. CASE Resend
  BY <1>5 DEF Resend
<1>6. CASE Unlock
  BY <1>6 DEF Unlock
<1>7. ASSUME NEW s \in Session, Accept(s) PROVE OrderInv'
  BY <1>7 DEF Accept
<1>8. ASSUME NEW s \in Session, Subscribe(s) PROVE OrderInv'
  BY <1>8 DEF Subscribe, Unlocked
<1>9. ASSUME NEW s \in Session, ReadState(s) PROVE OrderInv'
  BY <1>9 DEF ReadState
<1>10. ASSUME NEW s \in Session, Take(s) PROVE OrderInv'
  BY <1>10 DEF Take
<1>11. ASSUME NEW s \in Session, Send(s) PROVE OrderInv'
  BY <1>11 DEF Send
<1>12. ASSUME NEW s \in Session, SendFails(s) PROVE OrderInv'
  BY <1>12 DEF SendFails
<1>13. ASSUME NEW s \in Session, PingFails(s) PROVE OrderInv'
  BY <1>13 DEF PingFails
<1>14. ASSUME NEW s \in Session, Unsubscribe(s) PROVE OrderInv'
  BY <1>14 DEF Unsubscribe, Unlocked
<1>15. ASSUME NEW s \in Session, Disconnect(s) PROVE OrderInv'
  BY <1>15 DEF Disconnect
<1>16. CASE UNCHANGED vars
  BY <1>16 DEF vars
<1> HIDE DEF TypeOK, LockInv, ChanInv, OrderInv, FromChannel, Unlocked, Awaited, NoRev, pubVars, sessionVars
<1>17. QED
  BY <1>1, <1>2, <1>3, <1>4, <1>5, <1>6, <1>7, <1>8, <1>9, <1>10, <1>11,
     <1>12, <1>13, <1>14, <1>15, <1>16 DEF Next, Publisher, Handler

LEMMA OrderCorrect == PublisherSpec => []OrderInv
BY OrderInit, OrderNext, TypeCorrect, LockCorrect, ChanCorrect, PTL DEF PublisherSpec

\* Only a write counts as a message.
LEMMA OnlySendCounts ==
  ASSUME TypeOK, [Next]_vars, NEW s \in Session, count'[s] # count[s]
  PROVE  Send(s)
<1>1. CASE \E t \in Session : Send(t)
  BY <1>1 DEF Send, TypeOK
<1>2. CASE ~ \E t \in Session : Send(t)
  BY <1>2 DEF Next, Publisher, Handler, Store, Lock, Offer, Drain, Resend, Unlock,
     Accept, Subscribe, ReadState, Take, SendFails, PingFails, Unsubscribe,
     Disconnect, vars, sessionVars
<1>3. QED
  BY <1>1, <1>2

\* The revisions a client sees go back at most once, by at most one, between its
\* first two messages.
THEOREM BackstepAtMostOnce == PublisherSpec => BackstepOnlyOnce
<1>1. TypeOK /\ OrderInv /\ [Next]_vars =>
        [\A s \in Session :
           count'[s] # count[s] =>
             \/ count[s] = 0
             \/ count[s] = 1 /\ last'[s] + 1 >= last[s]
             \/ count[s] > 1 /\ last'[s] > last[s]]_<<last, count>>
  <2> SUFFICES ASSUME TypeOK, OrderInv, [Next]_vars,
                      NEW s \in Session, count'[s] # count[s]
               PROVE  \/ count[s] = 0
                      \/ count[s] = 1 /\ last'[s] + 1 >= last[s]
                      \/ count[s] > 1 /\ last'[s] > last[s]
    OBVIOUS
  <2>1. Send(s)
    BY OnlySendCounts
  <2>2. last'[s] = held[s] /\ pc[s] = "sending" /\ count[s] \in Nat
    BY <2>1 DEF Send, TypeOK
  <2>3. QED
    BY <2>2 DEF OrderInv
<1>2. QED
  BY <1>1, TypeCorrect, OrderCorrect, PTL DEF PublisherSpec, BackstepOnlyOnce

-----------------------------------------------------------------------------
(* At rest. *)

\* Once publish() has returned, an open connection whose handler waits with nothing
\* in its channel has sent the newest State, or there was none.
RestsOnNewest ==
  \A s \in Session : pub = "idle" /\ pc[s] = "loop" /\ chan[s] = NoRev => last[s] = state

\* Before the first message nothing was sent, and who waits without one found no State.
FirstInv ==
  \A s \in Session : count[s] = 0 => last[s] = NoRev /\ (pc[s] = "loop" => held[s] = NoRev)

\* Only a write ends that, and it counts.
LEMMA FirstNext == TypeOK /\ OrderInv /\ FirstInv /\ [Next]_vars => FirstInv'
<1> SUFFICES ASSUME TypeOK, OrderInv, FirstInv, [Next]_vars, NEW s \in Session, count'[s] = 0
             PROVE  last'[s] = NoRev /\ (pc'[s] = "loop" => held'[s] = NoRev)
  BY DEF FirstInv
<1> USE DEF pubVars, sessionVars
<1>1. CASE Publisher \/ UNCHANGED vars
  <2>1. UNCHANGED sessionVars
    BY <1>1 DEF Publisher, Store, Lock, Offer, Drain, Resend, Unlock, vars
  <2> QED BY <2>1 DEF FirstInv
<1>2. ASSUME NEW t \in Session, Send(t) PROVE last'[s] = NoRev /\ (pc'[s] = "loop" => held'[s] = NoRev)
  <2>1. t # s
    <3>1. count[t] \in Nat /\ count' = [count EXCEPT ![t] = @ + 1] /\ count \in [Session -> Nat]
      BY <1>2 DEF Send, TypeOK
    <3> QED BY <3>1
  <2> QED BY <1>2, <2>1 DEF Send, FirstInv, TypeOK
<1>3. ASSUME NEW t \in Session,
             Accept(t) \/ Subscribe(t) \/ SendFails(t) \/ PingFails(t) \/ Unsubscribe(t) \/ Disconnect(t)
      PROVE  last'[s] = NoRev /\ (pc'[s] = "loop" => held'[s] = NoRev)
  <2>1. UNCHANGED <<held, last, count>> /\ (pc'[s] = "loop" => pc[s] = "loop")
    BY <1>3 DEF Accept, Subscribe, SendFails, PingFails, Unsubscribe, Disconnect, TypeOK
  <2> QED BY <2>1 DEF FirstInv
<1>4. ASSUME NEW t \in Session, ReadState(t)
      PROVE  last'[s] = NoRev /\ (pc'[s] = "loop" => held'[s] = NoRev)
  BY <1>4 DEF ReadState, FirstInv, TypeOK
<1>5. ASSUME NEW t \in Session, Take(t)
      PROVE  last'[s] = NoRev /\ (pc'[s] = "loop" => held'[s] = NoRev)
  BY <1>5 DEF Take, FirstInv, TypeOK
<1> QED BY <1>1, <1>2, <1>3, <1>4, <1>5 DEF Next, Handler

\* For any number of connections, clients as slow as they like and any schedule of
\* publish(): a stream that waits for the next State has sent the newest, however
\* many were dropped from its channel (watcher.go:365-394, stream.go:45-110).  The
\* safety part of StreamsSettle.
THEOREM StreamRestsOnNewest == PublisherSpec => []RestsOnNewest
<1>1. Init => FirstInv
  BY DEF Init, FirstInv
<1>2. TypeOK /\ LockInv /\ OrderInv /\ NewestOnItsWay /\ FirstInv => RestsOnNewest
  <2> SUFFICES ASSUME TypeOK, LockInv, OrderInv, NewestOnItsWay, FirstInv,
                      NEW s \in Session, pub = "idle", pc[s] = "loop", chan[s] = NoRev
               PROVE  last[s] = state
    BY DEF RestsOnNewest
  <2>1. s \in subs /\ ~Awaited(s)
    BY DEF LockInv, Awaited
  <2>2. held[s] = state \/ state = NoRev
    BY <2>1 DEF NewestOnItsWay
  <2>3. held[s] <= state /\ held[s] \in Nat /\ count[s] \in Nat
    BY DEF OrderInv, TypeOK
  <2>4. held[s] = state
    BY <2>2, <2>3 DEF NoRev
  <2>5. CASE count[s] = 0
    BY <2>4, <2>5 DEF FirstInv
  <2>6. CASE count[s] # 0
    <3>1. count[s] >= 1
      BY <2>3, <2>6
    <3> QED BY <2>4, <3>1 DEF OrderInv
  <2> QED BY <2>5, <2>6
<1> QED BY <1>1, <1>2, FirstNext, TypeCorrect, LockCorrect, OrderCorrect, NewestReachesAll, PTL
        DEF PublisherSpec

-----------------------------------------------------------------------------
(* How long publish() holds the mutex. *)

\* The steps publish() has yet to take before it lets go of the mutex, at most:
\* three for each subscriber it has to serve, and the unlocking.
StepsLeft ==
  IF pub = "serving" THEN 3 * Cardinality(todo) + 1
  ELSE IF pub = "drain" THEN 3 * Cardinality(todo)
  ELSE IF pub = "resend" THEN 3 * Cardinality(todo) - 1
  ELSE 0

\* While the mutex is held only publish() moves this count, and always down; it is
\* never more than the subscribers there are account for.
PublishShortens ==
  /\ [](0 <= StepsLeft /\ StepsLeft <= 3 * Cardinality(subs) + 1)
  /\ [][~Unlocked => UNCHANGED pubVars \/ StepsLeft' < StepsLeft]_vars

\* Streams open one at a time.
LEMMA FiniteNext == TypeOK /\ LockInv /\ IsFiniteSet(subs) /\ [Next]_vars => IsFiniteSet(subs)'
<1> SUFFICES ASSUME IsFiniteSet(subs), [Next]_vars PROVE IsFiniteSet(subs')
  OBVIOUS
<1>1. subs' = subs \/ \E s \in Session : subs' = subs \cup {s} \/ subs' = subs \ {s}
  BY DEF Next, Publisher, Handler, Store, Lock, Offer, Drain, Resend, Unlock, Accept, Subscribe,
         ReadState, Take, Send, SendFails, PingFails, Unsubscribe, Disconnect, vars
<1> QED BY <1>1, FS_AddElement, FS_RemoveElement

\* A turn of the loop serves one of those it has to serve.
LEMMA ServingShortens ==
  ASSUME NEW S, IsFiniteSet(S), NEW s \in S
  PROVE  /\ Cardinality(S) \in Nat /\ Cardinality(S) >= 1
         /\ Cardinality(S \ {s}) = Cardinality(S) - 1
<1>1. Cardinality(S) \in Nat /\ Cardinality(S) # 0
  BY FS_CardinalityType, FS_EmptySet
<1> QED BY <1>1, FS_RemoveElement

\* For any number of connections and clients as slow as they like, also of those that
\* never take what is in their channel: once it has the mutex publish() lets go of
\* it within three steps for each subscriber and one, because every select in its
\* loop has a default (watcher.go:365-394).
\* The safety part of PublishNeverWaits.
THEOREM PublishIsBounded == PublisherSpec => PublishShortens
<1>1. Init => IsFiniteSet(subs)
  BY FS_EmptySet DEF Init
<1>2. ASSUME TypeOK, LockInv, IsFiniteSet(subs)
      PROVE  0 <= StepsLeft /\ StepsLeft <= 3 * Cardinality(subs) + 1
  <2>1. /\ IsFiniteSet(todo) /\ Cardinality(todo) \in Nat /\ Cardinality(subs) \in Nat
        /\ Cardinality(todo) <= Cardinality(subs)
    BY <1>2, FS_Subset, FS_CardinalityType DEF LockInv
  <2>2. pub = "resend" => Cardinality(todo) >= 1
    BY <1>2, <2>1, ServingShortens DEF TypeOK
  <2> QED BY <2>1, <2>2 DEF StepsLeft
<1>3. ASSUME TypeOK, LockInv, IsFiniteSet(subs), [Next]_vars, ~Unlocked
      PROVE  UNCHANGED pubVars \/ StepsLeft' < StepsLeft
  <2>1. IsFiniteSet(todo) /\ Cardinality(todo) \in Nat
    BY <1>3, FS_Subset, FS_CardinalityType DEF LockInv
  <2>2. pub \in {"serving", "drain", "resend"}
    BY <1>3 DEF Unlocked, TypeOK
  <2>3. ASSUME NEW s \in Session, Offer(s) PROVE StepsLeft' < StepsLeft
    <3>1. pub = "serving" /\ s \in todo
      BY <2>3 DEF Offer
    <3>2. CASE pub' = pub /\ todo' = todo \ {s}
      <4>1. Cardinality(todo') = Cardinality(todo) - 1
        BY <2>1, <3>1, <3>2, ServingShortens
      <4> QED BY <2>1, <3>1, <3>2, <4>1 DEF StepsLeft
    <3>3. CASE pub' = "drain" /\ todo' = todo
      BY <2>1, <3>1, <3>3 DEF StepsLeft
    <3> QED BY <2>3, <3>2, <3>3 DEF Offer
  <2>4. CASE Drain
    BY <2>1, <2>4 DEF Drain, StepsLeft
  <2>5. CASE Resend
    <3>1. pub = "resend" /\ pub' = "serving" /\ todo' = todo \ {cur} /\ cur \in todo
      BY <1>3, <2>5 DEF Resend, TypeOK
    <3>2. Cardinality(todo') = Cardinality(todo) - 1
      BY <2>1, <3>1, ServingShortens
    <3> QED BY <2>1, <3>1, <3>2 DEF StepsLeft
  <2>6. CASE Unlock
    BY <2>1, <2>6 DEF Unlock, StepsLeft
  <2>7. CASE Store \/ Lock
    BY <2>2, <2>7 DEF Store, Lock
  <2>8. CASE \E s \in Session : Accept(s) \/ Handler(s) \/ Disconnect(s)
    BY <2>8 DEF Handler, Accept, Subscribe, ReadState, Take, Send, SendFails, PingFails, Unsubscribe, Disconnect
  <2>9. CASE UNCHANGED vars
    BY <2>9 DEF vars
  <2> QED BY <1>3, <2>3, <2>4, <2>5, <2>6, <2>7, <2>8, <2>9 DEF Next, Publisher
<1> QED BY <1>1, <1>2, <1>3, FiniteNext, TypeCorrect, LockCorrect, PTL DEF PublisherSpec, PublishShortens

-----------------------------------------------------------------------------
(* The other end, StreamClient: unless reconnect is pressed during an attempt,    *)
(* `timer` and `socket` name all that is pending.                                *)

States == {"unused", "connecting", "open", "closing", "failing", "closed"}

\* A socket that still has an event to deliver.
Alive(i) == sock[i] \in {"connecting", "open", "closing", "failing"}

\* `socket` is the newest socket; none has been made after it.
NewestInv ==
  /\ socket = made /\ made # None
  /\ \A i \in Sockets : i > made => sock[i] = "unused"

\* At most one thing is pending, and a variable names it.
SingleInv ==
  ~rash => /\ timers = {} \/ timers = {timer}
           /\ \A i \in Sockets : Alive(i) => i = socket /\ timers = {}

\* What was called off stays so.
StopInv ==
  ~rash => /\ closed => sock[socket] \notin {"connecting", "open"}
           /\ giveUp => timers = {}

LiveInv == mine /\ status = "live" /\ ~closed => \E i \in Sockets : sock[i] \in {"open", "closing", "failing"}

ClientInv == ClientTypeOK /\ NewestInv /\ SingleInv /\ StopInv /\ LiveInv

LEMMA ClientInvInit == ClientInit => ClientInv
<1> SUFFICES ASSUME ClientInit PROVE ClientInv
  OBVIOUS
<1>1. 1 \in Sockets /\ MaxSockets \in Nat /\ MaxRetry \in Nat
  BY StreamClientAssumption DEF Sockets
<1>2. ClientTypeOK
  <2>1. 1 \in 0..MaxSockets /\ 0 \in 0..MaxRetry
    BY <1>1 DEF Sockets
  <2>2. sock \in [Sockets -> {"unused", "connecting", "open", "closing", "failing", "closed"}]
    BY DEF ClientInit
  <2> QED BY <1>1, <2>1, <2>2 DEF ClientInit, ClientTypeOK
<1>3. NewestInv
  BY <1>1 DEF ClientInit, NewestInv, None, Sockets
<1>4. SingleInv /\ StopInv /\ LiveInv
  BY <1>1 DEF ClientInit, SingleInv, StopInv, LiveInv, Alive
<1> QED BY <1>2, <1>3, <1>4 DEF ClientInv

\* close() on a socket changes that socket only, and leaves it without a
\* connection.
LEMMA ClosingOne ==
  ASSUME NEW s \in [Sockets -> States], NEW i \in Sockets
  PROVE  /\ Closing(s, i) \in [Sockets -> States]
         /\ \A j \in Sockets : j # i => Closing(s, i)[j] = s[j]
         /\ Closing(s, i)[i] \notin {"connecting", "open"}
         /\ s[i] \notin {"connecting", "open"} => Closing(s, i) = s
         /\ Closing(s, i)[i] \in {"unused", "closed"} => Closing(s, i) = s
<1>1. i # None
  BY DEF Sockets, None
<1>2. CASE s[i] = "connecting"
  BY <1>1, <1>2 DEF Closing, States
<1>3. CASE s[i] = "open"
  BY <1>1, <1>3 DEF Closing, States
<1>4. CASE s[i] \notin {"connecting", "open"}
  BY <1>1, <1>4 DEF Closing, States
<1> QED BY <1>2, <1>3, <1>4

\* connect() on a handle that is not closed makes the next socket.
LEMMA Connecting ==
  ASSUME ClientInv, NEW s \in [Sockets -> States], Connect(s), ~closed
  PROVE  /\ made + 1 \in Sockets
         /\ socket' = made + 1 /\ made' = made + 1
         /\ sock' \in [Sockets -> States]
         /\ sock'[made + 1] = "connecting"
         /\ \A j \in Sockets : j # made + 1 => sock'[j] = s[j]
<1>1. made \in Nat /\ made < MaxSockets /\ MaxSockets \in Nat
  BY StreamClientAssumption DEF ClientInv, ClientTypeOK, Connect
<1>2. made + 1 \in Sockets
  BY <1>1 DEF Sockets
<1> QED BY <1>2 DEF Connect, States

LEMMA ClientInvNext == ClientInv /\ [ClientNext]_clientVars => ClientInv'
<1> SUFFICES ASSUME ClientInv, [ClientNext]_clientVars PROVE ClientInv'
  OBVIOUS
<1> USE DEF Alive
<1>0. /\ sock \in [Sockets -> States] /\ socket \in Sockets /\ made \in Nat /\ made = socket
      /\ ClientTypeOK /\ NewestInv /\ SingleInv /\ StopInv /\ LiveInv
  BY StreamClientAssumption DEF ClientInv, ClientTypeOK, NewestInv, States, None, Sockets
<1>1. ASSUME NEW i \in Sockets, OnOpen(i) PROVE ClientInv'
  <2>1. sock' \in [Sockets -> States]
    BY <1>0, <1>1 DEF OnOpen, Report, States
  <2>2. ClientTypeOK'
    BY <1>0, <1>1, <2>1, StreamClientAssumption DEF OnOpen, Report, ClientTypeOK, States
  <2>3. NewestInv'
    BY <1>0, <1>1 DEF OnOpen, Report, NewestInv
  <2>4. SingleInv' /\ StopInv'
    BY <1>0, <1>1 DEF OnOpen, Report, SingleInv, StopInv
  <2>5. LiveInv'
    BY <1>0, <1>1 DEF OnOpen, Report, LiveInv
  <2> QED BY <2>2, <2>3, <2>4, <2>5 DEF ClientInv
<1>2. ASSUME NEW i \in Sockets, OnMessage(i) PROVE ClientInv'
  <2>1. ClientTypeOK' /\ NewestInv'
    BY <1>0, <1>2 DEF OnMessage, Report, ClientTypeOK, NewestInv
  <2>2. SingleInv' /\ StopInv' /\ LiveInv'
    BY <1>0, <1>2 DEF OnMessage, Report, SingleInv, StopInv, LiveInv
  <2> QED BY <2>1, <2>2 DEF ClientInv
<1>3. ASSUME NEW i \in Sockets, Lose(i) PROVE ClientInv'
  <2>1. ClientTypeOK'
    BY <1>0, <1>3 DEF Lose, ClientTypeOK, States
  <2>2. NewestInv'
    BY <1>0, <1>3 DEF Lose, NewestInv
  <2>3. SingleInv' /\ StopInv'
    BY <1>0, <1>3 DEF Lose, SingleInv, StopInv
  <2>4. LiveInv'
    BY <1>0, <1>3 DEF Lose, LiveInv
  <2> QED BY <2>1, <2>2, <2>3, <2>4 DEF ClientInv
<1>4. ASSUME NEW i \in Sockets, OnClose(i) PROVE ClientInv'
  <2> DEFINE gone == [sock EXCEPT ![i] = "closed"]
  <2>1. gone \in [Sockets -> States] /\ gone[i] = "closed" /\ \A j \in Sockets : j # i => gone[j] = sock[j]
    BY <1>0 DEF States
  <2>2. /\ sock' \in [Sockets -> States] /\ sock'[i] = "closed"
        /\ \A j \in Sockets : j \notin {i, socket} => sock'[j] = sock[j]
        /\ sock' # gone => sock'[socket] \in {"closing", "failing"} /\ Alive(socket)
    <3> HIDE DEF gone
    <3>1. CASE sock' = gone
      BY <2>1, <3>1
    <3>2. CASE sock' = Closing(gone, socket) /\ sock' # gone
      <4>1. socket # i
        BY <2>1, <3>2, <1>0, ClosingOne
      <4>2. gone[socket] = sock[socket]
        BY <2>1, <4>1, <1>0
      <4>3. gone[socket] \in {"connecting", "open"} /\ Alive(socket)
        BY <2>1, <3>2, <1>0, <4>2, ClosingOne
      <4>4. Closing(gone, socket)[socket] \in {"closing", "failing"}
        BY <2>1, <3>2, <1>0, ClosingOne DEF States
      <4> QED BY <2>1, <3>2, <4>1, <4>3, <4>4, <1>0, ClosingOne
    <3> QED BY <1>4, <3>1, <3>2 DEF OnClose, Report, gone
  <2>3. /\ UNCHANGED <<socket, made, closed, giveUp, graph, rash>>
        /\ \/ timers' = timers /\ timer' = timer
           \/ timers' = timers \cup {i} /\ timer' = i /\ ~closed /\ ~giveUp
        /\ closed \/ status' # "live"
        /\ status' \in {"live", "reconnecting", "snapshot"}
        /\ retry' \in 0..MaxRetry
    BY <1>0, <1>4, StreamClientAssumption DEF OnClose, ClientTypeOK, Report
  <2>8. mine' \in BOOLEAN
    <3>1. mine' = mine \/ mine' = TRUE
      BY <1>4 DEF OnClose, Report
    <3> QED BY <1>0, <3>1 DEF ClientTypeOK
  <2>4. ClientTypeOK'
    BY <1>0, <2>2, <2>3, <2>8 DEF ClientTypeOK, States
  <2>5. NewestInv'
    <3>1. i <= made
      BY <1>0, <1>4 DEF NewestInv, OnClose, Sockets
    <3> QED BY <1>0, <2>2, <2>3, <3>1 DEF NewestInv, Sockets
  <2>6. SingleInv' /\ StopInv'
    <3> SUFFICES ASSUME ~rash PROVE SingleInv' /\ StopInv'
      BY <2>3 DEF SingleInv, StopInv
    <3>1. i = socket /\ timers = {} /\ \A j \in Sockets : Alive(j) => j = i
      BY <1>0, <1>4 DEF SingleInv, OnClose
    <3>2. \A j \in Sockets : ~Alive(j)'
      BY <2>2, <3>1
    <3>3. SingleInv'
      BY <2>3, <3>1, <3>2 DEF SingleInv
    <3>4. StopInv'
      BY <1>0, <2>3, <3>1, <3>2 DEF StopInv
    <3> QED BY <3>3, <3>4
  <2>7. LiveInv'
    BY <2>3 DEF LiveInv
  <2> QED BY <2>4, <2>5, <2>6, <2>7 DEF ClientInv
<1>5. ASSUME NEW t \in Sockets, TimerFires(t) PROVE ClientInv'
  <2>1. t \in timers /\ timers' = timers \ {t} /\ Connect(sock)
        /\ UNCHANGED <<timer, retry, closed, giveUp, status, mine, graph, rash>>
    BY <1>5 DEF TimerFires
  <2>2. CASE closed
    <3>1. UNCHANGED <<sock, socket, made>>
      BY <2>1, <2>2 DEF Connect
    <3>2. ClientTypeOK' /\ NewestInv' /\ LiveInv'
      BY <1>0, <2>1, <3>1 DEF ClientTypeOK, NewestInv, LiveInv
    <3>3. SingleInv' /\ StopInv'
      BY <1>0, <2>1, <3>1 DEF SingleInv, StopInv
    <3> QED BY <3>2, <3>3 DEF ClientInv
  <2>3. CASE ~closed
    <3>1. /\ made + 1 \in Sockets /\ socket' = made + 1 /\ made' = made + 1
          /\ sock' \in [Sockets -> States] /\ sock'[made + 1] = "connecting"
          /\ \A j \in Sockets : j # made + 1 => sock'[j] = sock[j]
      BY <1>0, <2>1, <2>3, Connecting
    <3>2. ClientTypeOK'
      BY <1>0, <2>1, <3>1 DEF ClientTypeOK, States, Sockets
    <3>3. NewestInv'
      BY <1>0, <3>1 DEF NewestInv, None, Sockets
    <3>4. SingleInv'
      BY <1>0, <2>1, <3>1 DEF SingleInv
    <3>5. StopInv'
      BY <1>0, <2>1, <2>3, <3>1 DEF StopInv
    <3>6. LiveInv'
      <4>1. sock[made + 1] = "unused"
        BY <1>0, <3>1 DEF NewestInv
      <4> QED BY <1>0, <2>1, <3>1, <4>1 DEF LiveInv
    <3> QED BY <3>2, <3>3, <3>4, <3>5, <3>6 DEF ClientInv
  <2> QED BY <2>2, <2>3
<1>6. CASE Close
  <2>1. /\ sock' = Closing(sock, socket) /\ sock' \in [Sockets -> States]
        /\ \A j \in Sockets : j # socket => sock'[j] = sock[j]
        /\ sock'[socket] \notin {"connecting", "open"}
        /\ sock'[socket] \in {"unused", "closed"} => sock' = sock
        /\ sock[socket] \notin {"connecting", "open"} => sock' = sock
    BY <1>0, <1>6, ClosingOne DEF Close
  <2>2. closed' /\ timers' = timers \ {timer}
        /\ UNCHANGED <<socket, made, timer, retry, giveUp, status, mine, graph, rash>>
    BY <1>6 DEF Close
  <2>3. ClientTypeOK'
    BY <1>0, <2>1, <2>2 DEF ClientTypeOK, States
  <2>4. NewestInv'
    BY <1>0, <2>1, <2>2 DEF NewestInv, Sockets
  <2>5. SingleInv' /\ StopInv'
    BY <1>0, <2>1, <2>2 DEF SingleInv, StopInv
  <2>6. LiveInv'
    BY <2>2 DEF LiveInv
  <2> QED BY <2>3, <2>4, <2>5, <2>6 DEF ClientInv
<1>7. CASE Reconnect
  <2> DEFINE s == Closing(sock, socket)
  <2>1. /\ s \in [Sockets -> States]
        /\ \A j \in Sockets : j # socket => s[j] = sock[j]
        /\ sock[socket] \notin {"connecting", "open"} => s = sock
    BY <1>0, ClosingOne
  <2>2. ~closed /\ Connect(s) /\ timers' = timers \ {timer} /\ giveUp' = FALSE /\ retry' = 0
        /\ status' = "reconnecting" /\ mine' = TRUE /\ rash' = (rash \/ sock[socket] # "closed")
        /\ UNCHANGED <<timer, closed, graph>>
    BY <1>7 DEF Reconnect, Report, Shown
  <2> HIDE DEF s
  <2>3. /\ made + 1 \in Sockets /\ socket' = made + 1 /\ made' = made + 1
        /\ sock' \in [Sockets -> States] /\ sock'[made + 1] = "connecting"
        /\ \A j \in Sockets : j # made + 1 => sock'[j] = s[j]
    BY <1>0, <2>1, <2>2, Connecting
  <2>4. ClientTypeOK'
    <3>1. rash' \in BOOLEAN /\ giveUp' \in BOOLEAN
      BY <2>2
    <3>2. 0 \in 0..MaxRetry /\ made + 1 \in 0..MaxSockets
      BY <1>0, <2>3, StreamClientAssumption DEF Sockets
    <3> QED BY <1>0, <2>2, <2>3, <3>1, <3>2 DEF ClientTypeOK, States
  <2>5. NewestInv'
    BY <1>0, <2>1, <2>3 DEF NewestInv, None, Sockets
  <2>6. SingleInv'
    <3> SUFFICES ASSUME ~rash' PROVE SingleInv'
      BY DEF SingleInv
    <3>1. ~rash /\ sock[socket] = "closed"
      BY <1>0, <2>2 DEF ClientTypeOK
    <3>2. s = sock /\ \A j \in Sockets : ~Alive(j)
      BY <1>0, <2>1, <3>1 DEF SingleInv
    <3>3. timers' = {}
      BY <1>0, <2>2, <3>1 DEF SingleInv
    <3> QED BY <2>3, <3>2, <3>3 DEF SingleInv
  <2>7. StopInv' /\ LiveInv'
    BY <2>2 DEF StopInv, LiveInv
  <2> QED BY <2>4, <2>5, <2>6, <2>7 DEF ClientInv
<1>8. CASE KeepSnapshot
  <2>1. timers' = timers \ {timer} /\ giveUp' /\ status' = "snapshot" /\ mine' = TRUE
        /\ UNCHANGED <<sock, socket, made, timer, retry, closed, graph, rash>>
    BY <1>8 DEF KeepSnapshot, Report
  <2>2. ClientTypeOK' /\ NewestInv' /\ LiveInv'
    BY <1>0, <1>8, <2>1 DEF ClientTypeOK, NewestInv, LiveInv, KeepSnapshot
  <2>3. SingleInv' /\ StopInv'
    BY <1>0, <2>1 DEF SingleInv, StopInv
  <2> QED BY <2>2, <2>3 DEF ClientInv
<1>9. CASE Leaked
  BY <1>0, <1>9 DEF Leaked, ClientInv, ClientTypeOK, NewestInv, SingleInv, StopInv, LiveInv
<1>10. CASE UNCHANGED clientVars
  BY <1>0, <1>10 DEF clientVars, ClientInv, ClientTypeOK, NewestInv, SingleInv, StopInv, LiveInv
<1> QED BY <1>1, <1>2, <1>3, <1>4, <1>5, <1>6, <1>7, <1>8, <1>9, <1>10 DEF ClientNext

LEMMA ClientInvCorrect == ClientSpec => []ClientInv
  BY ClientInvInit, ClientInvNext, PTL DEF ClientSpec

\* Every variable of a handle keeps its type.
THEOREM ClientTypeCorrect == ClientSpec => []ClientTypeOK
<1>1. ClientInv => ClientTypeOK
  BY DEF ClientInv
<1> QED BY <1>1, ClientInvCorrect, PTL

\* For any number of sockets: one connection or one retry at a time unless reconnect
\* was pressed during an attempt; and whatever other handles report to the same badge
\* before and meanwhile, one that this handle made live has a connection of it, or
\* its close event, behind it (api.ts:489-528, App.tsx:113, 202-219).
THEOREM ConnectionShown == ClientSpec => []ConnectionIsAsShown
<1>1. ASSUME ClientInv PROVE ConnectionIsAsShown
  <2>1. ASSUME ~rash PROVE Cardinality(Busy) + Cardinality(timers) <= 1
    <3>1. Cardinality({}) = 0
      BY FS_EmptySet
    <3>2. Cardinality({socket}) = 1 /\ Cardinality({timer}) = 1 /\ IsFiniteSet({socket})
      BY FS_Singleton
    <3>3. CASE timers = {}
      <4>1. Busy \subseteq {socket}
        BY <1>1, <2>1 DEF ClientInv, SingleInv, Alive, Busy
      <4>2. Cardinality(Busy) <= 1 /\ Cardinality(Busy) \in Nat
        BY <4>1, <3>2, FS_Subset, FS_CardinalityType
      <4> QED BY <3>1, <3>3, <4>2
    <3>4. CASE timers = {timer}
      <4>1. Busy = {}
        BY <1>1, <2>1, <3>4 DEF ClientInv, SingleInv, Alive, Busy
      <4> QED BY <3>1, <3>2, <3>4, <4>1
    <3> QED BY <1>1, <2>1, <3>3, <3>4 DEF ClientInv, SingleInv
  <2>2. LiveInv
    BY <1>1 DEF ClientInv
  <2> QED BY <2>1, <2>2 DEF ConnectionIsAsShown, LiveInv
<1> QED BY <1>1, ClientInvCorrect, PTL

\* For any number of sockets: unless reconnect was pressed during an attempt, a
\* closed handle delivers no graph and one that keeps its snapshot makes no further
\* attempt (api.ts:531-548).
THEOREM StoppedIsStopped == ClientSpec => StoppedStaysStopped
<1> DEFINE Quiet == ~rash => /\ closed => graph' = graph
                             /\ giveUp /\ giveUp' => made' = made
<1>1. ASSUME ClientInv, [ClientNext]_clientVars PROVE [Quiet]_clientVars
  <2> SUFFICES ASSUME ClientNext, ~rash PROVE Quiet
    BY <1>1
  <2>1. ASSUME NEW i \in Sockets, OnOpen(i) \/ Lose(i) \/ OnClose(i) PROVE Quiet
    BY <2>1 DEF OnOpen, Report, Lose, OnClose
  <2>2. ASSUME NEW i \in Sockets, OnMessage(i) PROVE Quiet
    <3>1. ~closed
      BY <1>1, <2>2 DEF ClientInv, SingleInv, StopInv, Alive, OnMessage
    <3> QED BY <2>2, <3>1 DEF OnMessage
  <2>3. ASSUME NEW t \in Sockets, TimerFires(t) PROVE Quiet
    <3>1. ~giveUp
      BY <1>1, <2>3 DEF ClientInv, StopInv, TimerFires
    <3> QED BY <2>3, <3>1 DEF TimerFires
  <2>4. CASE Close \/ Reconnect \/ KeepSnapshot \/ Leaked
    BY <2>4 DEF Close, Reconnect, KeepSnapshot, Leaked
  <2> QED BY <2>1, <2>2, <2>3, <2>4 DEF ClientNext
<1> QED BY <1>1, ClientInvCorrect, PTL DEF ClientSpec, StoppedStaysStopped

-----------------------------------------------------------------------------
(* A handle that says it is reconnecting. *)

\* While the badge says reconnecting, a socket has an event to deliver or a timer is
\* to fire: there is always something that ends the wait.
NeverStranded ==
  status = "reconnecting" /\ ~closed => timers # {} \/ \E i \in Sockets : Alive(i)

\* The same of every handle that was not given up, and what giving up shows.
Waiting == ~closed /\ ~giveUp => timers # {} \/ \E i \in Sockets : Alive(i)
GivenUpIsShown == giveUp /\ ~closed => status # "reconnecting"

StrandInv == ClientInv /\ Waiting /\ GivenUpIsShown

\* Whatever was pressed and whatever was lost: what stops the waiting, a close event
\* or a timer, sets the next thing to wait for.
LEMMA StrandNext == StrandInv /\ [ClientNext]_clientVars => StrandInv'
<1> SUFFICES ASSUME StrandInv, [ClientNext]_clientVars PROVE Waiting' /\ GivenUpIsShown'
  BY ClientInvNext DEF StrandInv
<1>0. /\ ClientInv /\ Waiting /\ GivenUpIsShown /\ sock \in [Sockets -> States]
      /\ socket \in Sockets
  BY StreamClientAssumption DEF StrandInv, ClientInv, ClientTypeOK, NewestInv, States, None, Sockets
<1>1. ASSUME NEW i \in Sockets, OnOpen(i) \/ Lose(i) PROVE Waiting' /\ GivenUpIsShown'
  <2>1. sock'[i] \in {"open", "closing", "failing"} /\ UNCHANGED giveUp /\ UNCHANGED closed
        /\ (status' = "live" \/ status' = status)
    BY <1>0, <1>1 DEF OnOpen, Report, Lose
  <2> QED BY <1>0, <2>1 DEF Waiting, GivenUpIsShown, Alive
<1>2. ASSUME NEW i \in Sockets, OnMessage(i) PROVE Waiting' /\ GivenUpIsShown'
  BY <1>0, <1>2 DEF OnMessage, Report, Waiting, GivenUpIsShown, Alive
<1>3. ASSUME NEW i \in Sockets, OnClose(i) PROVE Waiting' /\ GivenUpIsShown'
  <2>1. /\ UNCHANGED closed /\ UNCHANGED giveUp
        /\ ~closed /\ ~giveUp => timers' = timers \cup {i}
        /\ ~closed /\ giveUp => status' = "snapshot"
    BY <1>3 DEF OnClose, Report
  <2> QED BY <2>1 DEF Waiting, GivenUpIsShown
<1>4. ASSUME NEW s, s = sock \/ s = Closing(sock, socket), Connect(s), ~closed, closed' = closed
      PROVE  \E i \in Sockets : Alive(i)'
  <2>1. s \in [Sockets -> States]
    BY <1>0, <1>4, ClosingOne
  <2>2. made + 1 \in Sockets /\ sock'[made + 1] = "connecting"
    BY <1>0, <1>4, <2>1, Connecting
  <2> QED BY <2>2 DEF Alive
<1>5. ASSUME NEW t \in Sockets, TimerFires(t) PROVE Waiting' /\ GivenUpIsShown'
  <2>1. Connect(sock) /\ UNCHANGED <<closed, giveUp, status>>
    BY <1>5 DEF TimerFires
  <2>2. ~closed => \E i \in Sockets : Alive(i)'
    BY <1>4, <2>1
  <2> QED BY <1>0, <2>1, <2>2 DEF Waiting, GivenUpIsShown
<1>6. CASE Close
  BY <1>6 DEF Close, Waiting, GivenUpIsShown
<1>7. CASE Reconnect
  <2>1. ~closed /\ closed' = closed /\ ~giveUp' /\ Connect(Closing(sock, socket))
    BY <1>7 DEF Reconnect, Report, Shown
  <2>2. \E i \in Sockets : Alive(i)'
    BY <1>4, <2>1
  <2> QED BY <2>1, <2>2 DEF Waiting, GivenUpIsShown
<1>8. CASE KeepSnapshot
  BY <1>8 DEF KeepSnapshot, Report, Waiting, GivenUpIsShown
<1>9. CASE Leaked
  BY <1>0, <1>9 DEF Leaked, Waiting, GivenUpIsShown, Alive
<1>10. CASE UNCHANGED clientVars
  BY <1>0, <1>10 DEF clientVars, Waiting, GivenUpIsShown, Alive
<1> QED BY <1>1, <1>2, <1>3, <1>5, <1>6, <1>7, <1>8, <1>9, <1>10 DEF ClientNext

\* Whatever buttons are pressed and whatever order the events come in, a handle that
\* says reconnecting is waiting for something: onclose sets a timer before anything
\* else can happen, and reconnect clears one only to make a socket (api.ts:504-541).
\* The safety part of TriesAgain: what it waits for comes, by fairness.
THEOREM ReconnectingIsTrue == ClientSpec => []NeverStranded
<1>1. ClientInit => Waiting /\ GivenUpIsShown
  <2>1. 1 \in Sockets
    BY StreamClientAssumption DEF Sockets
  <2> QED BY <2>1 DEF ClientInit, Waiting, GivenUpIsShown, Alive
<1>2. StrandInv => NeverStranded
  BY DEF StrandInv, Waiting, GivenUpIsShown, NeverStranded
<1> QED BY <1>1, <1>2, ClientInvInit, StrandNext, PTL DEF ClientSpec, StrandInv
=============================================================================
