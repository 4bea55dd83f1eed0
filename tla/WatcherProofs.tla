--------------------------- MODULE WatcherProofs ---------------------------
(***************************************************************************)
(* What holds of Watcher for any number of kinds, any versions, any        *)
(* debounce and any set of views on which a build fails.                   *)
(***************************************************************************)
EXTENDS Watcher, WellFoundedInduction, TLAPS

-----------------------------------------------------------------------------
(* Types. *)

LEMMA Numbers ==
  /\ NKinds \in Nat /\ NKinds >= 1
  /\ MaxVersion \in Nat /\ MaxVersion >= 1
  /\ Debounce \in Nat /\ MaxDebounce \in Nat /\ Debounce <= MaxDebounce
BY WatcherAssumption

LEMMA TypeInit == Init => TypeOK
<1> SUFFICES ASSUME Init PROVE TypeOK
  OBVIOUS
<1>1. Nothing \in Views /\ [k \in Kinds |-> 1] \in Views
  BY DEF Nothing, Views
<1>2. NoState \in [rev : Nat, view : Views]
  BY <1>1 DEF NoState
<1>3. [k \in Kinds |-> 0] \in [Kinds -> Nat]
  OBVIOUS
<1>4. /\ cluster \in Views /\ cache \in Views /\ view \in Views
      /\ calls \in [Kinds -> Nat] /\ state \in [rev : Nat, view : Views]
  BY <1>1, <1>2, <1>3 DEF Init
<1>5. /\ resyncs \subseteq Kinds /\ broken \subseteq Kinds
      /\ fault \in Kinds \cup {NoFault}
  BY DEF Init
<1>6. dirty \in BOOLEAN /\ cancelled \in BOOLEAN
  BY DEF Init
<1>7. pc \in {"sync", "reading", "loop", "stopped", "panicked"}
  BY DEF Init
<1>8. next \in Nat /\ rev \in Nat /\ left \in Int /\ timer \in Nat \cup {Unset}
  BY DEF Init
<1>9. QED
  BY <1>4, <1>5, <1>6, <1>7, <1>8 DEF TypeOK

LEMMA TypeNext == TypeOK /\ [Next]_vars => TypeOK'
<1> SUFFICES ASSUME TypeOK, [Next]_vars PROVE TypeOK'
  OBVIOUS
<1> USE DEF TypeOK, Views, Unset, informerVars, loopVars
<1>1. ASSUME NEW k \in Kinds, Change(k) PROVE TypeOK'
  BY <1>1 DEF Change
<1>2. ASSUME NEW k \in Kinds, Receive(k) PROVE TypeOK'
  BY <1>2 DEF Receive
<1>3. ASSUME NEW k \in Kinds, Resync(k) PROVE TypeOK'
  BY <1>3 DEF Resync
<1>4. ASSUME NEW k \in Kinds, HandleChange(k) PROVE TypeOK'
  BY <1>4 DEF HandleChange, MarkDirty
<1>5. ASSUME NEW k \in Kinds, HandleResync(k) PROVE TypeOK'
  BY <1>5 DEF HandleResync
<1>6. ASSUME NEW k \in Kinds, WatchError(k) PROVE TypeOK'
  BY <1>6 DEF WatchError
<1>7. CASE CachesSynced
  BY <1>7 DEF CachesSynced, StartRebuild
<1>8. CASE TakeDirty
  <2>1. timer' \in Nat /\ left' \in Int
    BY <1>8, Numbers DEF TakeDirty
  <2>2. QED
    BY <1>8, <2>1 DEF TakeDirty
<1>9. CASE Timeout
  BY <1>9 DEF Timeout, StartRebuild
<1>10. CASE ReadLister
  BY <1>10 DEF ReadLister
<1>11. CASE Publish
  BY <1>11 DEF Publish
<1>12. CASE KeepPrevious
  BY <1>12 DEF KeepPrevious
<1>13. CASE Stop
  BY <1>13 DEF Stop
<1>14. CASE Cancel
  BY <1>14 DEF Cancel
<1>15. CASE Tick
  BY <1>15 DEF Tick
<1>16. CASE UNCHANGED vars
  BY <1>16 DEF vars
<1>17. QED
  BY <1>1, <1>2, <1>3, <1>4, <1>5, <1>6, <1>7, <1>8, <1>9, <1>10, <1>11,
     <1>12, <1>13, <1>14, <1>15, <1>16 DEF Next, RunStep

\* Every variable of the watcher keeps its type.
THEOREM TypeCorrect == Spec => []TypeOK
BY TypeInit, TypeNext, PTL DEF Spec

-----------------------------------------------------------------------------
(* No change is lost. *)

\* A running rebuild has passed no lister that does not exist.
InRange == pc = "reading" => next >= 1 /\ next <= NKinds + 1

LossInv == InRange /\ NoLostChange

LEMMA LossInit == Init => LossInv
BY DEF Init, LossInv, InRange, NoLostChange

LEMMA LossNext == TypeOK /\ LossInv /\ [Next]_vars => LossInv'
<1> SUFFICES ASSUME TypeOK, LossInv, [Next]_vars PROVE LossInv'
  OBVIOUS
<1> USE DEF LossInv, InRange, NoLostChange, Covered, TypeOK, Views, Unset,
        informerVars, loopVars
<1>1. ASSUME NEW k \in Kinds, Change(k) PROVE LossInv'
  BY <1>1 DEF Change
<1>2. ASSUME NEW k \in Kinds, Receive(k) PROVE LossInv'
  BY <1>2 DEF Receive, Kinds
<1>3. ASSUME NEW k \in Kinds, Resync(k) PROVE LossInv'
  BY <1>3 DEF Resync
<1>4. ASSUME NEW k \in Kinds, HandleChange(k) PROVE LossInv'
  BY <1>4 DEF HandleChange, MarkDirty
<1>5. ASSUME NEW k \in Kinds, HandleResync(k) PROVE LossInv'
  BY <1>5 DEF HandleResync
<1>6. ASSUME NEW k \in Kinds, WatchError(k) PROVE LossInv'
  BY <1>6 DEF WatchError
<1>7. CASE CachesSynced
  BY <1>7, Numbers DEF CachesSynced, StartRebuild
<1>8. CASE TakeDirty
  BY <1>8, Numbers DEF TakeDirty
<1>9. CASE Timeout
  BY <1>9, Numbers DEF Timeout, StartRebuild
<1>10. CASE ReadLister
  <2>1. InRange'
    BY <1>10, Numbers DEF ReadLister, Kinds
  <2>2. ASSUME NEW j \in 1..(next' - 1) PROVE Covered(j)'
    <3>1. CASE j = next
      BY <1>10, <3>1 DEF ReadLister, Kinds
    <3>2. CASE j # next
      <4>1. j \in 1..(next - 1)
        BY <1>10, <3>2 DEF ReadLister, Kinds
      <4>2. Covered(j)
        BY <1>10, <4>1 DEF ReadLister
      <4>3. QED
        BY <1>10, <3>2, <4>2 DEF ReadLister
    <3>3. QED
      BY <3>1, <3>2
  <2>3. QED
    BY <1>10, <2>1, <2>2 DEF ReadLister
<1>11. CASE Publish
  BY <1>11, Numbers DEF Publish, Kinds
<1>12. CASE KeepPrevious
  BY <1>12, Numbers DEF KeepPrevious, Kinds
<1>13. CASE Stop
  BY <1>13 DEF Stop
<1>14. CASE Cancel
  BY <1>14 DEF Cancel
<1>15. CASE Tick
  BY <1>15 DEF Tick
<1>16. CASE UNCHANGED vars
  BY <1>16 DEF vars
<1> HIDE DEF LossInv, InRange, NoLostChange, Covered, TypeOK, Views, Unset,
             informerVars, loopVars
<1>17. QED
  BY <1>1, <1>2, <1>3, <1>4, <1>5, <1>6, <1>7, <1>8, <1>9, <1>10, <1>11,
     <1>12, <1>13, <1>14, <1>15, <1>16 DEF Next, RunStep

\* Between the informers, the one-slot channel, the timer and the rebuild that
\* reads one lister at a time, no change of any kind is ever lost.
THEOREM NothingLost == Spec => []NoLostChange
<1>1. LossInv => NoLostChange
  BY DEF LossInv
<1>2. QED
  BY <1>1, LossInit, LossNext, TypeCorrect, PTL DEF Spec

-----------------------------------------------------------------------------
(* The debounce. *)

\* The timer is armed in loop() only.
TimerInv == PostponementBounded /\ (timer # Unset => pc = "loop")

LEMMA TimerInit == Init => TimerInv
BY DEF Init, TimerInv, PostponementBounded

LEMMA TimerNext == TypeOK /\ TimerInv /\ [Next]_vars => TimerInv'
<1> SUFFICES ASSUME TypeOK, TimerInv, [Next]_vars PROVE TimerInv'
  OBVIOUS
<1> USE DEF TimerInv, PostponementBounded, TypeOK, Unset, informerVars, loopVars
<1>1. ASSUME NEW k \in Kinds, Change(k) PROVE TimerInv'
  BY <1>1 DEF Change
<1>2. ASSUME NEW k \in Kinds, Receive(k) PROVE TimerInv'
  BY <1>2 DEF Receive, Kinds
<1>3. ASSUME NEW k \in Kinds, Resync(k) PROVE TimerInv'
  BY <1>3 DEF Resync
<1>4. ASSUME NEW k \in Kinds, HandleChange(k) PROVE TimerInv'
  BY <1>4 DEF HandleChange, MarkDirty
<1>5. ASSUME NEW k \in Kinds, HandleResync(k) PROVE TimerInv'
  BY <1>5 DEF HandleResync
<1>6. ASSUME NEW k \in Kinds, WatchError(k) PROVE TimerInv'
  BY <1>6 DEF WatchError
<1>7. CASE CachesSynced
  BY <1>7 DEF CachesSynced, StartRebuild
<1>8. CASE TakeDirty
  BY <1>8, Numbers DEF TakeDirty
<1>9. CASE Timeout
  BY <1>9 DEF Timeout, StartRebuild
<1>10. CASE ReadLister
  BY <1>10 DEF ReadLister, Kinds
<1>11. CASE Publish
  BY <1>11 DEF Publish
<1>12. CASE KeepPrevious
  BY <1>12 DEF KeepPrevious
<1>13. CASE Stop
  BY <1>13 DEF Stop
<1>14. CASE Cancel
  BY <1>14 DEF Cancel
<1>15. CASE Tick
  BY <1>15 DEF Tick
<1>16. CASE UNCHANGED vars
  BY <1>16 DEF vars
<1> HIDE DEF TimerInv, PostponementBounded, TypeOK, Unset, informerVars, loopVars
<1>17. QED
  BY <1>1, <1>2, <1>3, <1>4, <1>5, <1>6, <1>7, <1>8, <1>9, <1>10, <1>11,
     <1>12, <1>13, <1>14, <1>15, <1>16 DEF Next, RunStep

\* However often the debounce is renewed, the timer fires within the deadline.
THEOREM PostponementIsBounded == Spec => []PostponementBounded
<1>1. TimerInv => PostponementBounded
  BY DEF TimerInv
<1>2. QED
  BY <1>1, TimerInit, TimerNext, TypeCorrect, PTL DEF Spec

-----------------------------------------------------------------------------
(* The published State follows the cluster. *)

\* The published view is at most what a later rebuild can read, and the rebuild
\* under way has read at least that much.
OrderInv ==
  /\ \A k \in Kinds : state.view[k] <= cache[k] /\ cache[k] <= cluster[k]
  /\ pc \in {"reading", "loop"} => \A k \in Kinds : cache[k] >= 1
  /\ rev >= state.rev
  /\ pc = "reading" =>
       /\ rev > state.rev
       /\ \A k \in 1..(next - 1) :
            k \in Kinds /\ state.view[k] <= view[k] /\ view[k] <= cache[k] /\ view[k] >= 1

LEMMA OrderInit == Init => OrderInv
BY DEF Init, OrderInv, NoState, Nothing

LEMMA OrderNext == TypeOK /\ OrderInv /\ [Next]_vars => OrderInv'
<1> SUFFICES ASSUME TypeOK, OrderInv, [Next]_vars PROVE OrderInv'
  OBVIOUS
<1> USE DEF OrderInv, TypeOK, Views, informerVars, loopVars
<1>1. ASSUME NEW k \in Kinds, Change(k) PROVE OrderInv'
  BY <1>1 DEF Change
<1>2. ASSUME NEW k \in Kinds, Receive(k) PROVE OrderInv'
  <2>1. \A j \in Kinds : cache'[j] >= cache[j] /\ cache'[j] <= cluster[j]
    BY <1>2 DEF Receive
  <2>2. \A j \in Kinds : state.view[j] \in Nat /\ view[j] \in Nat /\ cache[j] \in Nat
                        /\ cache'[j] \in Nat
    BY <1>2 DEF Receive
  <2>3. UNCHANGED <<cluster, loopVars>>
    BY <1>2 DEF Receive
  <2>4. QED
    BY <2>1, <2>2, <2>3
<1>3. ASSUME NEW k \in Kinds, Resync(k) PROVE OrderInv'
  BY <1>3 DEF Resync
<1>4. ASSUME NEW k \in Kinds, HandleChange(k) PROVE OrderInv'
  BY <1>4 DEF HandleChange, MarkDirty
<1>5. ASSUME NEW k \in Kinds, HandleResync(k) PROVE OrderInv'
  BY <1>5 DEF HandleResync
<1>6. ASSUME NEW k \in Kinds, WatchError(k) PROVE OrderInv'
  BY <1>6 DEF WatchError
<1>7. CASE CachesSynced
  BY <1>7 DEF CachesSynced, StartRebuild, Synced
<1>8. CASE TakeDirty
  BY <1>8 DEF TakeDirty
<1>9. CASE Timeout
  BY <1>9 DEF Timeout, StartRebuild
<1>10. CASE ReadLister
  <2>1. next \in Kinds /\ cache[next] >= 1 /\ state.view[next] <= cache[next]
    BY <1>10 DEF ReadLister
  <2>2. view' = [view EXCEPT ![next] = cache[next]] /\ next' = next + 1
    BY <1>10 DEF ReadLister
  <2>3. ASSUME NEW k \in 1..(next' - 1)
        PROVE  /\ k \in Kinds /\ state.view[k] <= view'[k]
               /\ view'[k] <= cache[k] /\ view'[k] >= 1
    <3>1. CASE k = next
      BY <2>1, <2>2, <3>1
    <3>2. CASE k # next
      <4>1. k \in 1..(next - 1)
        BY <2>1, <2>2, <3>2 DEF Kinds
      <4>2. QED
        BY <1>10, <2>2, <3>2, <4>1 DEF ReadLister
    <3>3. QED
      BY <3>1, <3>2
  <2>4. QED
    BY <1>10, <2>3 DEF ReadLister
<1>11. CASE Publish
  <2>1. state'.view = view /\ state'.rev = rev /\ pc' = "loop"
    BY <1>11 DEF Publish
  <2>2. \A k \in Kinds : view[k] <= cache[k]
    BY <1>11, Numbers DEF Publish, Kinds
  <2>3. QED
    BY <1>11, <2>1, <2>2 DEF Publish
<1>12. CASE KeepPrevious
  BY <1>12 DEF KeepPrevious
<1>13. CASE Stop
  BY <1>13 DEF Stop
<1>14. CASE Cancel
  BY <1>14 DEF Cancel
<1>15. CASE Tick
  BY <1>15 DEF Tick
<1>16. CASE UNCHANGED vars
  BY <1>16 DEF vars
<1> HIDE DEF OrderInv, TypeOK, Views, informerVars, loopVars
<1>17. QED
  BY <1>1, <1>2, <1>3, <1>4, <1>5, <1>6, <1>7, <1>8, <1>9, <1>10, <1>11,
     <1>12, <1>13, <1>14, <1>15, <1>16 DEF Next, RunStep

LEMMA OrderCorrect == Spec => []OrderInv
BY OrderInit, OrderNext, TypeCorrect, PTL DEF Spec

\* What a published State replaces is older, kind by kind, and has a smaller
\* revision; a failed build publishes nothing.
LEMMA PublishMovesForward ==
  ASSUME TypeOK, OrderInv, Publish
  PROVE  /\ state' = [rev |-> rev, view |-> view]
         /\ rev > state.rev
         /\ \A k \in Kinds : /\ state.view[k] <= view[k]
                             /\ view[k] <= cluster[k]
                             /\ view[k] >= 1
         /\ cluster' = cluster /\ cancelled' = cancelled
<1>1. pc = "reading" /\ next = NKinds + 1 /\ state' = [rev |-> rev, view |-> view]
  BY DEF Publish
<1>2. \A k \in Kinds : k \in 1..(next - 1)
  BY <1>1, Numbers DEF Kinds
<1>3. \A k \in Kinds : state.view[k] <= view[k] /\ view[k] <= cache[k] /\ view[k] >= 1
  BY <1>1, <1>2 DEF OrderInv
<1>4. \A k \in Kinds : cache[k] <= cluster[k] /\ cache[k] \in Nat /\ cluster[k] \in Nat /\ view[k] \in Nat
  BY DEF OrderInv, TypeOK, Views
<1>5. QED
  BY <1>1, <1>3, <1>4 DEF OrderInv, Publish, informerVars

\* Only a successful build changes the published State.
LEMMA OnlyPublish ==
  ASSUME [Next]_vars, ~Publish
  PROVE  state' = state
BY DEF Next, RunStep, Change, Receive, Resync, HandleChange, HandleResync,
   WatchError, CachesSynced, StartRebuild, TakeDirty, Timeout, ReadLister,
   KeepPrevious, Stop, Cancel, Tick, vars, loopVars

\* A published State is never older than the one it replaces.
THEOREM MovesForward == Spec => StateMovesForward
<1>1. TypeOK /\ OrderInv /\ [Next]_vars =>
        [/\ state'.rev > state.rev
         /\ \A k \in Kinds : state'.view[k] >= state.view[k]]_state
  <2> SUFFICES ASSUME TypeOK, OrderInv, [Next]_vars, Publish
               PROVE  /\ state'.rev > state.rev
                      /\ \A k \in Kinds : state'.view[k] >= state.view[k]
    BY OnlyPublish
  <2>1. QED
    BY PublishMovesForward DEF TypeOK, Views
<1>2. QED
  BY <1>1, TypeCorrect, OrderCorrect, PTL DEF Spec, StateMovesForward

-----------------------------------------------------------------------------
(* The watcher implements LiveView, liveness apart. *)

\* Every behaviour of the watcher is one LiveView allows: a change of the cluster
\* is Evolve, a successful rebuild is Show, the cancelled context is Halt.
THEOREM WatcherImplementsLiveView == Spec => ImplementsLiveViewSafety
<1>1. Init => View!LiveViewInit
  BY DEF Init, View!LiveViewInit, NoState, Nothing
<1>2. TypeOK /\ OrderInv /\ [Next]_vars =>
        [View!LiveViewNext]_<<cluster, state.view, ~cancelled>>
  <2> SUFFICES ASSUME TypeOK, OrderInv, [Next]_vars
               PROVE  \/ View!LiveViewNext
                      \/ UNCHANGED <<cluster, state.view, ~cancelled>>
    OBVIOUS
  <2>1. CASE Publish
    <3>1. state'.view = view /\ UNCHANGED <<cluster, cancelled>>
      BY <2>1, PublishMovesForward
    <3>2. view \in [Kinds -> Nat \ {0}]
      BY <2>1, PublishMovesForward DEF TypeOK, Views
    <3>3. View!Show
      BY <2>1, <3>1, <3>2, PublishMovesForward DEF View!Show
    <3>4. QED
      BY <3>3 DEF View!LiveViewNext
  <2>2. CASE Cancel
    BY <2>2 DEF Cancel, informerVars, loopVars, View!LiveViewNext, View!Halt
  <2>3. ASSUME NEW k \in Kinds, Change(k) PROVE View!LiveViewNext
    BY <2>3 DEF Change, loopVars, View!LiveViewNext, View!Evolve
  <2>4. CASE UNCHANGED vars
    BY <2>4 DEF vars, informerVars, loopVars
  <2>5. CASE /\ Next /\ ~Publish /\ ~Cancel
             /\ \A k \in Kinds : ~Change(k)
    <3>1. state' = state
      BY <2>5, OnlyPublish
    <3>2. cluster' = cluster /\ cancelled' = cancelled
      BY <2>5 DEF Next, RunStep, Receive, Resync, HandleChange, HandleResync,
         WatchError, CachesSynced, StartRebuild, TakeDirty, Timeout, ReadLister,
         KeepPrevious, Stop, Tick, informerVars
    <3>3. QED
      BY <3>1, <3>2
  <2>6. QED
    BY <2>1, <2>2, <2>3, <2>4, <2>5
<1>3. QED
  BY <1>1, <1>2, TypeCorrect, OrderCorrect, PTL
  DEF Spec, ImplementsLiveViewSafety, View!LiveViewSafety

-----------------------------------------------------------------------------
(* At rest. *)

\* Informers, handlers and loop() have nothing left to do until something changes.
AtRest ==
  /\ pc = "loop" /\ timer = Unset /\ ~dirty
  /\ cache = cluster /\ \A k \in Kinds : calls[k] = 0

\* What is published is the cluster, under the newest revision, unless Build returns
\* an error on that very view; then an older State stays.
RestsOnTheCluster ==
  AtRest => \/ state = [rev |-> rev, view |-> cluster]
            \/ cluster \in Unbuildable /\ state.rev > 0

\* loop() is entered with a State, and what is published is the last rebuild that
\* could be built.
BuiltInv ==
  /\ state = NoState \/ state.rev > 0
  /\ pc = "loop" => /\ state # NoState
                    /\ state = [rev |-> rev, view |-> view] \/ view \in Unbuildable

LEMMA BuiltInit == Init => BuiltInv
BY DEF Init, BuiltInv

LEMMA BuiltNext == TypeOK /\ OrderInv /\ BuiltInv /\ [Next]_vars => BuiltInv'
<1> SUFFICES ASSUME TypeOK, OrderInv, BuiltInv, [Next]_vars PROVE BuiltInv'
  OBVIOUS
<1>1. CASE Publish
  <2>1. state' = [rev |-> rev, view |-> view] /\ rev > state.rev /\ UNCHANGED <<rev, view>>
    BY <1>1, PublishMovesForward DEF Publish
  <2>2. state'.rev > 0 /\ state' # NoState
    BY <2>1 DEF TypeOK, NoState
  <2> QED BY <2>1, <2>2 DEF BuiltInv
<1>2. CASE KeepPrevious
  BY <1>2 DEF KeepPrevious, BuiltInv
<1>3. CASE CachesSynced \/ Timeout \/ ReadLister
  BY <1>3 DEF CachesSynced, Timeout, ReadLister, StartRebuild, BuiltInv
<1>4. CASE Stop
  BY <1>4 DEF Stop, BuiltInv
<1>5. CASE TakeDirty \/ Cancel \/ Tick
  BY <1>5 DEF TakeDirty, Cancel, Tick, loopVars, BuiltInv
<1>6. ASSUME NEW k \in Kinds,
             Change(k) \/ Receive(k) \/ Resync(k) \/ HandleChange(k) \/ HandleResync(k) \/ WatchError(k)
      PROVE  BuiltInv'
  BY <1>6 DEF Change, Receive, Resync, HandleChange, HandleResync, WatchError, loopVars, BuiltInv
<1>7. CASE UNCHANGED vars
  BY <1>7 DEF vars, loopVars, BuiltInv
<1> QED BY <1>1, <1>2, <1>3, <1>4, <1>5, <1>6, <1>7 DEF Next, RunStep

\* For any kinds, debounce and failing builds and any history of cluster, watches and
\* handlers: a watcher with nothing left to do has published the cluster as it is
\* (watcher.go:293-449).  The safety part of catching up in LiveView.
THEOREM WatcherRestsOnTheCluster == Spec => []RestsOnTheCluster
<1>1. TypeOK /\ LossInv /\ BuiltInv => RestsOnTheCluster
  <2> SUFFICES ASSUME TypeOK, LossInv, BuiltInv, AtRest
               PROVE  \/ state = [rev |-> rev, view |-> cluster]
                      \/ cluster \in Unbuildable /\ state.rev > 0
    BY DEF RestsOnTheCluster
  <2>1. \A k \in Kinds : view[k] = cluster[k]
    BY DEF LossInv, NoLostChange, Covered, AtRest, TypeOK
  <2>2. view = cluster
    BY <2>1 DEF TypeOK, Views
  <2> QED BY <2>2 DEF BuiltInv, AtRest
<1> QED BY <1>1, BuiltInit, BuiltNext, LossInit, LossNext, TypeCorrect, OrderCorrect, PTL DEF Spec

-----------------------------------------------------------------------------
(* Rebuilds are paid for. *)

LEMMA Least ==
  ASSUME NEW T \in SUBSET Nat, T # {}
  PROVE  \E m \in T : \A k \in T : m <= k
<1> DEFINE R == {ss \in Nat \X Nat : ss[1] < ss[2]}
<1>1. IsWellFoundedOn(R, Nat)
  BY NatLessThanWellFounded DEF OpToRel
<1> HIDE DEF R
<1>2. PICK m \in T : \A k \in T : ~ (<<k, m>> \in R)
  BY <1>1, WFMin
<1>3. \A k \in T : ~ (k < m)
  BY <1>2 DEF R
<1> QED BY <1>3

\* s has the sums of f up to each kind.
SumsUp(s, f) ==
  /\ s \in [0..NKinds -> Int]
  /\ s[0] = 0
  /\ \A k \in Kinds : s[k] = s[k - 1] + f[k]

\* By the first kind up to which nothing does.
LEMMA SomethingSumsUp ==
  ASSUME NEW f \in [Kinds -> Int]
  PROVE  \E s : SumsUp(s, f)
<1> DEFINE Is(s, n) == /\ s \in [0..n -> Int] /\ s[0] = 0
                       /\ \A k \in 1..n : s[k] = s[k - 1] + f[k]
           Bad == {n \in Nat : n <= NKinds /\ ~\E s : Is(s, n)}
<1>1. SUFFICES ASSUME Bad # {} PROVE FALSE
  <2>1. \E s : Is(s, NKinds)
    BY <1>1, Numbers
  <2> QED BY <2>1 DEF SumsUp, Kinds
<1>2. PICK n \in Bad : \A k \in Bad : n <= k
  <2> HIDE DEF Bad
  <2> QED BY <1>1, Least DEF Bad
<1>3. CASE n = 0
  <2>1. Is([k \in 0..0 |-> 0], 0)
    OBVIOUS
  <2> HIDE DEF Is
  <2> QED BY <1>2, <1>3, <2>1
<1>4. CASE n # 0
  <2>1. n \in Nat /\ n <= NKinds /\ n - 1 \in Nat /\ n - 1 <= NKinds /\ n - 1 \notin Bad
    <3> HIDE DEF Is
    <3> QED BY <1>2, <1>4, Numbers
  <2>2. PICK s : Is(s, n - 1)
    <3> HIDE DEF Is
    <3> QED BY <2>1
  <2> DEFINE t == [k \in 0..n |-> IF k = n THEN s[n - 1] + f[n] ELSE s[k]]
  <2>3. n \in Kinds /\ f[n] \in Int /\ s[n - 1] \in Int
    BY <2>1, <2>2, <1>4 DEF Kinds
  <2>4. t \in [0..n -> Int] /\ t[0] = 0
    BY <2>1, <2>2, <2>3, <1>4
  <2>5. \A k \in 1..n : t[k] = t[k - 1] + f[k]
    <3> TAKE k \in 1..n
    <3>1. k - 1 \in 0..(n - 1) /\ k - 1 # n /\ t[k - 1] = s[k - 1]
      BY <2>1
    <3>2. CASE k = n
      BY <3>1, <3>2, <2>1
    <3>3. CASE k # n
      <4>1. k \in 1..(n - 1) /\ t[k] = s[k]
        BY <2>1, <3>3
      <4> QED BY <4>1, <3>1, <2>2
    <3> QED BY <3>2, <3>3
  <2>6. Is(t, n)
    BY <2>4, <2>5
  <2> HIDE DEF Is
  <2> QED BY <1>2, <2>6
<1> QED BY <1>3, <1>4

LEMMA TotalSumsUp ==
  ASSUME NEW f \in [Kinds -> Int]
  PROVE  \E s : SumsUp(s, f) /\ Total(f) = s[NKinds]
<1> DEFINE Is(s) == s = [k \in 0..NKinds |-> IF k = 0 THEN 0 ELSE s[k - 1] + f[k]]
           sum == CHOOSE s : Is(s)
<1>1. Total(f) = sum[NKinds]
  BY DEF Total
<1>2. PICK s : SumsUp(s, f)
  BY SomethingSumsUp
<1>3. Is(s)
  <2>1. s = [k \in 0..NKinds |-> s[k]]
    BY <1>2 DEF SumsUp
  <2>2. \A k \in 0..NKinds : s[k] = IF k = 0 THEN 0 ELSE s[k - 1] + f[k]
    BY <1>2, Numbers DEF SumsUp, Kinds
  <2> QED BY <2>1, <2>2
<1>4. Is(sum)
  BY <1>3
<1> HIDE DEF sum
<1>5. \A k \in 0..NKinds : sum[k] = IF k = 0 THEN 0 ELSE sum[k - 1] + f[k]
  BY <1>4
<1> DEFINE Bad == {k \in Nat : k <= NKinds /\ sum[k] # s[k]}
<1>6. ASSUME Bad # {} PROVE FALSE
  <2>1. PICK k \in Bad : \A j \in Bad : k <= j
    <3> HIDE DEF Bad
    <3> QED BY <1>6, Least DEF Bad
  <2>2. k # 0 /\ k \in Kinds /\ k - 1 \in Nat /\ k - 1 <= NKinds
    BY <2>1, <1>2, <1>5, Numbers DEF SumsUp, Kinds
  <2>3. sum[k - 1] = s[k - 1]
    BY <2>1, <2>2
  <2> QED BY <2>1, <2>2, <2>3, <1>2, <1>5 DEF SumsUp
<1>7. sum[NKinds] = s[NKinds]
  BY <1>6, Numbers
<1> QED BY <1>1, <1>2, <1>7

\* The total grows at least by what one value grows, if none falls.
LEMMA TotalGrows ==
  ASSUME NEW f \in [Kinds -> Int], NEW g \in [Kinds -> Int], \A k \in Kinds : f[k] <= g[k],
         NEW x \in Kinds, NEW d \in Nat, f[x] + d <= g[x]
  PROVE  Total(f) \in Int /\ Total(g) \in Int /\ Total(f) + d <= Total(g)
<1>1. PICK s : SumsUp(s, f) /\ Total(f) = s[NKinds]
  BY TotalSumsUp
<1>2. PICK t : SumsUp(t, g) /\ Total(g) = t[NKinds]
  BY TotalSumsUp
<1> DEFINE Grows(k) == s[k] + (IF x <= k THEN d ELSE 0) <= t[k]
           Bad == {k \in Nat : k <= NKinds /\ ~Grows(k)}
<1>3. x \in Nat /\ x >= 1 /\ x <= NKinds
  BY Numbers DEF Kinds
<1>4. ASSUME Bad # {} PROVE FALSE
  <2>1. PICK k \in Bad : \A j \in Bad : k <= j
    <3>1. Bad \in SUBSET Nat
      OBVIOUS
    <3> HIDE DEF Bad
    <3> QED BY <1>4, <3>1, Least
  <2>2. Grows(0)
    BY <1>1, <1>2, <1>3 DEF SumsUp
  <2>3. k \in Kinds /\ k - 1 \in Nat /\ k - 1 <= NKinds /\ k - 1 \in 0..NKinds /\ ~Grows(k)
    BY <2>1, <2>2, Numbers DEF Kinds
  <2>4. Grows(k - 1)
    <3> HIDE DEF Grows
    <3> QED BY <2>1, <2>3
  <2>5. s[k] = s[k - 1] + f[k] /\ t[k] = t[k - 1] + g[k]
    BY <1>1, <1>2, <2>3 DEF SumsUp
  <2>6. s[k - 1] \in Int /\ t[k - 1] \in Int /\ f[k] \in Int /\ g[k] \in Int /\ f[k] <= g[k] /\ k \in Nat
    BY <1>1, <1>2, <2>3 DEF SumsUp, Kinds
  <2>7. CASE x = k
    BY <2>3, <2>4, <2>5, <2>6, <2>7, <1>3
  <2>8. CASE x # k
    BY <2>3, <2>4, <2>5, <2>6, <2>8, <1>3
  <2> QED BY <2>7, <2>8
<1>5. Grows(NKinds) /\ s[NKinds] \in Int /\ t[NKinds] \in Int
  <2>1. Grows(NKinds)
    <3> HIDE DEF Grows
    <3> QED BY <1>4, Numbers
  <2> QED BY <2>1, <1>1, <1>2, Numbers DEF SumsUp
<1> QED BY <1>1, <1>2, <1>3, <1>5

\* What was received and has been passed on by a handler call, per kind.
Delivered == [k \in Kinds |-> cache[k] - calls[k]]

\* A rebuild, a token and an armed timer each have a delivered change of their own,
\* but for the first rebuild.
PaidInv ==
  rev + (IF pc = "sync" THEN 1 ELSE 0) + (IF dirty THEN 1 ELSE 0) + (IF timer = Unset THEN 0 ELSE 1)
    <= 1 + Total(Delivered)

LEMMA PaidInit == Init => PaidInv
<1> SUFFICES ASSUME Init PROVE PaidInv
  OBVIOUS
<1> DEFINE f == Delivered
<1>1. f \in [Kinds -> Int] /\ \A k \in Kinds : f[k] = 0
  BY DEF Init, Delivered, Nothing
<1> HIDE DEF f
<1>2. PICK s : SumsUp(s, f) /\ Total(f) = s[NKinds]
  BY <1>1, TotalSumsUp
<1> DEFINE Bad == {k \in Nat : k <= NKinds /\ s[k] # 0}
<1>3. ASSUME Bad # {} PROVE FALSE
  <2>1. PICK k \in Bad : \A j \in Bad : k <= j
    <3> HIDE DEF Bad
    <3> QED BY <1>3, Least DEF Bad
  <2>2. k \in Kinds /\ k - 1 \in Nat /\ k - 1 <= NKinds
    BY <2>1, <1>2, Numbers DEF SumsUp, Kinds
  <2>3. s[k - 1] = 0
    BY <2>1, <2>2
  <2> QED BY <2>1, <2>2, <2>3, <1>1, <1>2 DEF SumsUp
<1>4. Total(Delivered) = 0
  BY <1>2, <1>3, Numbers DEF f
<1> QED BY <1>4 DEF Init, PaidInv

LEMMA DeliveredIsTyped == TypeOK => Delivered \in [Kinds -> Int]
BY DEF TypeOK, Views, Delivered

\* A step that only changes the loop keeps what was delivered.
LEMMA PaidNext == TypeOK /\ PaidInv /\ [Next]_vars => PaidInv'
<1> SUFFICES ASSUME TypeOK, PaidInv, [Next]_vars PROVE PaidInv'
  OBVIOUS
<1> DEFINE f == Delivered
           g == Delivered'
           Due == rev + (IF pc = "sync" THEN 1 ELSE 0) + (IF dirty THEN 1 ELSE 0)
                   + (IF timer = Unset THEN 0 ELSE 1)
<1>1. TypeOK'
  BY TypeNext
<1>2. f \in [Kinds -> Int] /\ g \in [Kinds -> Int]
  BY <1>1, DeliveredIsTyped DEF Delivered, TypeOK, Views
<1>3. \A k \in Kinds : f[k] = cache[k] - calls[k] /\ g[k] = cache'[k] - calls'[k]
  BY DEF Delivered
<1>4. Due \in Nat /\ Due' \in Nat /\ Due <= 1 + Total(f)
  <2>1. rev \in Nat /\ rev' \in Nat
    BY <1>1 DEF TypeOK
  <2>2. Due <= 1 + Total(f)
    BY DEF PaidInv
  <2>3. \A i \in Nat, b, c, d \in BOOLEAN :
          i + (IF b THEN 1 ELSE 0) + (IF c THEN 1 ELSE 0) + (IF d THEN 0 ELSE 1) \in Nat
    OBVIOUS
  <2>4. dirty \in BOOLEAN /\ dirty' \in BOOLEAN
    BY <1>1 DEF TypeOK
  <2>5. Due \in Nat
    BY <2>1, <2>3, <2>4
  <2>6. Due' \in Nat
    BY <2>1, <2>3, <2>4
  <2> QED BY <2>2, <2>5, <2>6
<1> SUFFICES Due' <= 1 + Total(g)
  BY DEF PaidInv
<1>5. ASSUME UNCHANGED <<cache, calls>>, Due' <= Due PROVE Due' <= 1 + Total(g)
  <2>1. g = f
    BY <1>5 DEF Delivered
  <2>2. Total(f) \in Int
    <3>1. 1 \in Kinds /\ f[1] + 0 <= f[1] /\ \A k \in Kinds : f[k] <= f[k]
      BY <1>2, Numbers DEF Kinds
    <3> HIDE DEF f
    <3> QED BY <1>2, <3>1, TotalGrows
  <2> HIDE DEF f, g, Due
  <2> QED BY <1>4, <1>5, <2>1, <2>2
<1>6. ASSUME NEW k \in Kinds, Receive(k) PROVE Due' <= 1 + Total(g)
  <2>1. UNCHANGED <<rev, pc, dirty, timer>>
    BY <1>6 DEF Receive, loopVars
  <2>2. \A j \in Kinds : f[j] <= g[j]
    BY <1>3, <1>6 DEF Receive, TypeOK, Views
  <2> HIDE DEF f, g
  <2>3. Total(f) \in Int /\ Total(g) \in Int /\ Total(f) + 0 <= Total(g)
    BY <1>2, <2>2, TotalGrows
  <2>4. Due' = Due
    BY <2>1
  <2> HIDE DEF Due
  <2> QED BY <1>4, <2>3, <2>4
<1>7. ASSUME NEW k \in Kinds, HandleChange(k) PROVE Due' <= 1 + Total(g)
  <2>1. UNCHANGED <<rev, pc, timer>> /\ dirty' = TRUE
    BY <1>7 DEF HandleChange, loopVars, MarkDirty
  <2>2. (\A j \in Kinds : f[j] <= g[j]) /\ f[k] + 1 <= g[k]
    BY <1>3, <1>7 DEF HandleChange, informerVars, TypeOK, Views
  <2> HIDE DEF f, g
  <2>3. Total(f) \in Int /\ Total(g) \in Int /\ Total(f) + 1 <= Total(g)
    BY <1>2, <2>2, TotalGrows
  <2>4. Due' <= Due + 1
    BY <2>1 DEF TypeOK
  <2> HIDE DEF Due
  <2> QED BY <1>4, <2>3, <2>4
<1>8. ASSUME NEW k \in Kinds, Change(k) \/ Resync(k) \/ HandleResync(k) \/ WatchError(k)
      PROVE  UNCHANGED <<cache, calls>> /\ Due' <= Due
  BY <1>8 DEF Change, Resync, HandleResync, WatchError, loopVars, TypeOK
<1>9. CASE RunStep \/ Cancel \/ Tick
  <2>1. UNCHANGED <<cache, calls>>
    BY <1>9 DEF RunStep, CachesSynced, TakeDirty, Timeout, ReadLister, Publish, KeepPrevious, Stop,
       Cancel, Tick, informerVars
  <2>2. Due' <= Due
    <3>1. CASE CachesSynced
      BY <3>1 DEF CachesSynced, StartRebuild, TypeOK
    <3>2. CASE TakeDirty
      BY <3>2 DEF TakeDirty, TypeOK
    <3>3. CASE Timeout
      BY <3>3 DEF Timeout, StartRebuild, TypeOK, Unset
    <3>4. CASE ReadLister \/ Publish \/ KeepPrevious
      BY <3>4 DEF ReadLister, Publish, KeepPrevious, TypeOK
    <3>5. CASE Stop \/ Cancel
      BY <3>5 DEF Stop, Cancel, loopVars, TypeOK
    <3>6. CASE Tick
      BY <3>6 DEF Tick, TypeOK
    <3> QED BY <1>9, <3>1, <3>2, <3>3, <3>4, <3>5, <3>6 DEF RunStep
  <2> QED BY <2>1, <2>2, <1>5
<1>10. CASE UNCHANGED vars
  BY <1>5, <1>10, <1>4 DEF vars, informerVars, loopVars
<1> HIDE DEF f, g, Due
<1> QED BY <1>5, <1>6, <1>7, <1>8, <1>9, <1>10 DEF Next

\* For any number of kinds and changes, and however often objects are resynced, the
\* watches fail or the debounce is renewed: no rebuild without a change.
THEOREM EveryRebuildIsPaidFor == Spec => []RebuildsArePaidFor
<1>1. TypeOK /\ PaidInv => RebuildsArePaidFor
  <2> SUFFICES ASSUME TypeOK, PaidInv PROVE RebuildsArePaidFor
    OBVIOUS
  <2>1. \A k \in Kinds : cache[k] \in Nat /\ calls[k] \in Nat /\ Delivered[k] = cache[k] - calls[k]
    BY DEF TypeOK, Views, Delivered
  <2>2. cache \in [Kinds -> Int] /\ Delivered \in [Kinds -> Int]
    BY <2>1, DeliveredIsTyped DEF TypeOK, Views
  <2>3. \A k \in Kinds : Delivered[k] <= cache[k]
    BY <2>1
  <2>4. 1 \in Kinds /\ Delivered[1] + 0 <= cache[1]
    BY <2>1, <2>3, Numbers DEF Kinds
  <2>5. Total(Delivered) \in Int /\ Total(cache) \in Int /\ Total(Delivered) + 0 <= Total(cache)
    BY <2>2, <2>3, <2>4, TotalGrows
  <2> QED BY <2>5 DEF TypeOK, PaidInv, RebuildsArePaidFor
<1> QED BY <1>1, PaidInit, PaidNext, TypeCorrect, PTL DEF Spec

=============================================================================
