------------------------------ MODULE Watcher ------------------------------
(***************************************************************************)
(* pkg/cluster/watcher.go: the informers, the debounce loop and the full   *)
(* rebuild that turns informer caches into the published State.            *)
(*                                                                         *)
(* What a kind of object contains is abstracted to a version that grows    *)
(* with every change of any object of the kind.  Kinds are numbered in the *)
(* order rebuild() reads their listers: namespaces, deployments, ...,      *)
(* pods, network policies, application network policies.                   *)
(*                                                                         *)
(* Four kinds of goroutine interleave here: the reflectors filling the     *)
(* caches, the informers' listener goroutines calling the handlers, the    *)
(* goroutine running Run, and whoever cancels the context.                 *)
(***************************************************************************)
EXTENDS Integers, FiniteSets

CONSTANTS
  NKinds,      \* how many kinds of object rebuild() reads
  MaxVersion,  \* bound: a kind changes at most MaxVersion - 1 times
  Debounce,    \* Watcher.debounce, in ticks
  MaxDebounce, \* maxDebounce, in ticks
  Unbuildable  \* the views on which Builder.Build returns an error

Kinds == 1..NKinds
Views == [Kinds -> Nat]

ASSUME WatcherAssumption ==
  /\ NKinds \in Nat \ {0}
  /\ MaxVersion \in Nat \ {0}
  /\ Debounce \in Nat
  /\ MaxDebounce \in Nat
  /\ Debounce <= MaxDebounce
  /\ Unbuildable \subseteq Views

Unset == -1                      \* the nil *time.Timer of loop()
MaxLate == 2                     \* bound: the ticks a fired timer goes unnoticed
NoFault == 0
Nothing == [k \in Kinds |-> 0]
NoState == [rev |-> 0, view |-> Nothing]   \* the nil *State

VARIABLES
  cluster,    \* the API server: the current version of each kind
  cache,      \* the informers' stores; 0 until the first list has arrived
  calls,      \* handler calls outstanding for a changed object, per kind
  resyncs,    \* kinds with a handler call outstanding for an unchanged object
  broken,     \* kinds whose last list or watch failed
  fault,      \* Watcher.fault: the kind that failed first, or NoFault
  dirty,      \* the token in Watcher.dirty, a channel of capacity one
  pc,         \* where the goroutine of Run is
  next,       \* the lister rebuild() reads next
  view,       \* what the rebuild under way, or else the last one, has read
  rev,        \* Watcher.rev
  state,      \* Watcher.state
  timer,      \* ticks until loop()'s timer fires, or Unset
  left,       \* ticks until loop()'s deadline
  cancelled   \* the context given to Run is done

informerVars == <<cluster, cache, calls, resyncs, broken, fault>>
loopVars == <<pc, next, view, rev, state, timer, left>>
vars == <<informerVars, dirty, loopVars, cancelled>>

TypeOK ==
  /\ cluster \in Views
  /\ cache \in Views
  /\ calls \in [Kinds -> Nat]
  /\ resyncs \subseteq Kinds
  /\ broken \subseteq Kinds
  /\ fault \in Kinds \cup {NoFault}
  /\ dirty \in BOOLEAN
  /\ pc \in {"sync", "reading", "loop", "stopped", "panicked"}
  /\ next \in Nat
  /\ view \in Views
  /\ rev \in Nat
  /\ state \in [rev : Nat, view : Views]
  /\ timer \in Nat \cup {Unset}
  /\ left \in Int
  /\ cancelled \in BOOLEAN

Init ==
  /\ cluster = [k \in Kinds |-> 1]
  /\ cache = Nothing
  /\ calls = [k \in Kinds |-> 0]
  /\ resyncs = {}
  /\ broken = {}
  /\ fault = NoFault
  /\ dirty = FALSE
  /\ pc = "sync"
  /\ next = 1
  /\ view = Nothing
  /\ rev = 0
  /\ state = NoState
  /\ timer = Unset
  /\ left = 0
  /\ cancelled = FALSE

-----------------------------------------------------------------------------
(* The API server and the reflectors, which client-go provides. *)

\* Somebody changes an object of kind k.
Change(k) ==
  /\ cluster[k] < MaxVersion
  /\ cluster' = [cluster EXCEPT ![k] = @ + 1]
  /\ UNCHANGED <<cache, calls, resyncs, broken, fault, dirty, loopVars, cancelled>>

\* A list or a watch event reaches the store, and the handler is due a call.
\* A list after a failed watch may jump over several versions.
Receive(k) ==
  /\ ~cancelled
  /\ \E v \in (cache[k] + 1)..cluster[k] : cache' = [cache EXCEPT ![k] = v]
  /\ calls' = [calls EXCEPT ![k] = @ + 1]
  /\ broken' = broken \ {k}
  /\ UNCHANGED <<cluster, resyncs, fault, dirty, loopVars, cancelled>>

\* The resync period passes, or a list finds nothing new: the handler is due a
\* call whose old and new objects have the same resourceVersion.
Resync(k) ==
  /\ ~cancelled
  /\ cache[k] # 0
  /\ resyncs' = resyncs \cup {k}
  /\ broken' = IF cache[k] = cluster[k] THEN broken \ {k} ELSE broken
  /\ UNCHANGED <<cluster, cache, calls, fault, dirty, loopVars, cancelled>>

-----------------------------------------------------------------------------
(* The handlers. *)

\* The send in markDirty never blocks: a token already there is enough.
MarkDirty == dirty' = TRUE

\* AddFunc, DeleteFunc, or UpdateFunc with two resourceVersions.
HandleChange(k) ==
  /\ calls[k] > 0
  /\ calls' = [calls EXCEPT ![k] = @ - 1]
  /\ MarkDirty
  /\ UNCHANGED <<cluster, cache, resyncs, broken, fault, loopVars, cancelled>>

\* Wrong: UpdateFunc without its early return.
HandleResyncMarking(k) ==
  /\ k \in resyncs
  /\ resyncs' = resyncs \ {k}
  /\ MarkDirty
  /\ UNCHANGED <<cluster, cache, calls, broken, fault, loopVars, cancelled>>

\* UpdateFunc with one resourceVersion returns early.
HandleResync(k) ==
  /\ k \in resyncs
  /\ resyncs' = resyncs \ {k}
  /\ UNCHANGED <<cluster, cache, calls, broken, fault, dirty, loopVars, cancelled>>

\* The watch error handler: the first fault is kept.
WatchError(k) ==
  /\ ~cancelled
  /\ k \notin broken
  /\ broken' = broken \cup {k}
  /\ fault' = IF fault = NoFault THEN k ELSE fault
  /\ UNCHANGED <<cluster, cache, calls, resyncs, dirty, loopVars, cancelled>>

-----------------------------------------------------------------------------
(* Run, loop and rebuild. *)

Synced == \A k \in Kinds : cache[k] # 0

\* Wrong: the revision is not advanced.
StartRebuildSameRev ==
  /\ pc' = "reading"
  /\ next' = 1
  /\ UNCHANGED <<rev, view, state>>

\* rebuild() takes its revision before it reads anything.
StartRebuild ==
  /\ pc' = "reading"
  /\ next' = 1
  /\ rev' = rev + 1
  /\ UNCHANGED <<view, state>>

\* Wrong: the first rebuild does not wait for the caches.
CachesUnsynced ==
  /\ pc = "sync"
  /\ ~cancelled
  /\ StartRebuild
  /\ UNCHANGED <<informerVars, dirty, timer, left, cancelled>>

\* WaitForCacheSync returns, the context is still live, the first rebuild starts.
CachesSynced ==
  /\ pc = "sync"
  /\ Synced
  /\ ~cancelled
  /\ StartRebuild
  /\ UNCHANGED <<informerVars, dirty, timer, left, cancelled>>

\* Wrong: a renewed timer ignores the deadline.
TakeDirtyNoDeadline ==
  /\ pc = "loop"
  /\ dirty
  /\ dirty' = FALSE
  /\ timer' = Debounce
  /\ left' = IF timer = Unset THEN MaxDebounce ELSE left
  /\ UNCHANGED <<informerVars, pc, next, view, rev, state, cancelled>>

\* Wrong: a wait that is past the deadline is not set to zero.
TakeDirtyNegativeWait ==
  /\ pc = "loop"
  /\ dirty
  /\ dirty' = FALSE
  /\ timer' = IF timer # Unset /\ left < Debounce THEN left ELSE Debounce
  /\ left' = IF timer = Unset THEN MaxDebounce ELSE left
  /\ UNCHANGED <<informerVars, pc, next, view, rev, state, cancelled>>

\* The `<-w.dirty` case of loop(): the deadline is set by the first token of a
\* batch, and every later one postpones the timer no further than it.
TakeDirty ==
  /\ pc = "loop"
  /\ dirty
  /\ dirty' = FALSE
  /\ \/ /\ timer = Unset
        /\ timer' = Debounce
        /\ left' = MaxDebounce
     \/ /\ timer # Unset
        /\ timer' = IF left < 0 THEN 0 ELSE IF left < Debounce THEN left ELSE Debounce
        /\ left' = left
  /\ UNCHANGED <<informerVars, pc, next, view, rev, state, cancelled>>

\* The `<-timeout` case of loop().
Timeout ==
  /\ pc = "loop"
  /\ timer = 0
  /\ timer' = Unset
  /\ StartRebuild
  /\ UNCHANGED <<informerVars, dirty, left, cancelled>>

\* rebuild() lists one informer's store; the others may move before their turn.
ReadLister ==
  /\ pc = "reading"
  /\ next \in Kinds
  /\ view' = [view EXCEPT ![next] = cache[next]]
  /\ next' = next + 1
  /\ UNCHANGED <<informerVars, dirty, pc, rev, state, timer, left, cancelled>>

\* Wrong: what became dirty during the rebuild is taken to be in it.
PublishClearingDirty ==
  /\ pc = "reading"
  /\ next = NKinds + 1
  /\ view \notin Unbuildable
  /\ state' = [rev |-> rev, view |-> view]
  /\ pc' = "loop"
  /\ dirty' = FALSE
  /\ UNCHANGED <<informerVars, next, view, rev, timer, left, cancelled>>

\* Build succeeded: the new State replaces the old one.
Publish ==
  /\ pc = "reading"
  /\ next = NKinds + 1
  /\ view \notin Unbuildable
  /\ state' = [rev |-> rev, view |-> view]
  /\ pc' = "loop"
  /\ UNCHANGED <<informerVars, dirty, next, view, rev, timer, left, cancelled>>

\* Wrong: a failed rebuild also drops the token of the next one.
KeepPreviousClearingDirty ==
  /\ pc = "reading"
  /\ next = NKinds + 1
  /\ view \in Unbuildable
  /\ pc' = IF state = NoState THEN "panicked" ELSE "loop"
  /\ dirty' = FALSE
  /\ UNCHANGED <<informerVars, next, view, rev, state, timer, left, cancelled>>

\* Wrong: a failed build is published as an empty State.
PublishNothing ==
  /\ pc = "reading"
  /\ next = NKinds + 1
  /\ view \in Unbuildable
  /\ state' = [rev |-> rev, view |-> Nothing]
  /\ pc' = "loop"
  /\ UNCHANGED <<informerVars, dirty, next, view, rev, timer, left, cancelled>>

\* Build failed: the previous State stays.  After the first rebuild Run reads the
\* counts of a State that does not exist.
KeepPrevious ==
  /\ pc = "reading"
  /\ next = NKinds + 1
  /\ view \in Unbuildable
  /\ pc' = IF state = NoState THEN "panicked" ELSE "loop"
  /\ UNCHANGED <<informerVars, dirty, next, view, rev, state, timer, left, cancelled>>

\* Wrong: the wait for the caches does not watch the context.
StopInLoop ==
  /\ cancelled
  /\ pc = "loop"
  /\ pc' = "stopped"
  /\ timer' = Unset
  /\ UNCHANGED <<informerVars, dirty, next, view, rev, state, left, cancelled>>

\* The context is done while Run waits for the caches or for its select.
Stop ==
  /\ cancelled
  /\ pc \in {"sync", "loop"}
  /\ pc' = "stopped"
  /\ timer' = Unset
  /\ UNCHANGED <<informerVars, dirty, next, view, rev, state, left, cancelled>>

Cancel ==
  /\ ~cancelled
  /\ cancelled' = TRUE
  /\ UNCHANGED <<informerVars, dirty, loopVars>>

\* Time passes while loop() waits, or is due to run and has not run yet: the
\* deadline can be past before a ready case is taken.
Tick ==
  /\ pc = "loop"
  /\ ~cancelled
  /\ timer # Unset
  /\ left > -MaxLate
  /\ timer' = IF timer > 0 THEN timer - 1 ELSE 0
  /\ left' = left - 1
  /\ UNCHANGED <<informerVars, dirty, pc, next, view, rev, state, cancelled>>

-----------------------------------------------------------------------------

RunStep ==
  \/ CachesSynced
  \/ TakeDirty
  \/ Timeout
  \/ ReadLister
  \/ Publish
  \/ KeepPrevious
  \/ Stop

Next ==
  \/ \E k \in Kinds :
       \/ Change(k)
       \/ Receive(k)
       \/ Resync(k)
       \/ HandleChange(k)
       \/ HandleResync(k)
       \/ WatchError(k)
  \/ RunStep
  \/ Cancel
  \/ Tick

\* client-go keeps retrying a list or watch and calls every handler; the Go
\* scheduler runs Run's goroutine; time passes.  Changes, errors and
\* cancellation are not fair: they need not happen.
Fairness ==
  /\ \A k \in Kinds : WF_vars(Receive(k)) /\ WF_vars(HandleChange(k))
  /\ WF_vars(CachesSynced) /\ WF_vars(TakeDirty) /\ WF_vars(Timeout)
  /\ WF_vars(ReadLister) /\ WF_vars(Publish) /\ WF_vars(KeepPrevious)
  /\ WF_vars(Stop)
  /\ WF_vars(Tick)

Spec == Init /\ [][Next]_vars /\ Fairness

-----------------------------------------------------------------------------
(* Properties. *)

\* A change of kind k that is in the cache is in the last rebuild, or something
\* is still to happen that leads to another one: a handler call, a token, an
\* armed timer.
Covered(k) ==
  \/ view[k] = cache[k]
  \/ calls[k] > 0
  \/ dirty

\* No change is ever lost between the informers, the one-slot dirty channel, the
\* debounce timer and the rebuild that reads the caches one at a time: whenever
\* loop() waits, and for every lister a running rebuild has already passed.
NoLostChange ==
  /\ pc = "loop" => \A k \in Kinds : Covered(k) \/ timer # Unset
  /\ pc = "reading" => \A k \in 1..(next - 1) : Covered(k)

\* The debounce of loop() can be renewed for ever, but never past the deadline
\* the first token of the batch set: maxDebounce bounds the postponement, and a
\* token taken after the deadline gets no delay at all.
PostponementBounded == timer # Unset => timer <= IF left < 0 THEN 0 ELSE left

\* f[1] + ... + f[NKinds]
Total(f) ==
  LET sum[k \in 0..NKinds] == IF k = 0 THEN 0 ELSE sum[k - 1] + f[k]
  IN sum[NKinds]

\* Every rebuild after the first is paid for by a change of its own, so resyncs
\* of unchanged objects (UpdateFunc's early return) never cause a rebuild.
\* Within versions 1..MaxVersion a kind can be received MaxVersion times.
RebuildsArePaidFor == rev <= 1 + Total(cache)

\* A published State is never older than the one it replaces, kind by kind, and
\* its revision is larger.
StateMovesForward ==
  [][/\ state'.rev > state.rev
     /\ \A k \in Kinds : state'.view[k] >= state.view[k]]_state

\* The watcher keeps the promises of LiveView: every change of the cluster ends
\* up in a published State unless Marsad is told to stop, and no State is
\* partial, older than the one before it, or ahead of the cluster.
View == INSTANCE LiveView WITH truth <- cluster, shown <- state.view, live <- ~cancelled

ImplementsLiveView == View!LiveViewSpec

\* The part of that promise every step keeps by itself.
ImplementsLiveViewSafety == View!LiveViewSafety

\* Run returns once its context is done, whatever it was doing.
RunReturns == cancelled ~> pc \in {"stopped", "panicked"}

\* "Fault reports why the cluster cannot be read, or nil while it can."
FaultOnlyWhileUnreadable == fault # NoFault => broken # {}

=============================================================================
