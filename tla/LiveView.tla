------------------------------ MODULE LiveView ------------------------------
(***************************************************************************)
(* What the watcher promises its readers, without saying how: a view of    *)
(* the cluster that is complete from the first moment it is shown, never   *)
(* moves backwards, never runs ahead of the cluster, and catches up with   *)
(* every change for as long as the watcher is running.                     *)
(***************************************************************************)
EXTENDS Naturals

CONSTANTS Kinds, MaxVersion

VARIABLES
  truth,  \* the version of each kind of object in the cluster
  shown,  \* the version of each kind in the published view; 0 for no view yet
  live    \* the watcher has not been told to stop

LiveViewInit ==
  /\ truth = [k \in Kinds |-> 1]
  /\ shown = [k \in Kinds |-> 0]
  /\ live = TRUE

\* The cluster changes.
Evolve ==
  /\ \E k \in Kinds : truth' = [truth EXCEPT ![k] = @ + 1]
  /\ UNCHANGED <<shown, live>>

\* A complete view replaces the one before it.  The views of different kinds
\* may be of different moments.
Show ==
  /\ shown' \in [Kinds -> Nat \ {0}]
  /\ \A k \in Kinds : shown[k] <= shown'[k] /\ shown'[k] <= truth[k]
  /\ UNCHANGED <<truth, live>>

Halt == live /\ live' = FALSE /\ UNCHANGED <<truth, shown>>

LiveViewNext == Evolve \/ Show \/ Halt

LiveViewSafety == LiveViewInit /\ [][LiveViewNext]_<<truth, shown, live>>

CatchesUp ==
  \A k \in Kinds : \A v \in 1..MaxVersion :
    truth[k] = v ~> (shown[k] >= v \/ ~live)

LiveViewSpec == LiveViewSafety /\ CatchesUp
=============================================================================
