----------------------------- MODULE MCWatcher -----------------------------
(* Instances of Watcher for TLC. *)
EXTENDS Watcher

\* Every view can be built: what the API server lets through.
NoView == {}

\* Build fails on every view that holds the second version of the first kind.
SecondOfFirst == {v \in [1..NKinds -> 0..MaxVersion] : v[1] = 2}
=============================================================================
