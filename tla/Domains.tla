------------------------------ MODULE Domains -------------------------------
(***************************************************************************)
(* The domain patterns of pkg/npeval/domain.go.                            *)
(*                                                                         *)
(* A pattern stands for its NormalizeDomain form.  Its labels are listed   *)
(* from the root, so that "ends with .amazonaws.com" is "starts with       *)
(* <<com, amazonaws>>", and `wild` says whether "*." precedes them.  A     *)
(* concrete name is its sequence of labels.                                *)
(***************************************************************************)
EXTENDS SequencesExt

CONSTANT DomainLabel    \* the labels a domain is made of

Names == Seq(DomainLabel) \ {<<>>}
Patterns == [wild : BOOLEAN, labels : Names]

\* One or more whole labels stand for the "*": the suffix itself is no match.
MatchDomain(pattern, name) ==
  IF pattern.wild THEN IsStrictPrefix(pattern.labels, name)
                  ELSE name = pattern.labels

DomainContains(outer, inner) ==
  \/ ~outer.wild /\ ~inner.wild /\ outer.labels = inner.labels
  \/ outer.wild /\ ~inner.wild /\ MatchDomain(outer, inner.labels)
  \/ outer.wild /\ inner.wild /\ IsPrefix(outer.labels, inner.labels)

\* IntersectDomains, its `ok` and its result.
DomainsMeet(a, b) == DomainContains(a, b) \/ DomainContains(b, a)

IntersectDomains(a, b) == IF DomainContains(a, b) THEN b ELSE a

=============================================================================
