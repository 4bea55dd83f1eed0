--------------------------- MODULE InspectorPanel ---------------------------
(***************************************************************************)
(* What the inspector says of a workload: the policies that select it,     *)
(* per direction what it accepts or reaches and which policy decided that, *)
(* and, when nothing selects it, the policies that came closest            *)
(* (components/Inspector.tsx, pkg/npeval/misses.go).                       *)
(*                                                                         *)
(* Evaluator takes a policy's selector as the set of labels it matches;    *)
(* here a label stands for a workload's label map, Pairs[label], and a     *)
(* selector is the conjunction of its clauses.                             *)
(***************************************************************************)
EXTENDS VerdictPanel, SequencesExt

CONSTANTS
  Pairs,       \* Pairs[label]: the label map it stands for
  Clauses(_)   \* the requirements of a policy's podSelector

\* labels.Requirement.Matches: an absent key is not in any set.
Matches(r, labels) ==
  LET present == r.key \in DOMAIN labels
  IN CASE r.op = "In" -> present /\ labels[r.key] \in r.values
       [] r.op = "NotIn" -> ~(present /\ labels[r.key] \in r.values)
       [] r.op = "Exists" -> present
       [] r.op = "DoesNotExist" -> ~present

ASSUME SelectorAssumption ==
  \A p \in Policies :
    /\ IsFiniteSet(Clauses(p))
    /\ p.selector = {l \in Labels : \A r \in Clauses(p) : Matches(r, Pairs[l])}

MaxMisses == 5   \* so many are listed

\* Selector.Explain: the clauses a label map fails, and how many it satisfies.
Missed(p, labels) == {r \in Clauses(p) : ~Matches(r, labels)}
Matched(p, labels) == Cardinality(Clauses(p) \ Missed(p, labels))

PoliciesFor(w) == {p \in policies : p.namespace = NamespaceOf[w] /\ LabelOf[w] \in p.selector}

\* Fewest failed clauses first, then most satisfied ones; the names that break
\* ties are left out.
NoCloser(a, b) ==
  \/ Cardinality(a.missed) > Cardinality(b.missed)
  \/ Cardinality(a.missed) = Cardinality(b.missed) /\ a.matched <= b.matched

\* The policies of w's namespace that do not select it, each after the closer ones.
ClosestMisses(w) ==
  LET labels == Pairs[LabelOf[w]]
      misses == {[policy |-> p, missed |-> Missed(p, labels), matched |-> Matched(p, labels)] :
                   p \in {q \in policies : q.namespace = NamespaceOf[w]} \ PoliciesFor(w)}
  IN CHOOSE list \in SetToSeqs(misses) :
       \A i, j \in DOMAIN list : i < j => NoCloser(list[j], list[i])

-----------------------------------------------------------------------------
(* What is on screen. *)

\* The chips of a rule: the policies of the detail's rules, of either direction.
Deciding(w, allow) ==
  {p \in PoliciesFor(w) :
     \E dir \in Directions : allow.via \cap {r.id : r \in p.rules[dir]} # {}}

RuleCards(w, allows) ==
  {[anyPort |-> a.ports = {}, ports |-> a.ports, peer |-> a.peer, note |-> a.approximate,
    deciding |-> Deciding(w, a)] : a \in allows}

DirectionSection(w, dir, mode) ==
  LET allows == CombineLayers(w, dir, mode)
  IN [says |-> IF Layers(w, dir) = {} THEN "exposed"
               ELSE IF allows = {} THEN "all denied" ELSE "rules",
      by |-> {p \in PoliciesFor(w) : dir \in p.types},
      cards |-> RuleCards(w, allows),
      layers |-> IF Cardinality(Layers(w, dir)) < 2 THEN {}
                 ELSE {[provider |-> p, by |-> Selecting(w, dir, p),
                        cards |-> RuleCards(w, Layer(w, dir, p))] : p \in Layers(w, dir)}]

\* The banner, the list of policies, and what came close in an empty one.
WorkloadBody(w) ==
  [unprotected |-> \A dir \in Directions, p \in Providers : ~Isolates(w, dir, p),
   policies |-> PoliciesFor(w),
   misses |-> IF PoliciesFor(w) # {} THEN << >>
              ELSE SubSeq(ClosestMisses(w), 1, Min({MaxMisses, Len(ClosestMisses(w))}))]

-----------------------------------------------------------------------------
(* What is checked. *)

\* A direction's section against the rules themselves: it counts the policies
\* that govern it; "all denied" hides no connection that every layer's rules
\* permit; and a rule is always traced to policies that govern the direction, of
\* every layer that had to permit it (Inspector.tsx:106-147, 202-224).
SectionIsTrue(w, dir, mode) ==
  \A section \in {DirectionSection(w, dir, mode)} :
    /\ section.says = "exposed" <=> section.by = {}
    /\ section.says = "all denied" =>
         \A other \in Endpoints, port \in Ports :
           \E p \in Layers(w, dir) : ~LayerSays(w, other, dir, port, p)
    /\ \A card \in section.cards :
         /\ card.deciding # {} /\ card.deciding \subseteq section.by
         /\ mode = "intersect" => {p.provider : p \in card.deciding} = Layers(w, dir)

\* The misses under a list without policies: as many as there are policies in the
\* namespace, at most five; each fails a clause; they are listed nearest first,
\* and no policy left out is nearer than one listed.
MissesAreNearest(w, misses) ==
  \A near \in {{p \in policies : p.namespace = NamespaceOf[w]}}, listed \in {{m.policy : m \in Range(misses)}} :
    /\ listed \subseteq near
    /\ Len(misses) = Min({MaxMisses, Cardinality(near)}) /\ Cardinality(listed) = Len(misses)
    /\ \A i \in DOMAIN misses :
         /\ misses[i].missed # {}
         /\ \A j \in 1 .. i : Cardinality(misses[j].missed) <= Cardinality(misses[i].missed)
         /\ \A p \in near \ listed :
              Cardinality(misses[i].missed) <= Cardinality(Missed(p, Pairs[LabelOf[w]]))

\* The banner of an unprotected workload stands over an empty list of policies,
\* and that one over the nearest of its namespace (Inspector.tsx:266-470,
\* misses.go:124-166).
InspectorIsTrue ==
  \A w \in Workloads :
    /\ \A dir \in Directions, mode \in CombineModes : SectionIsTrue(w, dir, mode)
    /\ \A body \in {WorkloadBody(w)} :
         /\ body.unprotected <=> body.policies = {}
         /\ body.policies = {} => MissesAreNearest(w, body.misses)

\* What the dialog and the inspector say follows from the policies.
PanelsSayTrue == HeadlineIsTrue /\ InspectorIsTrue

\* What the inspector says of a workload without labels (Inspector.tsx:329-335):
\* only an empty podSelector could ever select it.
OnlyEmptySelectsUnlabelled ==
  \A p \in policies : (\E l \in p.selector : DOMAIN Pairs[l] = {}) => Clauses(p) = {}
=============================================================================
