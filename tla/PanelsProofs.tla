---------------------------- MODULE PanelsProofs ----------------------------
(***************************************************************************)
(* Proofs about Panels for any workloads, edges and number of events: what *)
(* a panel shows is of what is selected and asked, because every request   *)
(* that is not cancelled is.                                               *)
(***************************************************************************)
EXTENDS Panels, Integers, TLAPS

Kinds == {"detail", "rules", "accepts", "nodes"}

\* S and T differ in asks of one kind only.
SameBut(S, T, of) == \A a : a.of # of => (a \in S <=> a \in T)

\* What is left of kind `of` is cancelled.
NoneLive(S, of) == \A a \in S : a.of = of => ~a.live

LEMMA AskKinds ==
  ASSUME NEW a \in Asks
  PROVE  /\ a.of \in Kinds \cup {"check"}
         /\ a.live \in BOOLEAN
         /\ a.of = "detail" => a.about.node \in Workloads
         /\ a.of = "rules" => a.about.edge \in Links
         /\ a.of = "accepts" => a.about \in Verdicts
         /\ a.of = "check" => a.about \in Questions /\ a.live
  BY DEF Asks, Kinds

LEMMA CancelOne ==
  ASSUME NEW a \in Asks, a.of # "check"
  PROVE  /\ [a EXCEPT !.live = FALSE] \in Asks
         /\ [a EXCEPT !.live = FALSE].of = a.of
         /\ ~[a EXCEPT !.live = FALSE].live
  BY DEF Asks

LEMMA Cancelling ==
  ASSUME NEW S \in SUBSET Asks, NEW of \in Kinds
  PROVE  /\ Cancel(S, of) \in SUBSET Asks
         /\ SameBut(S, Cancel(S, of), of)
         /\ NoneLive(Cancel(S, of), of)
<1> DEFINE C(a) == IF a.of = of THEN [a EXCEPT !.live = FALSE] ELSE a
<1>0. of # "check"
  BY DEF Kinds
<1>1. \A a \in S : C(a) \in Asks /\ C(a).of = a.of /\ (a.of = of => ~C(a).live)
  <2> TAKE a \in S
  <2>1. CASE a.of = of
    <3>1. C(a) = [a EXCEPT !.live = FALSE]
      BY <2>1
    <3>2. a \in Asks
      OBVIOUS
    <3> QED BY <1>0, <2>1, <3>1, <3>2, CancelOne
  <2>2. CASE a.of # of
    BY <2>2
  <2> QED BY <2>1, <2>2
<1>2. Cancel(S, of) = {C(a) : a \in S}
  BY DEF Cancel
<1>3. \A a \in S : a.of # of => C(a) = a
  OBVIOUS
<1> HIDE DEF C
<1>4. ASSUME NEW a, a.of # of PROVE a \in S <=> a \in Cancel(S, of)
  BY <1>1, <1>2, <1>3, <1>4
<1>5. NoneLive(Cancel(S, of), of)
  BY <1>1, <1>2 DEF NoneLive
<1> QED BY <1>1, <1>2, <1>4, <1>5 DEF SameBut

-----------------------------------------------------------------------------
(* Every request that is not cancelled is about what is selected and asked.    *)

DetailsFit(n, S) == \A a \in S : a.of = "detail" /\ a.live => n # None /\ n[1] = a.about.node

RulesFit(e, S) == \A a \in S : a.of = "rules" /\ a.live => e # None /\ e[1] = a.about.edge

AcceptsFit(q, v, S) ==
  \A a \in S : a.of = "accepts" /\ a.live =>
    /\ v \in Verdicts /\ a.about.denied = v.denied
    /\ \A f \in Fields : Picked(a.about.about[f]) = Picked(q[f])

ChecksFit(q, r, t, S) ==
  /\ \A a, b \in S : a.of = "check" /\ b.of = "check" => a = b
  /\ r <=> \E a \in S : a.of = "check"
  /\ ~t => \A a \in S : a.of = "check" => a.about = q

\* The lines that are shown while none are on their way.
LinesFit(q, v, l, S) ==
  NoneLive(S, "accepts") =>
    \A f \in Fields : l[f] # "" => v \in Verdicts /\ f \in v.denied /\ l[f] = q[f]

LEMMA Carried ==
  ASSUME NEW S, NEW T, NEW of, SameBut(S, T, of), NEW n, NEW e, NEW q, NEW v, NEW r, NEW t, NEW l
  PROVE  /\ of # "detail" => (DetailsFit(n, S) => DetailsFit(n, T))
         /\ of # "rules" => (RulesFit(e, S) => RulesFit(e, T))
         /\ of # "accepts" => (AcceptsFit(q, v, S) => AcceptsFit(q, v, T))
         /\ of # "accepts" => (LinesFit(q, v, l, S) => LinesFit(q, v, l, T))
         /\ of # "check" => (ChecksFit(q, r, t, S) => ChecksFit(q, r, t, T))
<1> USE DEF SameBut
<1>1. of # "detail" => (DetailsFit(n, S) => DetailsFit(n, T))
  BY DEF DetailsFit
<1>2. of # "rules" => (RulesFit(e, S) => RulesFit(e, T))
  BY DEF RulesFit
<1>3. of # "accepts" => (AcceptsFit(q, v, S) => AcceptsFit(q, v, T))
  BY DEF AcceptsFit
<1>4. of # "accepts" => (LinesFit(q, v, l, S) => LinesFit(q, v, l, T))
  BY DEF LinesFit, NoneLive
<1>5. of # "check" => (ChecksFit(q, r, t, S) => ChecksFit(q, r, t, T))
  BY DEF ChecksFit
<1> QED BY <1>1, <1>2, <1>3, <1>4, <1>5

\* The dialog's part, and the selection's.
PanelFits(q, v, r, t, l, S) ==
  /\ AcceptsFit(q, v, S) /\ LinesFit(q, v, l, S) /\ ChecksFit(q, r, t, S)
  /\ v \in Verdicts /\ ~r /\ ~t => v.about = q

LEMMA PanelCarried ==
  ASSUME NEW S, NEW T, NEW of, SameBut(S, T, of), of \notin {"accepts", "check"},
         NEW q, NEW v, NEW r, NEW t, NEW l, PanelFits(q, v, r, t, l, S)
  PROVE  PanelFits(q, v, r, t, l, T)
  BY Carried DEF PanelFits

LEMMA SelectionCarried ==
  ASSUME NEW S, NEW T, NEW of, SameBut(S, T, of), of \notin {"detail", "rules"}, NEW n, NEW e
  PROVE  /\ DetailsFit(n, S) => DetailsFit(n, T)
         /\ RulesFit(e, S) => RulesFit(e, T)
  BY DEF SameBut, DetailsFit, RulesFit

NodeTyped(n, r) == n = None \/ n \in (Workloads \cup Cards) \X (0..r)
EdgeTyped(e, r) == e = None \/ e \in Links \X (0..r)

DetailShown(n, d, x) ==
  /\ d # "" => n # None /\ n[1] = d
  /\ x => n # None /\ n[1] \in Workloads

RulesShown(e, l) ==
  e # None => (l = "some" => e[1] \in Declared) /\ (l = "none" => e[1] \notin Declared)

Inv ==
  /\ TypeOK
  /\ DetailsFit(node, asks) /\ DetailShown(node, detail, failed)
  /\ RulesFit(edge, asks) /\ RulesShown(edge, rules)
  /\ PanelFits(fields, verdict, running, touched, accepts, asks)

-----------------------------------------------------------------------------
(* The effects ask for what they are run for, and cancel what they asked before. *)

LEMMA Inspecting ==
  ASSUME NEW S \in SUBSET Asks, NEW n, NEW r, NodeTyped(n, r), InspectEffect(n, S),
         detail \in Workloads \cup {""}, {failed, loading} \subseteq BOOLEAN,
         DetailsFit(node, S), DetailShown(node, detail, failed)
  PROVE  /\ asks' \in SUBSET Asks
         /\ SameBut(S, asks', "detail")
         /\ DetailsFit(n, asks')
         /\ detail' \in Workloads \cup {""}
         /\ failed' \in BOOLEAN /\ loading' \in BOOLEAN
         /\ DetailShown(n, detail', failed')
<1>1. CASE n = node
  BY <1>1 DEF InspectEffect, inspector, SameBut
<1>2. CASE n # node
  <2>1. detail' = "" /\ failed' = FALSE
    BY <1>2 DEF InspectEffect
  <2> DEFINE T == Cancel(S, "detail")
  <2>2. T \in SUBSET Asks /\ SameBut(S, T, "detail") /\ NoneLive(T, "detail")
    BY Cancelling DEF Kinds
  <2> HIDE DEF T
  <2>3. CASE n # None /\ n[1] \in Workloads
    <3> DEFINE a == Live("detail", [node |-> n[1]])
    <3>1. a \in Asks /\ a.of = "detail" /\ a.about.node = n[1]
      BY <2>3 DEF Live, Asks
    <3>2. loading' = TRUE /\ asks' = T \cup {a}
      BY <1>2, <2>3 DEF InspectEffect, T
    <3> HIDE DEF a
    <3>3. SameBut(S, asks', "detail")
      BY <2>2, <3>1, <3>2 DEF SameBut
    <3>4. DetailsFit(n, asks')
      BY <2>2, <2>3, <3>1, <3>2 DEF DetailsFit, NoneLive
    <3> QED BY <2>1, <2>2, <3>1, <3>2, <3>3, <3>4 DEF DetailShown
  <2>4. CASE ~(n # None /\ n[1] \in Workloads)
    <3>1. loading' = loading /\ asks' = T
      BY <1>2, <2>4 DEF InspectEffect, T
    <3>2. DetailsFit(n, asks')
      BY <2>2, <3>1 DEF DetailsFit, NoneLive
    <3> QED BY <2>1, <2>2, <3>1, <3>2 DEF DetailShown
  <2> QED BY <2>3, <2>4
<1> QED BY <1>1, <1>2

LEMMA AskingRules ==
  ASSUME NEW S \in SUBSET Asks, NEW e, NEW r, EdgeTyped(e, r), RulesFit(edge, S)
  PROVE  /\ RulesAsked(e, S) \in SUBSET Asks
         /\ SameBut(S, RulesAsked(e, S), "rules")
         /\ RulesFit(e, RulesAsked(e, S))
<1> DEFINE T == Cancel(S, "rules")
<1>1. T \in SUBSET Asks /\ SameBut(S, T, "rules") /\ NoneLive(T, "rules")
  BY Cancelling DEF Kinds
<1> HIDE DEF T
<1>2. CASE e = None
  <2>1. RulesAsked(e, S) = T
    BY <1>2 DEF RulesAsked, T
  <2> QED BY <1>1, <1>2, <2>1 DEF RulesFit, NoneLive
<1>3. CASE e # None
  <2> DEFINE a == Live("rules", [edge |-> e[1]])
  <2>0. e[1] \in Links
    BY <1>3 DEF EdgeTyped
  <2>1. a \in Asks /\ a.of = "rules" /\ a.about.edge = e[1]
    BY <2>0 DEF Live, Asks
  <2>2. RulesAsked(e, S) = T \cup {a}
    BY <1>3 DEF RulesAsked, T
  <2> HIDE DEF a
  <2>3. SameBut(S, RulesAsked(e, S), "rules")
    BY <1>1, <2>1, <2>2 DEF SameBut
  <2>4. RulesFit(e, RulesAsked(e, S))
    BY <1>1, <1>3, <2>1, <2>2 DEF RulesFit, NoneLive
  <2> QED BY <1>1, <2>1, <2>2, <2>3, <2>4
<1> QED BY <1>2, <1>3

LEMMA AskingAccepts ==
  ASSUME NEW S \in SUBSET Asks, NEW q \in Questions, NEW v
  PROVE  /\ AcceptsAsked(q, v, S) \in SUBSET Asks
         /\ SameBut(S, AcceptsAsked(q, v, S), "accepts")
         /\ AcceptsFit(q, v, AcceptsAsked(q, v, S))
         /\ NoneLive(AcceptsAsked(q, v, S), "accepts") <=> v \notin Verdicts
<1> DEFINE T == Cancel(S, "accepts")
           U == AcceptsAsked(q, v, S)
<1>1. T \in SUBSET Asks /\ SameBut(S, T, "accepts") /\ NoneLive(T, "accepts")
  BY Cancelling DEF Kinds
<1>2. CASE v \notin Verdicts
  <2>1. U = T
    BY <1>2 DEF AcceptsAsked
  <2> HIDE DEF T, U
  <2>2. AcceptsFit(q, v, U)
    BY <1>1, <2>1 DEF AcceptsFit, NoneLive
  <2> QED BY <1>1, <1>2, <2>1, <2>2 DEF U
<1>3. CASE v \in Verdicts
  <2> DEFINE a == Live("accepts", [about |-> q, denied |-> v.denied])
  <2>1. U = T \cup {a}
    BY <1>3 DEF AcceptsAsked
  <2>2. /\ a \in Asks /\ a.of = "accepts" /\ a.live
        /\ a.about.about = q /\ a.about.denied = v.denied
    BY <1>3 DEF Live, Asks, Verdicts
  <2> HIDE DEF T, U, a
  <2>3. SameBut(S, U, "accepts")
    BY <1>1, <2>1, <2>2 DEF SameBut
  <2>4. AcceptsFit(q, v, U)
    BY <1>1, <1>3, <2>1, <2>2 DEF AcceptsFit, NoneLive
  <2>5. ~NoneLive(U, "accepts")
    BY <2>1, <2>2 DEF NoneLive
  <2> QED BY <1>1, <1>3, <2>1, <2>2, <2>3, <2>4, <2>5 DEF U
<1> QED BY <1>2, <1>3

-----------------------------------------------------------------------------
(* The panel after a reset, and the lines after another question.              *)

LEMMA NoVerdictYet == None \notin Verdicts /\ Refusal \notin Verdicts
  BY DEF None, Refusal, Verdicts

LEMMA PrefillIsQuestion ==
  ASSUME NEW n, NEW e
  PROVE  Prefill(n, e) \in Questions
<1>1. \A id : EndpointFor(id) \in Endpoints
  BY DEF EndpointFor, Picked, Endpoints
<1>2. "" \in Endpoints
  BY DEF Endpoints
<1> HIDE DEF Endpoints
<1>3. \A x, y \in Endpoints : [from |-> x, to |-> y] \in Questions
  <2> TAKE x \in Endpoints, y \in Endpoints
  <2> QED BY DEF Questions, Fields
<1> QED BY <1>1, <1>2, <1>3 DEF Prefill

LEMMA Resetting ==
  ASSUME NEW q \in Questions, NEW S \in SUBSET Asks, ResetTo(q),
         PanelFits(fields, verdict, running, touched, accepts, S)
  PROVE  /\ fields' \in Questions /\ verdict' = None /\ touched' = TRUE
         /\ accepts' \in [Fields -> Workloads \cup {""}]
         /\ \A p \in Questions :
              /\ AcceptsAsked(p, None, S) \in SUBSET Asks
              /\ SameBut(S, AcceptsAsked(p, None, S), "accepts")
              /\ PanelFits(fields', verdict', running, touched', accepts', AcceptsAsked(p, None, S))
<1>1. /\ fields' = q /\ verdict' = None /\ touched' = TRUE
      /\ accepts' = [f \in Fields |-> ""]
  BY NoVerdictYet DEF ResetTo, AcceptsShown
<1>2. ASSUME NEW p \in Questions
      PROVE  /\ AcceptsAsked(p, None, S) \in SUBSET Asks
             /\ SameBut(S, AcceptsAsked(p, None, S), "accepts")
             /\ PanelFits(fields', verdict', running, touched', accepts', AcceptsAsked(p, None, S))
  <2> DEFINE T == AcceptsAsked(p, None, S)
  <2>1. T \in SUBSET Asks /\ SameBut(S, T, "accepts") /\ NoneLive(T, "accepts")
    BY AskingAccepts, NoVerdictYet
  <2> HIDE DEF T
  <2>2. AcceptsFit(fields', verdict', T)
    BY <2>1 DEF AcceptsFit, NoneLive
  <2>3. LinesFit(fields', verdict', accepts', T)
    BY <1>1 DEF LinesFit
  <2>4. ChecksFit(fields', running, touched', T)
    BY <1>1, <2>1 DEF ChecksFit, SameBut, PanelFits
  <2> QED BY <1>1, <2>1, <2>2, <2>3, <2>4, NoVerdictYet DEF PanelFits, T
<1> QED BY <1>1, <1>2

\* Setting a field to e leaves the lines where they are if the workload stays.
LEMMA SettingField ==
  ASSUME Inv, NEW f \in Fields, NEW e \in Endpoints, SetField(f, e)
  PROVE  /\ asks' \in SUBSET Asks /\ fields' \in Questions
         /\ SameBut(asks, asks', "accepts")
         /\ PanelFits(fields', verdict', running', touched', accepts', asks')
<1>1. /\ fields' = [fields EXCEPT ![f] = e] /\ touched' = TRUE
      /\ verdict' = verdict /\ running' = running /\ accepts' = accepts
      /\ asks' = IF Picked(e) = Picked(fields[f]) THEN asks ELSE AcceptsAsked(fields', verdict, asks)
  BY DEF SetField
<1>2. fields \in Questions /\ asks \in SUBSET Asks /\ accepts \in [Fields -> Workloads \cup {""}]
  BY DEF Inv, TypeOK
<1>3. fields' \in Questions
  BY <1>1, <1>2 DEF Questions
<1>4. /\ AcceptsFit(fields, verdict, asks) /\ LinesFit(fields, verdict, accepts, asks)
      /\ ChecksFit(fields, running, touched, asks)
  BY DEF Inv, PanelFits
<1>5. CASE Picked(e) = Picked(fields[f])
  <2>1. asks' = asks
    BY <1>1, <1>5
  <2>2. \A g \in Fields : Picked(fields'[g]) = Picked(fields[g])
    BY <1>1, <1>2, <1>5 DEF Questions
  <2>3. AcceptsFit(fields', verdict, asks)
    BY <1>4, <2>2 DEF AcceptsFit
  <2>4. LinesFit(fields', verdict, accepts, asks)
    <3>1. \A g \in Fields : accepts[g] \in Workloads /\ accepts[g] = fields[g] => fields'[g] = fields[g]
      BY <2>2, PanelsAssumption DEF Picked
    <3>2. \A g \in Fields : accepts[g] # "" => accepts[g] \in Workloads
      BY <1>2
    <3> QED BY <1>4, <3>1, <3>2 DEF LinesFit
  <2>5. ChecksFit(fields', running, TRUE, asks)
    BY <1>4 DEF ChecksFit
  <2> QED BY <1>1, <1>2, <1>3, <2>1, <2>3, <2>4, <2>5 DEF PanelFits, SameBut
<1>6. CASE Picked(e) # Picked(fields[f])
  <2>1. asks' = AcceptsAsked(fields', verdict, asks)
    BY <1>1, <1>6
  <2>2. /\ asks' \in SUBSET Asks /\ SameBut(asks, asks', "accepts")
        /\ AcceptsFit(fields', verdict, asks')
        /\ NoneLive(asks', "accepts") <=> verdict \notin Verdicts
    BY <1>2, <1>3, <2>1, AskingAccepts
  <2>3. LinesFit(fields', verdict, accepts, asks')
    <3>1. verdict \notin Verdicts => NoneLive(asks, "accepts")
      BY <1>4 DEF AcceptsFit, NoneLive
    <3> QED BY <1>4, <2>2, <3>1 DEF LinesFit
  <2>4. ChecksFit(fields', running, TRUE, asks')
    BY <1>4, <2>2 DEF ChecksFit, SameBut
  <2> QED BY <1>1, <1>3, <2>2, <2>3, <2>4 DEF PanelFits
<1> QED BY <1>5, <1>6

-----------------------------------------------------------------------------
(* Each step keeps the invariant.                                              *)

LEMMA SelectionTyped ==
  ASSUME TypeOK
  PROVE  NodeTyped(node, rev) /\ EdgeTyped(edge, rev) /\ NodeTyped(None, rev) /\ EdgeTyped(None, rev)
  BY DEF TypeOK, NodeTyped, EdgeTyped

\* S is asks, or asks with another kind cancelled.
LEMMA SelectionChanges ==
  ASSUME Inv, NEW n, NEW e, NEW S \in SUBSET Asks,
         NodeTyped(n, rev), EdgeTyped(e, rev), InspectEffect(n, RulesAsked(e, S)),
         DetailsFit(node, S), RulesFit(edge, S)
  PROVE  /\ asks' \in SUBSET Asks
         /\ DetailsFit(n, asks') /\ DetailShown(n, detail', failed')
         /\ RulesFit(e, asks')
         /\ detail' \in Workloads \cup {""} /\ failed' \in BOOLEAN /\ loading' \in BOOLEAN
         /\ \A q, v, r, t, l : PanelFits(q, v, r, t, l, S) => PanelFits(q, v, r, t, l, asks')
<1> DEFINE T == RulesAsked(e, S)
<1>1. T \in SUBSET Asks /\ SameBut(S, T, "rules") /\ RulesFit(e, T)
  BY AskingRules
<1>2. DetailsFit(node, T)
  BY <1>1 DEF DetailsFit, SameBut
<1>3. /\ detail \in Workloads \cup {""} /\ {failed, loading} \subseteq BOOLEAN
      /\ DetailShown(node, detail, failed)
  BY DEF Inv, TypeOK
<1>4. InspectEffect(n, T)
  OBVIOUS
<1> HIDE DEF T
<1>5. /\ asks' \in SUBSET Asks /\ SameBut(T, asks', "detail") /\ DetailsFit(n, asks')
      /\ detail' \in Workloads \cup {""} /\ failed' \in BOOLEAN /\ loading' \in BOOLEAN
      /\ DetailShown(n, detail', failed')
  BY <1>1, <1>2, <1>3, <1>4, Inspecting
<1>6. RulesFit(e, asks')
  BY <1>1, <1>5 DEF RulesFit, SameBut
<1>7. ASSUME NEW q, NEW v, NEW r, NEW t, NEW l, PanelFits(q, v, r, t, l, S)
      PROVE  PanelFits(q, v, r, t, l, asks')
  <2>1. PanelFits(q, v, r, t, l, T)
    BY <1>1, <1>7, PanelCarried
  <2> QED BY <1>5, <2>1, PanelCarried
<1> QED BY <1>5, <1>6, <1>7

LEMMA Assembled ==
  ASSUME rev' \in 0..MaxRev, clicks' \in 0..MaxClicks,
         NodeTyped(node', rev'), EdgeTyped(edge', rev'),
         asks' \in SUBSET Asks,
         DetailsFit(node', asks'), DetailShown(node', detail', failed'),
         detail' \in Workloads \cup {""}, failed' \in BOOLEAN, loading' \in BOOLEAN,
         RulesFit(edge', asks'), RulesShown(edge', rules'),
         rules' \in {"null", "some", "none", "failed"},
         PanelFits(fields', verdict', running', touched', accepts', asks'),
         fields' \in Questions, verdict' \in Verdicts \cup {None, Refusal},
         accepts' \in [Fields -> Workloads \cup {""}],
         {open', suggested', running', touched'} \subseteq BOOLEAN, lists' \subseteq Fields
  PROVE  Inv'
<1>1. running' <=> \E a \in asks' : a.of = "check"
  BY DEF PanelFits, ChecksFit
<1>2. TypeOK'
  BY <1>1 DEF TypeOK, NodeTyped, EdgeTyped
<1> QED BY <1>2 DEF Inv

LEMMA SelectingKeeps ==
  ASSUME Inv, NEW n, NEW e, NodeTyped(n, rev), EdgeTyped(e, rev), Selecting(n, e),
         rev' = rev, clicks' \in 0..MaxClicks
  PROVE  Inv'
<1>1. /\ TypeOK /\ asks \in SUBSET Asks /\ DetailsFit(node, asks) /\ RulesFit(edge, asks)
      /\ PanelFits(fields, verdict, running, touched, accepts, asks) /\ RulesShown(edge, rules)
  BY DEF Inv, TypeOK
<1>2. node' = n /\ edge' = e /\ Rules(e)
  BY DEF Selecting
<1>3. RulesShown(e, rules') /\ rules' \in {"null", "some", "none", "failed"}
  BY <1>1, <1>2 DEF Rules, RulesShown, TypeOK
<1>4. /\ asks' \in SUBSET Asks
      /\ DetailsFit(n, asks') /\ DetailShown(n, detail', failed')
      /\ RulesFit(e, asks')
      /\ detail' \in Workloads \cup {""} /\ failed' \in BOOLEAN /\ loading' \in BOOLEAN
      /\ PanelFits(fields', verdict', running', touched', accepts', asks')
      /\ fields' \in Questions /\ verdict' \in Verdicts \cup {None, Refusal}
      /\ accepts' \in [Fields -> Workloads \cup {""}]
      /\ {open', suggested', running', touched'} \subseteq BOOLEAN /\ lists' \subseteq Fields
  <2>1. CASE open /\ <<n, e>> # <<node, edge>>
    <3> DEFINE q == Prefill(n, e)
               S == AcceptsAsked(q, None, asks)
    <3>1. /\ ResetTo(q) /\ InspectEffect(n, RulesAsked(e, S))
          /\ open' = open /\ lists' = lists /\ suggested' = suggested /\ running' = running
      BY <2>1 DEF Selecting
    <3>2. q \in Questions
      BY PrefillIsQuestion
    <3> HIDE DEF q
    <3>3. /\ fields' \in Questions /\ verdict' = None /\ touched' = TRUE
          /\ accepts' \in [Fields -> Workloads \cup {""}]
          /\ S \in SUBSET Asks /\ SameBut(asks, S, "accepts")
          /\ PanelFits(fields', verdict', running, touched', accepts', S)
      BY <1>1, <3>1, <3>2, Resetting
    <3> HIDE DEF S
    <3>4. DetailsFit(node, S) /\ RulesFit(edge, S)
      BY <1>1, <3>3, SelectionCarried
    <3>5. /\ asks' \in SUBSET Asks
          /\ DetailsFit(n, asks') /\ DetailShown(n, detail', failed')
          /\ RulesFit(e, asks')
          /\ detail' \in Workloads \cup {""} /\ failed' \in BOOLEAN /\ loading' \in BOOLEAN
          /\ PanelFits(fields', verdict', running, touched', accepts', asks')
      BY <3>1, <3>3, <3>4, SelectionChanges
    <3> QED BY <1>1, <3>1, <3>3, <3>5 DEF TypeOK
  <2>2. CASE ~(open /\ <<n, e>> # <<node, edge>>)
    <3>1. InspectEffect(n, RulesAsked(e, asks)) /\ UNCHANGED panel
      BY <2>2 DEF Selecting
    <3>2. /\ fields' = fields /\ verdict' = verdict /\ running' = running /\ touched' = touched
          /\ accepts' = accepts /\ open' = open /\ lists' = lists /\ suggested' = suggested
      BY <3>1 DEF panel
    <3>3. /\ asks' \in SUBSET Asks
          /\ DetailsFit(n, asks') /\ DetailShown(n, detail', failed')
          /\ RulesFit(e, asks')
          /\ detail' \in Workloads \cup {""} /\ failed' \in BOOLEAN /\ loading' \in BOOLEAN
          /\ PanelFits(fields, verdict, running, touched, accepts, asks')
      BY <1>1, <3>1, SelectionChanges
    <3> QED BY <1>1, <3>2, <3>3 DEF TypeOK
  <2> QED BY <2>1, <2>2
<1>5. NodeTyped(node', rev') /\ EdgeTyped(edge', rev') /\ rev' \in 0..MaxRev
  BY <1>1, <1>2 DEF TypeOK
<1> QED BY <1>2, <1>3, <1>4, <1>5, Assembled

LEMMA Widening ==
  ASSUME NEW r \in 0..MaxRev, NEW s \in 0..MaxRev, r <= s
  PROVE  \A i \in 0..r : i \in 0..s
<1>1. MaxRev \in Nat
  BY PanelsAssumption
<1>2. r \in Int /\ s \in Int
  BY <1>1
<1> QED BY <1>2

\* A step that leaves the selection alone.
LEMMA SelectionStays ==
  ASSUME Inv,
         UNCHANGED <<node, edge>>, rev' \in 0..MaxRev, rev <= rev', clicks' \in 0..MaxClicks,
         asks' \in SUBSET Asks,
         DetailsFit(node, asks'), DetailShown(node, detail', failed'),
         detail' \in Workloads \cup {""}, failed' \in BOOLEAN, loading' \in BOOLEAN,
         RulesFit(edge, asks'), RulesShown(edge, rules'),
         rules' \in {"null", "some", "none", "failed"},
         PanelFits(fields', verdict', running', touched', accepts', asks'),
         fields' \in Questions, verdict' \in Verdicts \cup {None, Refusal},
         accepts' \in [Fields -> Workloads \cup {""}],
         {open', suggested', running', touched'} \subseteq BOOLEAN, lists' \subseteq Fields
  PROVE  Inv'
<1>2. rev \in 0..MaxRev /\ NodeTyped(node, rev) /\ EdgeTyped(edge, rev)
  BY SelectionTyped DEF Inv, TypeOK
<1>3. \A i \in 0..rev : i \in 0..rev'
  BY <1>2, Widening
<1>4. NodeTyped(node', rev')
  BY <1>2, <1>3 DEF NodeTyped
<1>5. EdgeTyped(edge', rev')
  BY <1>2, <1>3 DEF EdgeTyped
<1> QED BY <1>4, <1>5, Assembled

\* A step of the dialog: inspector and popover are left alone too.
LEMMA DialogKeeps ==
  ASSUME Inv,
         UNCHANGED <<node, edge, inspector, rules>>,
         rev' \in 0..MaxRev, rev <= rev', clicks' \in 0..MaxClicks,
         asks' \in SUBSET Asks, DetailsFit(node, asks'), RulesFit(edge, asks'),
         PanelFits(fields', verdict', running', touched', accepts', asks'),
         fields' \in Questions, verdict' \in Verdicts \cup {None, Refusal},
         accepts' \in [Fields -> Workloads \cup {""}],
         {open', suggested', running', touched'} \subseteq BOOLEAN, lists' \subseteq Fields
  PROVE  Inv'
<1>1. rules' = rules /\ detail' = detail /\ failed' = failed /\ loading' = loading
  BY DEF inspector
<1>2. /\ DetailShown(node, detail', failed') /\ RulesShown(edge, rules')
      /\ detail' \in Workloads \cup {""} /\ failed' \in BOOLEAN /\ loading' \in BOOLEAN
      /\ rules' \in {"null", "some", "none", "failed"}
  BY <1>1 DEF Inv, TypeOK
<1> QED BY <1>2, SelectionStays

LEMMA ClickCounts ==
  ASSUME TypeOK, Click
  PROVE  rev' = rev /\ rev' \in 0..MaxRev /\ rev <= rev' /\ clicks' \in 0..MaxClicks
<1>1. MaxClicks \in Nat /\ MaxRev \in Nat
  BY PanelsAssumption
<1>2. rev \in 0..MaxRev /\ clicks \in 0..MaxClicks
  BY DEF TypeOK
<1>3. rev' = rev /\ clicks < MaxClicks /\ clicks' = clicks + 1
  BY DEF Click
<1> QED BY <1>1, <1>2, <1>3

\* What the invariant says of the variables, to be cited by the steps.
LEMMA Facts ==
  ASSUME Inv
  PROVE  /\ TypeOK /\ asks \in SUBSET Asks
         /\ fields \in Questions /\ verdict \in Verdicts \cup {None, Refusal}
         /\ accepts \in [Fields -> Workloads \cup {""}]
         /\ {open, suggested, running, touched} \subseteq BOOLEAN /\ lists \subseteq Fields
         /\ DetailsFit(node, asks) /\ RulesFit(edge, asks)
         /\ PanelFits(fields, verdict, running, touched, accepts, asks)
         /\ rev \in 0..rev
<1>1. MaxRev \in Nat
  BY PanelsAssumption
<1>2. rev \in 0..MaxRev
  BY DEF Inv, TypeOK
<1>3. rev \in 0..rev
  BY <1>1, <1>2
<1> QED BY <1>3 DEF Inv, TypeOK

LEMMA SelectNodeKeeps == ASSUME Inv, NEW id \in Workloads \cup Cards, SelectNode(id) PROVE Inv'
<1>1. Click /\ Selecting(<<id, rev>>, None)
  BY DEF SelectNode
<1>2. rev \in 0..rev
  BY Facts
<1>3. NodeTyped(<<id, rev>>, rev) /\ EdgeTyped(None, rev)
  BY <1>2 DEF NodeTyped, EdgeTyped
<1> QED BY <1>1, <1>3, Facts, ClickCounts, SelectingKeeps

LEMMA SelectEdgeKeeps == ASSUME Inv, NEW l \in Links, SelectEdge(l) PROVE Inv'
<1>1. Click /\ Selecting(None, <<l, rev>>)
  BY DEF SelectEdge
<1>2. rev \in 0..rev
  BY Facts
<1>3. NodeTyped(None, rev) /\ EdgeTyped(<<l, rev>>, rev)
  BY <1>2 DEF NodeTyped, EdgeTyped
<1> QED BY <1>1, <1>3, Facts, ClickCounts, SelectingKeeps

LEMMA ClearSelectionKeeps == ASSUME Inv, ClearSelection PROVE Inv'
<1>1. Click /\ Selecting(None, None)
  BY DEF ClearSelection
<1> QED BY <1>1, Facts, ClickCounts, SelectionTyped, SelectingKeeps

LEMMA OpenTargetKeeps == ASSUME Inv, OpenTarget PROVE Inv'
<1>1. Click /\ edge # None /\ Selecting(<<edge[1][2], rev>>, None)
  BY DEF OpenTarget
<1>2. edge[1] \in Links /\ rev \in 0..rev
  BY <1>1, Facts DEF TypeOK
<1>3. edge[1][2] \in Workloads \cup Cards
  BY <1>2, PanelsAssumption
<1>4. NodeTyped(<<edge[1][2], rev>>, rev) /\ EdgeTyped(None, rev)
  BY <1>2, <1>3 DEF NodeTyped, EdgeTyped
<1> QED BY <1>1, <1>4, Facts, ClickCounts, SelectingKeeps

LEMMA PushKeeps == ASSUME Inv, Push PROVE Inv'
<1>1. /\ rev' \in 0..MaxRev /\ rev <= rev' /\ clicks' \in 0..MaxClicks
      /\ UNCHANGED <<node, edge, inspector, rules>>
  <2>1. rev < MaxRev /\ rev' = rev + 1 /\ clicks' = clicks /\ UNCHANGED <<node, edge, inspector, rules>>
    BY DEF Push
  <2>2. MaxRev \in Nat /\ rev \in 0..MaxRev /\ clicks \in 0..MaxClicks
    BY PanelsAssumption DEF Inv, TypeOK
  <2> QED BY <2>1, <2>2
<1>2. CASE open /\ PrefillFollows(node, edge)
  <2> DEFINE q == Prefill(node, edge)
  <2>1. /\ ResetTo(q) /\ asks' = AcceptsAsked(q, None, asks)
        /\ open' = open /\ lists' = lists /\ suggested' = suggested /\ running' = running
    BY <1>2 DEF Push
  <2>2. q \in Questions
    BY PrefillIsQuestion
  <2> HIDE DEF q
  <2>3. /\ fields' \in Questions /\ verdict' = None /\ touched' = TRUE
        /\ accepts' \in [Fields -> Workloads \cup {""}]
        /\ asks' \in SUBSET Asks /\ SameBut(asks, asks', "accepts")
        /\ PanelFits(fields', verdict', running', touched', accepts', asks')
    BY <2>1, <2>2, Facts, Resetting
  <2>4. DetailsFit(node, asks') /\ RulesFit(edge, asks')
    BY <2>3, Facts, SelectionCarried
  <2>5. {open', suggested', running', touched'} \subseteq BOOLEAN /\ lists' \subseteq Fields
    BY <2>1, <2>3, Facts
  <2> QED BY <1>1, <2>3, <2>4, <2>5, DialogKeeps
<1>3. CASE ~(open /\ PrefillFollows(node, edge))
  <2>1. UNCHANGED <<panel, asks>>
    BY <1>3 DEF Push
  <2>2. /\ open' = open /\ lists' = lists /\ suggested' = suggested /\ running' = running
        /\ fields' = fields /\ verdict' = verdict /\ accepts' = accepts /\ touched' = touched
        /\ asks' = asks
    BY <2>1 DEF panel
  <2> QED BY <1>1, <2>2, Facts, DialogKeeps
<1> QED BY <1>2, <1>3

LEMMA OpenSimulateKeeps == ASSUME Inv, OpenSimulate PROVE Inv'
<1> DEFINE q == Prefill(node, edge)
           S == AcceptsAsked(q, None, asks)
<1>1. /\ Click /\ ResetTo(q) /\ open' = TRUE /\ lists' = {}
      /\ asks' = S \cup (IF suggested THEN {} ELSE {Live("nodes", None)})
      /\ UNCHANGED <<node, edge, inspector, rules>> /\ suggested' = suggested /\ running' = running
  BY DEF OpenSimulate
<1>2. q \in Questions
  BY PrefillIsQuestion
<1> HIDE DEF q
<1>3. /\ fields' \in Questions /\ verdict' = None /\ touched' = TRUE
      /\ accepts' \in [Fields -> Workloads \cup {""}]
      /\ S \in SUBSET Asks /\ SameBut(asks, S, "accepts")
      /\ PanelFits(fields', verdict', running', touched', accepts', S)
  BY <1>1, <1>2, Facts, Resetting
<1> HIDE DEF S
<1>4. asks' \in SUBSET Asks /\ SameBut(S, asks', "nodes")
  <2> DEFINE a == Live("nodes", None)
  <2>1. a \in Asks /\ a.of = "nodes"
    BY DEF Live, Asks
  <2>2. asks' \subseteq S \cup {a} /\ S \subseteq asks'
    BY <1>1
  <2> HIDE DEF a
  <2> QED BY <1>3, <2>1, <2>2 DEF SameBut
<1>5. PanelFits(fields', verdict', running', touched', accepts', asks')
  BY <1>3, <1>4, PanelCarried
<1>6. DetailsFit(node, asks') /\ RulesFit(edge, asks')
  BY <1>3, <1>4, Facts, SelectionCarried
<1>7. {open', suggested', running', touched'} \subseteq BOOLEAN /\ lists' \subseteq Fields
  BY <1>1, <1>3, Facts
<1> QED BY <1>1, <1>3, <1>4, <1>5, <1>6, <1>7, Facts, ClickCounts, DialogKeeps

LEMMA CloseSimulateKeeps == ASSUME Inv, CloseSimulate PROVE Inv'
<1>1. /\ Click /\ open' = FALSE /\ lists' = {} /\ asks' = Cancel(asks, "nodes")
      /\ UNCHANGED <<node, edge, inspector, rules>>
      /\ suggested' = suggested /\ running' = running /\ touched' = touched
      /\ fields' = fields /\ verdict' = verdict /\ accepts' = accepts
  BY DEF CloseSimulate
<1>2. asks' \in SUBSET Asks /\ SameBut(asks, asks', "nodes")
  BY <1>1, Facts, Cancelling DEF Kinds
<1>3. PanelFits(fields', verdict', running', touched', accepts', asks')
  <2>1. PanelFits(fields, verdict, running, touched, accepts, asks')
    BY <1>2, Facts, PanelCarried
  <2> QED BY <1>1, <2>1
<1>4. DetailsFit(node, asks') /\ RulesFit(edge, asks')
  BY <1>2, Facts, SelectionCarried
<1> QED BY <1>1, <1>2, <1>3, <1>4, Facts, ClickCounts, DialogKeeps

\* The edge is given up, and perhaps the node; S is asks, or asks with the
\* suggestions cancelled.
LEMMA DeselectingKeeps ==
  ASSUME Inv, NEW n, NodeTyped(n, rev), NEW S \in SUBSET Asks, SameBut(asks, S, "nodes"),
         Deselecting(n, S), Click, suggested' = suggested, running' = running,
         open' \in BOOLEAN, lists' \subseteq Fields
  PROVE  Inv'
<1>1. /\ PanelFits(fields, verdict, running, touched, accepts, S)
      /\ DetailsFit(node, S) /\ RulesFit(edge, S)
  <2>1. PanelFits(fields, verdict, running, touched, accepts, S)
    BY Facts, PanelCarried
  <2>2. DetailsFit(node, S) /\ RulesFit(edge, S)
    BY Facts, SelectionCarried
  <2> QED BY <2>1, <2>2
<1>2. node' = n /\ edge' = None /\ rules' = rules
  BY DEF Deselecting
<1>3. EdgeTyped(None, rev) /\ rev' = rev
  BY DEF EdgeTyped, Click
<1>4. /\ asks' \in SUBSET Asks
      /\ DetailsFit(n, asks') /\ DetailShown(n, detail', failed') /\ RulesFit(None, asks')
      /\ detail' \in Workloads \cup {""} /\ failed' \in BOOLEAN /\ loading' \in BOOLEAN
      /\ PanelFits(fields', verdict', running', touched', accepts', asks')
      /\ fields' \in Questions /\ verdict' \in Verdicts \cup {None, Refusal}
      /\ accepts' \in [Fields -> Workloads \cup {""}] /\ touched' \in BOOLEAN
  <2>1. CASE open' /\ <<n, None>> # <<node, edge>>
    <3> DEFINE q == Prefill(n, None)
               T == AcceptsAsked(q, None, S)
    <3>1. ResetTo(q) /\ InspectEffect(n, RulesAsked(None, T))
      BY <2>1 DEF Deselecting
    <3>2. q \in Questions
      BY PrefillIsQuestion
    <3> HIDE DEF q
    <3>3. /\ fields' \in Questions /\ verdict' = None /\ touched' = TRUE
          /\ accepts' \in [Fields -> Workloads \cup {""}]
          /\ T \in SUBSET Asks /\ SameBut(S, T, "accepts")
          /\ PanelFits(fields', verdict', running, touched', accepts', T)
      BY <1>1, <3>1, <3>2, Facts, Resetting
    <3> HIDE DEF T
    <3>4. DetailsFit(node, T) /\ RulesFit(edge, T)
      BY <1>1, <3>3, SelectionCarried
    <3>5. /\ asks' \in SUBSET Asks
          /\ DetailsFit(n, asks') /\ DetailShown(n, detail', failed') /\ RulesFit(None, asks')
          /\ detail' \in Workloads \cup {""} /\ failed' \in BOOLEAN /\ loading' \in BOOLEAN
          /\ PanelFits(fields', verdict', running, touched', accepts', asks')
      BY <1>3, <3>1, <3>3, <3>4, SelectionChanges
    <3> QED BY <3>3, <3>5
  <2>2. CASE ~(open' /\ <<n, None>> # <<node, edge>>)
    <3>1. /\ InspectEffect(n, RulesAsked(None, S))
          /\ fields' = fields /\ verdict' = verdict /\ accepts' = accepts /\ touched' = touched
      BY <2>2 DEF Deselecting
    <3>2. /\ asks' \in SUBSET Asks
          /\ DetailsFit(n, asks') /\ DetailShown(n, detail', failed') /\ RulesFit(None, asks')
          /\ detail' \in Workloads \cup {""} /\ failed' \in BOOLEAN /\ loading' \in BOOLEAN
          /\ PanelFits(fields, verdict, running, touched, accepts, asks')
      BY <1>1, <1>3, <3>1, SelectionChanges
    <3> QED BY <3>1, <3>2, Facts
  <2> QED BY <2>1, <2>2
<1>5. RulesShown(None, rules') /\ rules' \in {"null", "some", "none", "failed"}
  BY <1>2, Facts DEF RulesShown, TypeOK
<1>6. {open', suggested', running', touched'} \subseteq BOOLEAN
  BY <1>4, Facts
<1>7. NodeTyped(node', rev') /\ EdgeTyped(edge', rev')
  BY <1>2, <1>3
<1> QED BY <1>2, <1>4, <1>5, <1>6, <1>7, Facts, ClickCounts, Assembled

LEMMA EscapeKeeps == ASSUME Inv, NEW typing \in BOOLEAN, Escape(typing) PROVE Inv'
<1> DEFINE S == IF lists = {} THEN Cancel(asks, "nodes") ELSE asks
           n == IF typing THEN node ELSE None
<1>1. /\ Click /\ lists' = {} /\ open' = (lists # {})
      /\ suggested' = suggested /\ running' = running /\ Deselecting(n, S)
  BY DEF Escape
<1>2. S \in SUBSET Asks /\ SameBut(asks, S, "nodes")
  <2>1. CASE lists = {}
    BY <2>1, Facts, Cancelling DEF Kinds
  <2>2. CASE lists # {}
    BY <2>2, Facts DEF SameBut
  <2> QED BY <2>1, <2>2
<1>3. NodeTyped(n, rev)
  BY Facts, SelectionTyped
<1>4. open' \in BOOLEAN /\ lists' \subseteq Fields
  BY <1>1
<1> HIDE DEF S, n
<1> QED BY <1>1, <1>2, <1>3, <1>4, DeselectingKeeps

\* The lists alone.
LEMMA ListsKeep ==
  ASSUME Inv, Click, lists' \subseteq Fields,
         UNCHANGED <<node, edge, inspector, rules, open, suggested, fields, verdict, running,
                     accepts, asks, touched>>
  PROVE  Inv'
<1>1. PanelFits(fields', verdict', running', touched', accepts', asks')
  BY Facts
<1> QED BY <1>1, Facts, ClickCounts, DialogKeeps

LEMMA FocusFieldKeeps == ASSUME Inv, NEW f \in Fields, FocusField(f) PROVE Inv'
  BY ListsKeep, Facts DEF FocusField

LEMMA PressKeeps == ASSUME Inv, NEW f, Press(f) PROVE Inv'
<1>1. /\ Click /\ suggested' = suggested /\ running' = running /\ open' = open
      /\ lists' = {f} \cap Fields /\ Deselecting(node, asks)
  BY DEF Press
<1>2. asks \in SUBSET Asks /\ SameBut(asks, asks, "nodes") /\ NodeTyped(node, rev)
  BY Facts, SelectionTyped DEF SameBut
<1>3. open' \in BOOLEAN /\ lists' \subseteq Fields
  BY <1>1, Facts
<1> QED BY <1>1, <1>2, <1>3, DeselectingKeeps

LEMMA SetFieldKeeps ==
  ASSUME Inv, Click, NEW f \in Fields, NEW e \in Endpoints, SetField(f, e), lists' \subseteq Fields
  PROVE  Inv'
<1>1. /\ touched' = TRUE
      /\ UNCHANGED <<node, edge, inspector, rules, open, suggested, verdict, running, accepts>>
  BY DEF SetField
<1>2. /\ asks' \in SUBSET Asks /\ fields' \in Questions /\ SameBut(asks, asks', "accepts")
      /\ PanelFits(fields', verdict', running', touched', accepts', asks')
  BY SettingField
<1>3. DetailsFit(node, asks') /\ RulesFit(edge, asks')
  BY <1>2, Facts, SelectionCarried
<1> QED BY <1>1, <1>2, <1>3, Facts, ClickCounts, DialogKeeps

LEMMA TypeKeeps == ASSUME Inv, NEW f \in Fields, NEW e \in Endpoints, Type(f, e) PROVE Inv'
  BY SetFieldKeeps, Facts DEF Type

LEMMA PickKeeps == ASSUME Inv, NEW f \in Fields, NEW w \in Workloads, Pick(f, w) PROVE Inv'
<1>1. w \in Endpoints
  BY DEF Endpoints
<1> QED BY <1>1, SetFieldKeeps, Facts DEF Pick

LEMMA CheckKeeps == ASSUME Inv, Check PROVE Inv'
<1> DEFINE a == Live("check", fields)
<1>1. /\ Click /\ ~running /\ running' = TRUE /\ touched' = FALSE /\ asks' = asks \cup {a}
      /\ verdict' = IF verdict = Refusal THEN None ELSE verdict
      /\ UNCHANGED <<node, edge, inspector, rules, open, lists, suggested, fields, accepts>>
  BY DEF Check, Run
<1>2. a \in Asks /\ a.of = "check" /\ a.about = fields
  BY Facts DEF Live, Asks
<1> HIDE DEF a
<1>3. asks' \in SUBSET Asks /\ SameBut(asks, asks', "check")
  BY <1>1, <1>2, Facts DEF SameBut
<1>4. \A b \in asks : b.of # "check"
  BY <1>1, Facts DEF PanelFits, ChecksFit
<1>5. verdict' \in Verdicts <=> verdict \in Verdicts
  BY <1>1, NoVerdictYet
<1>6. verdict \in Verdicts => verdict' = verdict
  BY <1>1, NoVerdictYet
<1>7. AcceptsFit(fields, verdict', asks')
  BY <1>3, <1>6, Facts DEF AcceptsFit, PanelFits, SameBut
<1>8. LinesFit(fields, verdict', accepts, asks')
  BY <1>3, <1>5, <1>6, Facts DEF LinesFit, NoneLive, PanelFits, SameBut
<1>9. ChecksFit(fields, running', touched', asks')
  BY <1>1, <1>2, <1>4 DEF ChecksFit
<1>10. PanelFits(fields', verdict', running', touched', accepts', asks')
  BY <1>1, <1>7, <1>8, <1>9 DEF PanelFits
<1>11. DetailsFit(node, asks') /\ RulesFit(edge, asks')
  BY <1>3, Facts, SelectionCarried
<1>12. verdict' \in Verdicts \cup {None, Refusal}
  BY <1>1, Facts
<1> QED BY <1>1, <1>3, <1>10, <1>11, <1>12, Facts, ClickCounts, DialogKeeps

-----------------------------------------------------------------------------
(* The answers.                                                                *)

LEMMA NoClick ==
  ASSUME TypeOK, rev' = rev, clicks' = clicks
  PROVE  rev' \in 0..MaxRev /\ rev <= rev' /\ clicks' \in 0..MaxClicks
<1>1. MaxRev \in Nat /\ rev \in 0..MaxRev /\ clicks \in 0..MaxClicks
  BY PanelsAssumption DEF TypeOK
<1> QED BY <1>1

\* Fewer requests, when none that brings a verdict or its lines is gone.
LEMMA Settling ==
  ASSUME Inv, NEW a \in asks, Settle(a), a.of = "accepts" => ~a.live, a.of # "check"
  PROVE  /\ asks' \in SUBSET Asks
         /\ DetailsFit(node, asks') /\ RulesFit(edge, asks')
         /\ PanelFits(fields, verdict, running, touched, accepts, asks')
         /\ node' = node /\ edge' = edge
         /\ rev' \in 0..MaxRev /\ rev <= rev' /\ clicks' \in 0..MaxClicks
<1>1. /\ asks' = asks \ {a} /\ rev' = rev /\ clicks' = clicks /\ node' = node /\ edge' = edge
  BY DEF Settle
<1>2. DetailsFit(node, asks') /\ RulesFit(edge, asks')
  BY <1>1, Facts DEF DetailsFit, RulesFit
<1>3. AcceptsFit(fields, verdict, asks')
  BY <1>1, Facts DEF PanelFits, AcceptsFit
<1>4. LinesFit(fields, verdict, accepts, asks')
  <2>1. NoneLive(asks', "accepts") => NoneLive(asks, "accepts")
    BY <1>1 DEF NoneLive
  <2> QED BY <2>1, Facts DEF PanelFits, LinesFit
<1>5. ChecksFit(fields, running, touched, asks')
  BY <1>1, Facts DEF PanelFits, ChecksFit
<1>6. PanelFits(fields, verdict, running, touched, accepts, asks')
  BY <1>3, <1>4, <1>5, Facts DEF PanelFits
<1> QED BY <1>1, <1>2, <1>6, Facts, NoClick

LEMMA DroppedKeeps == ASSUME Inv, NEW a \in asks, Dropped(a) PROVE Inv'
<1>1. /\ Settle(a) /\ ~a.live /\ UNCHANGED <<inspector, rules>>
      /\ open' = open /\ lists' = lists /\ suggested' = suggested /\ running' = running
      /\ fields' = fields /\ verdict' = verdict /\ accepts' = accepts /\ touched' = touched
  BY DEF Dropped, panel
<1>2. a.of # "check"
  BY <1>1, Facts, AskKinds
<1>3. PanelFits(fields', verdict', running', touched', accepts', asks')
  BY <1>1, <1>2, Settling
<1> QED BY <1>1, <1>2, <1>3, Facts, Settling, DialogKeeps

LEMMA SettleDetailKeeps == ASSUME Inv, NEW a \in asks, NEW ok \in BOOLEAN, SettleDetail(a, ok) PROVE Inv'
<1>1. /\ Settle(a) /\ a.of = "detail" /\ a.live
      /\ detail' = IF ok THEN a.about.node ELSE detail
      /\ failed' = ~ok /\ loading' = FALSE /\ rules' = rules
      /\ open' = open /\ lists' = lists /\ suggested' = suggested /\ running' = running
      /\ fields' = fields /\ verdict' = verdict /\ accepts' = accepts /\ touched' = touched
  BY DEF SettleDetail, panel
<1>2. node # None /\ node[1] = a.about.node /\ a.about.node \in Workloads
  BY <1>1, Facts, AskKinds DEF DetailsFit
<1>3. DetailShown(node, detail, failed) /\ detail \in Workloads \cup {""}
  BY DEF Inv, TypeOK
<1>4. DetailShown(node, detail', failed')
  BY <1>1, <1>2, <1>3 DEF DetailShown
<1>5. detail' \in Workloads \cup {""}
  BY <1>1, <1>2, <1>3
<1>6. PanelFits(fields', verdict', running', touched', accepts', asks')
  BY <1>1, Settling
<1>7. RulesShown(edge, rules') /\ rules' \in {"null", "some", "none", "failed"}
  BY <1>1 DEF Inv, TypeOK
<1> QED BY <1>1, <1>4, <1>5, <1>6, <1>7, Facts, Settling, SelectionStays

LEMMA SettleRulesKeeps == ASSUME Inv, NEW a \in asks, NEW ok \in BOOLEAN, SettleRules(a, ok) PROVE Inv'
<1>1. /\ Settle(a) /\ a.of = "rules" /\ a.live
      /\ rules' = IF ~ok THEN "failed" ELSE IF a.about.edge \in Declared THEN "some" ELSE "none"
      /\ detail' = detail /\ failed' = failed /\ loading' = loading
      /\ open' = open /\ lists' = lists /\ suggested' = suggested /\ running' = running
      /\ fields' = fields /\ verdict' = verdict /\ accepts' = accepts /\ touched' = touched
  BY DEF SettleRules, panel, inspector
<1>2. edge # None /\ edge[1] = a.about.edge
  BY <1>1, Facts DEF RulesFit
<1>3. RulesShown(edge, rules') /\ rules' \in {"null", "some", "none", "failed"}
  BY <1>1, <1>2 DEF RulesShown
<1>4. PanelFits(fields', verdict', running', touched', accepts', asks')
  BY <1>1, Settling
<1>5. /\ DetailShown(node, detail', failed') /\ detail' \in Workloads \cup {""}
      /\ failed' \in BOOLEAN /\ loading' \in BOOLEAN
  BY <1>1 DEF Inv, TypeOK
<1> QED BY <1>1, <1>3, <1>4, <1>5, Facts, Settling, SelectionStays

LEMMA SettleNodesKeeps == ASSUME Inv, NEW a \in asks, NEW ok \in BOOLEAN, SettleNodes(a, ok) PROVE Inv'
<1>1. /\ Settle(a) /\ a.of = "nodes" /\ suggested' = ok
      /\ UNCHANGED <<inspector, rules, open, lists, fields, verdict, running, accepts, touched>>
  BY DEF SettleNodes
<1>2. PanelFits(fields', verdict', running', touched', accepts', asks')
  BY <1>1, Settling
<1> QED BY <1>1, <1>2, Facts, Settling, DialogKeeps

LEMMA SettleCheckKeeps ==
  ASSUME Inv, NEW a \in asks, NEW v \in Verdicts \cup {Refusal}, SettleCheck(a, v) PROVE Inv'
<1> DEFINE S == asks \ {a}
<1>1. /\ a.of = "check" /\ (v \in Verdicts => v.about = a.about)
      /\ verdict' = v /\ running' = FALSE /\ AcceptsShown(v)
      /\ asks' = AcceptsAsked(fields, v, S)
      /\ rev' = rev /\ clicks' = clicks
      /\ UNCHANGED <<node, edge, inspector, rules, open, lists, suggested, fields, touched>>
  BY DEF SettleCheck
<1>2. S \in SUBSET Asks /\ DetailsFit(node, S) /\ RulesFit(edge, S)
  BY Facts DEF DetailsFit, RulesFit
<1>3. \A b \in S : b.of # "check"
  BY <1>1, Facts DEF PanelFits, ChecksFit
<1>4. ~touched => a.about = fields
  BY <1>1, Facts DEF PanelFits, ChecksFit
<1> HIDE DEF S
<1>5. /\ asks' \in SUBSET Asks /\ SameBut(S, asks', "accepts")
      /\ AcceptsFit(fields, v, asks')
      /\ NoneLive(asks', "accepts") <=> v \notin Verdicts
  BY <1>1, <1>2, Facts, AskingAccepts
<1>6. accepts' \in [Fields -> Workloads \cup {""}] /\ (v \notin Verdicts => \A f \in Fields : accepts'[f] = "")
  BY <1>1, Facts DEF AcceptsShown
<1>7. LinesFit(fields, v, accepts', asks')
  BY <1>5, <1>6 DEF LinesFit
<1>8. ChecksFit(fields, FALSE, touched, asks')
  BY <1>3, <1>5 DEF ChecksFit, SameBut
<1>9. PanelFits(fields', verdict', running', touched', accepts', asks')
  BY <1>1, <1>4, <1>5, <1>7, <1>8 DEF PanelFits
<1>10. DetailsFit(node, asks') /\ RulesFit(edge, asks')
  BY <1>2, <1>5, SelectionCarried
<1>11. rev' \in 0..MaxRev /\ rev <= rev' /\ clicks' \in 0..MaxClicks
  BY <1>1, Facts, NoClick
<1> QED BY <1>1, <1>5, <1>6, <1>9, <1>10, <1>11, Facts, DialogKeeps

LEMMA SettleAcceptsKeeps ==
  ASSUME Inv, NEW a \in asks, NEW ok \in SUBSET Fields, SettleAccepts(a, ok) PROVE Inv'
<1>1. /\ asks' = asks \ {a} /\ rev' = rev /\ clicks' = clicks
      /\ a.of = "accepts" /\ a.live
      /\ accepts' = [f \in Fields |-> IF f \in a.about.denied \cap ok
                                      THEN Picked(a.about.about[f]) ELSE ""]
      /\ UNCHANGED <<node, edge, inspector, rules, open, lists, suggested, fields, verdict, running,
                     touched>>
  BY DEF SettleAccepts, Settle
<1>2. /\ verdict \in Verdicts /\ a.about.denied = verdict.denied
      /\ \A f \in Fields : Picked(a.about.about[f]) = Picked(fields[f])
  BY <1>1, Facts DEF PanelFits, AcceptsFit
<1>3. \A f \in Fields : /\ accepts'[f] \in Workloads \cup {""}
                        /\ accepts'[f] # "" => f \in verdict.denied /\ accepts'[f] = fields[f]
  BY <1>1, <1>2 DEF Picked
<1>4. AcceptsFit(fields, verdict, asks')
  BY <1>1, Facts DEF PanelFits, AcceptsFit
<1>5. LinesFit(fields, verdict, accepts', asks')
  BY <1>2, <1>3 DEF LinesFit
<1>6. ChecksFit(fields, running, touched, asks')
  BY <1>1, Facts DEF PanelFits, ChecksFit
<1>7. PanelFits(fields', verdict', running', touched', accepts', asks')
  BY <1>1, <1>4, <1>5, <1>6, Facts DEF PanelFits
<1>8. asks' \in SUBSET Asks /\ DetailsFit(node, asks') /\ RulesFit(edge, asks')
  BY <1>1, Facts DEF DetailsFit, RulesFit
<1>9. accepts' \in [Fields -> Workloads \cup {""}]
  BY <1>1, <1>3
<1>10. rev' \in 0..MaxRev /\ rev <= rev' /\ clicks' \in 0..MaxClicks
  BY <1>1, Facts, NoClick
<1> QED BY <1>1, <1>7, <1>8, <1>9, <1>10, Facts, DialogKeeps

LEMMA AnswerKeeps == ASSUME Inv, NEW a \in asks, Answer(a) PROVE Inv'
<1>1. CASE Dropped(a)
  BY <1>1, DroppedKeeps
<1>2. ASSUME NEW ok \in BOOLEAN, SettleDetail(a, ok) \/ SettleRules(a, ok) \/ SettleNodes(a, ok)
      PROVE  Inv'
  BY <1>2, SettleDetailKeeps, SettleRulesKeeps, SettleNodesKeeps
<1>3. ASSUME NEW d \in SUBSET Fields, SettleCheck(a, [about |-> a.about, denied |-> d])
      PROVE  Inv'
  <2>1. a.of = "check" /\ a \in Asks
    BY <1>3, Facts DEF SettleCheck
  <2>2. [about |-> a.about, denied |-> d] \in Verdicts
    BY <2>1, AskKinds DEF Verdicts
  <2> QED BY <1>3, <2>2, SettleCheckKeeps
<1>4. CASE SettleCheck(a, Refusal)
  BY <1>4, SettleCheckKeeps
<1>5. ASSUME NEW ok \in SUBSET Fields, SettleAccepts(a, ok)
      PROVE  Inv'
  BY <1>5, SettleAcceptsKeeps
<1> QED BY <1>1, <1>2, <1>3, <1>4, <1>5 DEF Answer

LEMMA InvInit == ASSUME Init PROVE Inv
<1>1. fields \in Questions /\ accepts \in [Fields -> Workloads \cup {""}]
  BY DEF Init, Questions, Endpoints
<1>2. rev \in 0..MaxRev /\ clicks \in 0..MaxClicks
  <2>1. MaxRev \in Nat /\ MaxClicks \in Nat
    BY PanelsAssumption
  <2>2. rev = 0 /\ clicks = 0
    BY DEF Init
  <2> QED BY <2>1, <2>2
<1>3. TypeOK
  BY <1>1, <1>2 DEF Init, TypeOK
<1>4. DetailsFit(node, asks) /\ DetailShown(node, detail, failed) /\ RulesFit(edge, asks) /\ RulesShown(edge, rules)
  BY DEF Init, DetailsFit, DetailShown, RulesFit, RulesShown
<1>5. PanelFits(fields, verdict, running, touched, accepts, asks)
  BY NoVerdictYet DEF Init, PanelFits, AcceptsFit, LinesFit, ChecksFit
<1> QED BY <1>3, <1>4, <1>5 DEF Inv

LEMMA InvNext == ASSUME Inv, [Next]_vars PROVE Inv'
<1>1. ASSUME NEW id \in Workloads \cup Cards, SelectNode(id) PROVE Inv'
  BY <1>1, SelectNodeKeeps
<1>2. ASSUME NEW l \in Links, SelectEdge(l) PROVE Inv'
  BY <1>2, SelectEdgeKeeps
<1>3. CASE ClearSelection
  BY <1>3, ClearSelectionKeeps
<1>4. CASE OpenTarget
  BY <1>4, OpenTargetKeeps
<1>5. CASE Push
  BY <1>5, PushKeeps
<1>6. CASE OpenSimulate
  BY <1>6, OpenSimulateKeeps
<1>7. CASE CloseSimulate
  BY <1>7, CloseSimulateKeeps
<1>8. ASSUME NEW typing \in BOOLEAN, Escape(typing) PROVE Inv'
  BY <1>8, EscapeKeeps
<1>9. ASSUME NEW f \in Fields, FocusField(f) PROVE Inv'
  BY <1>9, FocusFieldKeeps
<1>10. ASSUME NEW f \in Fields, NEW e \in Endpoints, Type(f, e) PROVE Inv'
  BY <1>10, TypeKeeps
<1>11. ASSUME NEW f \in Fields \cup {"neither"}, Press(f) PROVE Inv'
  BY <1>11, PressKeeps
<1>12. ASSUME NEW f \in Fields, NEW w \in Workloads, Pick(f, w) PROVE Inv'
  BY <1>12, PickKeeps
<1>13. CASE Check
  BY <1>13, CheckKeeps
<1>14. ASSUME NEW a \in asks, Answer(a) PROVE Inv'
  BY <1>14, AnswerKeeps
<1>15. CASE UNCHANGED vars
  <2>1. /\ UNCHANGED <<rev, node, edge, detail, failed, loading, rules, open, lists, suggested,
                       fields, verdict, running, accepts, asks, touched, clicks>>
    BY <1>15 DEF vars
  <2>2. PanelFits(fields', verdict', running', touched', accepts', asks')
    BY <2>1, Facts
  <2>3. UNCHANGED inspector
    BY <2>1 DEF inspector
  <2> QED BY <2>1, <2>2, <2>3, Facts, NoClick, DialogKeeps
<1> QED
  BY <1>1, <1>2, <1>3, <1>4, <1>5, <1>6, <1>7, <1>8, <1>9, <1>10, <1>11, <1>12, <1>13, <1>14, <1>15
  DEF Next

LEMMA InvFits == ASSUME Inv PROVE TypeOK /\ AnswersFit
<1>1. PanelsShowTheSelection
  BY DEF Inv, PanelsShowTheSelection, DetailShown, RulesShown
<1>2. AnswersFitTheirQuestion
  BY DEF Inv, AnswersFitTheirQuestion, PanelFits, LinesFit, NoneLive
<1> QED BY <1>1, <1>2 DEF Inv, AnswersFit

\* The panels keep their types, and the dialog says that a check is running
\* exactly while one is under way, for any workloads, edges and number of events
\* (SimulatePanel.tsx:540-566).
THEOREM TypeCorrect == Spec => []TypeOK
<1>1. Init => Inv
  BY InvInit
<1>2. Inv /\ [Next]_vars => Inv'
  BY InvNext
<1>3. Inv => TypeOK
  BY InvFits
<1> QED BY <1>1, <1>2, <1>3, PTL DEF Spec

\* What inspector, popover and dialog show is about what is selected and asked,
\* in whatever order answers, failures, live graphs and the viewer come: every
\* request that is not cancelled is about what is selected and in the fields now
\* (Inspector.tsx:485-494, EdgePopover.tsx:42-51, SimulatePanel.tsx:540-614).
THEOREM PanelsFit == Spec => []AnswersFit
<1>1. Init => Inv
  BY InvInit
<1>2. Inv /\ [Next]_vars => Inv'
  BY InvNext
<1>3. Inv => AnswersFit
  BY InvFits
<1> QED BY <1>1, <1>2, <1>3, PTL DEF Spec

LEMMA FieldsChange ==
  ASSUME Inv, [Next]_vars, fields' # fields
  PROVE  clicks' # clicks \/ node # None \/ edge # None
<1>1. ASSUME Click PROVE clicks' # clicks
  <2>1. clicks \in 0..MaxClicks /\ MaxClicks \in Nat
    BY PanelsAssumption DEF Inv, TypeOK
  <2> QED BY <1>1, <2>1 DEF Click
<1>2. ASSUME Push PROVE node # None \/ edge # None
  <2>1. CASE open /\ PrefillFollows(node, edge)
    BY <2>1 DEF PrefillFollows
  <2>2. CASE ~(open /\ PrefillFollows(node, edge))
    BY <1>2, <2>2 DEF Push, panel
  <2> QED BY <2>1, <2>2
<1>3. ASSUME NEW a \in asks, Answer(a) PROVE FALSE
  BY <1>3 DEF Answer, Dropped, SettleDetail, SettleRules, SettleNodes, SettleCheck, SettleAccepts, panel
<1>4. ~UNCHANGED vars
  BY DEF vars
<1>5. CASE \E id \in Workloads \cup Cards : SelectNode(id)
  BY <1>1, <1>5 DEF SelectNode
<1>6. CASE \E l \in Links : SelectEdge(l)
  BY <1>1, <1>6 DEF SelectEdge
<1>7. CASE ClearSelection \/ OpenTarget
  BY <1>1, <1>7 DEF ClearSelection, OpenTarget
<1>8. CASE OpenSimulate \/ CloseSimulate \/ \E typing \in BOOLEAN : Escape(typing)
  BY <1>1, <1>8 DEF OpenSimulate, CloseSimulate, Escape
<1>9. CASE \E f \in Fields : FocusField(f) \/ \E e \in Endpoints : Type(f, e)
  BY <1>1, <1>9 DEF FocusField, Type
<1>10. CASE \E f \in Fields \cup {"neither"} : Press(f)
  BY <1>1, <1>10 DEF Press
<1>11. CASE \E f \in Fields, w \in Workloads : Pick(f, w)
  BY <1>1, <1>11 DEF Pick
<1>12. CASE Check
  BY <1>1, <1>12 DEF Check, Run
<1> QED BY <1>2, <1>3, <1>4, <1>5, <1>6, <1>7, <1>8, <1>9, <1>10, <1>11, <1>12 DEF Next

\* Without a selection nothing but the viewer changes what is typed, whatever
\* answers and live graphs come (App.tsx:351-373, SimulatePanel.tsx:519-526).
THEOREM TypingKept == Spec => TypingIsKept
<1>1. Init => Inv
  BY InvInit
<1>2. Inv /\ [Next]_vars => Inv'
  BY InvNext
<1>3. Inv /\ [Next]_vars => [fields' # fields => clicks' # clicks \/ node # None \/ edge # None]_vars
  BY FieldsChange
<1> QED BY <1>1, <1>2, <1>3, PTL DEF Spec, TypingIsKept

-----------------------------------------------------------------------------
(* What a panel waits for. *)

\* Of a selected workload the inspector shows the skeleton, the detail or the error:
\* the skeleton exactly while a request that is not cancelled is under way for it.
DetailWaits(n, d, x, l, S) ==
  n # None /\ n[1] \in Workloads => /\ l <=> Live("detail", [node |-> n[1]]) \in S
                                    /\ l <=> d = "" /\ ~x

\* And the popover says nothing of the rules exactly while they are asked for.
RulesWait(e, r, S) ==
  e # None => (r = "null" <=> Live("rules", [edge |-> e[1]]) \in S)

EveryWaitIsAsked == DetailWaits(node, detail, failed, loading, asks) /\ RulesWait(edge, rules, asks)

\* S and T hold the same requests of inspector and popover that are not cancelled.
SameAsked(S, T) == \A a : a.of \in {"detail", "rules"} /\ a.live => (a \in S <=> a \in T)

\* What Live makes.
LEMMA LiveIsLive ==
  ASSUME NEW of, NEW about
  PROVE  Live(of, about).of = of /\ Live(of, about).live /\ Live(of, about).about = about
  BY DEF Live

\* What is waited for depends on those requests only.
LEMMA WaitsStay ==
  ASSUME NEW S, NEW T, SameAsked(S, T)
  PROVE  /\ \A n, d, x, l : DetailWaits(n, d, x, l, S) => DetailWaits(n, d, x, l, T)
         /\ \A e, r : RulesWait(e, r, S) => RulesWait(e, r, T)
<1>1. ASSUME NEW n, NEW d, NEW x, NEW l, DetailWaits(n, d, x, l, S) PROVE DetailWaits(n, d, x, l, T)
  <2> DEFINE a == Live("detail", [node |-> n[1]])
  <2>1. a.of = "detail" /\ a.live
    BY LiveIsLive
  <2>2. a \in S <=> a \in T
    BY <2>1 DEF SameAsked
  <2> HIDE DEF a
  <2> QED BY <1>1, <2>2 DEF DetailWaits, a
<1>2. ASSUME NEW e, NEW r, RulesWait(e, r, S) PROVE RulesWait(e, r, T)
  <2> DEFINE a == Live("rules", [edge |-> e[1]])
  <2>1. a.of = "rules" /\ a.live
    BY LiveIsLive
  <2>2. a \in S <=> a \in T
    BY <2>1 DEF SameAsked
  <2> HIDE DEF a
  <2> QED BY <1>2, <2>2 DEF RulesWait, a
<1> QED BY <1>1, <1>2

\* The requests of the dialog are of other kinds.
LEMMA AcceptsAside ==
  ASSUME NEW S \in SUBSET Asks, NEW q, NEW v
  PROVE  SameAsked(S, AcceptsAsked(q, v, S))
<1> DEFINE T == Cancel(S, "accepts")
<1>1. SameBut(S, T, "accepts")
  BY Cancelling DEF Kinds
<1> HIDE DEF T
<1>2. AcceptsAsked(q, v, S) \subseteq T \cup {Live("accepts", [about |-> q, denied |-> v.denied])}
      /\ T \subseteq AcceptsAsked(q, v, S)
  BY DEF AcceptsAsked, T
<1>3. \A a \in {Live("accepts", [about |-> q, denied |-> v.denied])} : a.of = "accepts"
  BY LiveIsLive
<1> QED BY <1>1, <1>2, <1>3 DEF SameAsked, SameBut

\* A step that leaves inspector, popover and their requests alone.
LEMMA WaitsElsewhere ==
  ASSUME EveryWaitIsAsked, UNCHANGED <<node, edge, inspector, rules>>, SameAsked(asks, asks')
  PROVE  EveryWaitIsAsked'
<1>1. /\ node' = node /\ edge' = edge /\ rules' = rules /\ detail' = detail
      /\ failed' = failed /\ loading' = loading
  BY DEF inspector
<1>2. DetailWaits(node, detail, failed, loading, asks') /\ RulesWait(edge, rules, asks')
  BY WaitsStay DEF EveryWaitIsAsked
<1> QED BY <1>1, <1>2 DEF EveryWaitIsAsked

\* The inspector's effect shows the skeleton and asks, or leaves a request it
\* finds.
LEMMA InspectingWaits ==
  ASSUME NEW S \in SUBSET Asks, NEW n, InspectEffect(n, S),
         DetailWaits(node, detail, failed, loading, S)
  PROVE  /\ DetailWaits(n, detail', failed', loading', asks')
         /\ \A e, r : RulesWait(e, r, S) => RulesWait(e, r, asks')
<1>1. CASE n = node
  BY <1>1 DEF InspectEffect, inspector
<1>2. CASE n # node
  <2> DEFINE T == Cancel(S, "detail")
  <2>1. SameBut(S, T, "detail") /\ NoneLive(T, "detail")
    BY Cancelling DEF Kinds
  <2> HIDE DEF T
  <2>2. detail' = "" /\ failed' = FALSE
    BY <1>2 DEF InspectEffect
  <2>3. \A a : a.of = "rules" => (a \in S <=> a \in asks')
    <3>1. asks' = T \/ asks' = T \cup {Live("detail", [node |-> n[1]])}
      BY <1>2 DEF InspectEffect, T
    <3>2. \A a \in {Live("detail", [node |-> n[1]])} : a.of = "detail"
      BY LiveIsLive
    <3> QED BY <2>1, <3>1, <3>2 DEF SameBut
  <2>4. ASSUME NEW e, NEW r, RulesWait(e, r, S) PROVE RulesWait(e, r, asks')
    <3> DEFINE a == Live("rules", [edge |-> e[1]])
    <3>1. a.of = "rules"
      BY LiveIsLive
    <3>2. a \in S <=> a \in asks'
      BY <2>3, <3>1
    <3> HIDE DEF a
    <3> QED BY <2>4, <3>2 DEF RulesWait, a
  <2>5. DetailWaits(n, detail', failed', loading', asks')
    <3>1. ASSUME n # None, n[1] \in Workloads
          PROVE  loading' = TRUE /\ Live("detail", [node |-> n[1]]) \in asks'
      BY <1>2, <3>1 DEF InspectEffect
    <3> QED BY <2>2, <3>1 DEF DetailWaits
  <2> QED BY <2>4, <2>5
<1> QED BY <1>1, <1>2

\* The popover's effect, in the same way.
LEMMA RulesAskedWait ==
  ASSUME NEW S \in SUBSET Asks, NEW e, Rules(e) \/ (rules' = rules /\ e = None),
         RulesWait(edge, rules, S)
  PROVE  /\ RulesWait(e, rules', RulesAsked(e, S))
         /\ \A n, d, x, l : DetailWaits(n, d, x, l, S) => DetailWaits(n, d, x, l, RulesAsked(e, S))
<1> DEFINE T == Cancel(S, "rules")
<1>1. T \in SUBSET Asks /\ SameBut(S, T, "rules") /\ NoneLive(T, "rules")
  BY Cancelling DEF Kinds
<1> HIDE DEF T
<1>2. RulesAsked(e, S) = T \cup (IF e = None THEN {} ELSE {Live("rules", [edge |-> e[1]])})
  BY DEF RulesAsked, T
<1>3. \A a : a.of = "detail" => (a \in S <=> a \in RulesAsked(e, S))
  <2>1. \A a \in {Live("rules", [edge |-> e[1]])} : a.of = "rules"
    BY LiveIsLive
  <2> QED BY <1>1, <1>2, <2>1 DEF SameBut
<1>4. ASSUME NEW n, NEW d, NEW x, NEW l, DetailWaits(n, d, x, l, S)
      PROVE  DetailWaits(n, d, x, l, RulesAsked(e, S))
  <2> DEFINE a == Live("detail", [node |-> n[1]])
  <2>1. a.of = "detail"
    BY LiveIsLive
  <2>2. a \in S <=> a \in RulesAsked(e, S)
    BY <1>3, <2>1
  <2> HIDE DEF a
  <2> QED BY <1>4, <2>2 DEF DetailWaits, a
<1>5. RulesWait(e, rules', RulesAsked(e, S))
  <2>1. ASSUME e # None PROVE rules' = "null" /\ Live("rules", [edge |-> e[1]]) \in RulesAsked(e, S)
    BY <1>2, <2>1 DEF Rules
  <2> QED BY <2>1 DEF RulesWait
<1> QED BY <1>4, <1>5

\* Both effects, over the requests S.
LEMMA SelectionWaits ==
  ASSUME Inv, EveryWaitIsAsked, NEW n, NEW e, EdgeTyped(e, rev),
         NEW S \in SUBSET Asks, SameAsked(asks, S), RulesFit(edge, S),
         Rules(e) \/ (rules' = rules /\ e = None), InspectEffect(n, RulesAsked(e, S)),
         node' = n, edge' = e
  PROVE  EveryWaitIsAsked'
<1>1. DetailWaits(node, detail, failed, loading, S) /\ RulesWait(edge, rules, S)
  BY WaitsStay DEF EveryWaitIsAsked
<1>2. /\ RulesWait(e, rules', RulesAsked(e, S))
      /\ DetailWaits(node, detail, failed, loading, RulesAsked(e, S))
  BY <1>1, RulesAskedWait
<1>3. RulesAsked(e, S) \in SUBSET Asks
  BY AskingRules
<1>4. DetailWaits(n, detail', failed', loading', asks') /\ RulesWait(e, rules', asks')
  BY <1>2, <1>3, InspectingWaits
<1> QED BY <1>4 DEF EveryWaitIsAsked

\* A selection, with the dialog open or not.
LEMMA SelectingWaits ==
  ASSUME Inv, EveryWaitIsAsked, NEW n, NEW e, EdgeTyped(e, rev), Selecting(n, e)
  PROVE  EveryWaitIsAsked'
<1>1. node' = n /\ edge' = e /\ Rules(e) /\ asks \in SUBSET Asks /\ RulesFit(edge, asks)
  BY Facts DEF Selecting
<1>2. CASE open /\ <<n, e>> # <<node, edge>>
  <2> DEFINE S == AcceptsAsked(Prefill(n, e), None, asks)
  <2>1. InspectEffect(n, RulesAsked(e, S))
    BY <1>2 DEF Selecting
  <2>2. S \in SUBSET Asks /\ SameAsked(asks, S) /\ SameBut(asks, S, "accepts")
    BY <1>1, PrefillIsQuestion, AskingAccepts, AcceptsAside
  <2> HIDE DEF S
  <2>3. RulesFit(edge, S)
    BY <1>1, <2>2, SelectionCarried
  <2> QED BY <1>1, <2>1, <2>2, <2>3, SelectionWaits
<1>3. CASE ~(open /\ <<n, e>> # <<node, edge>>)
  <2>1. InspectEffect(n, RulesAsked(e, asks))
    BY <1>3 DEF Selecting
  <2>2. SameAsked(asks, asks)
    BY DEF SameAsked
  <2> QED BY <1>1, <2>1, <2>2, SelectionWaits
<1> QED BY <1>2, <1>3

\* The viewer selects.
LEMMA ViewerSelects ==
  ASSUME Inv, EveryWaitIsAsked,
         \/ \E id \in Workloads \cup Cards : SelectNode(id)
         \/ \E l \in Links : SelectEdge(l)
         \/ ClearSelection
         \/ OpenTarget
  PROVE  EveryWaitIsAsked'
<1>1. rev \in 0..rev
  BY Facts
<1>2. PICK n, e : Selecting(n, e) /\ (e = None \/ \E l \in Links : e = <<l, rev>>)
  BY DEF SelectNode, SelectEdge, ClearSelection, OpenTarget
<1>3. EdgeTyped(e, rev)
  BY <1>1, <1>2 DEF EdgeTyped
<1> QED BY <1>2, <1>3, SelectingWaits

LEMMA DeselectingWaits ==
  ASSUME Inv, EveryWaitIsAsked, NEW n, NEW S \in SUBSET Asks, SameAsked(asks, S), RulesFit(edge, S),
         Deselecting(n, S)
  PROVE  EveryWaitIsAsked'
<1> DEFINE T == AcceptsAsked(Prefill(n, None), None, S)
<1>1. /\ node' = n /\ edge' = None /\ rules' = rules
      /\ InspectEffect(n, RulesAsked(None, T)) \/ InspectEffect(n, RulesAsked(None, S))
  BY DEF Deselecting
<1>2. T \in SUBSET Asks /\ SameAsked(asks, T) /\ RulesFit(edge, T)
  <2>1. T \in SUBSET Asks /\ SameAsked(S, T) /\ SameBut(S, T, "accepts")
    BY PrefillIsQuestion, AskingAccepts, AcceptsAside
  <2> HIDE DEF T
  <2>2. RulesFit(edge, T)
    BY <2>1, SelectionCarried
  <2> QED BY <2>1, <2>2 DEF SameAsked
<1> HIDE DEF T
<1>3. EdgeTyped(None, rev)
  BY DEF EdgeTyped
<1>4. CASE InspectEffect(n, RulesAsked(None, T))
  BY <1>1, <1>2, <1>3, <1>4, SelectionWaits
<1>5. CASE InspectEffect(n, RulesAsked(None, S))
  BY <1>1, <1>3, <1>5, SelectionWaits
<1> QED BY <1>1, <1>4, <1>5

\* Escape, which may close the dialog, clear the selection or do both, and a press.
LEMMA EscapeWaits ==
  ASSUME Inv, EveryWaitIsAsked,
         (\E typing \in BOOLEAN : Escape(typing)) \/ \E f \in Fields \cup {"neither"} : Press(f)
  PROVE  EveryWaitIsAsked'
<1> DEFINE S == Cancel(asks, "nodes")
<1>1. asks \in SUBSET Asks /\ RulesFit(edge, asks) /\ SameAsked(asks, asks)
  BY Facts DEF SameAsked
<1>2. S \in SUBSET Asks /\ SameBut(asks, S, "nodes")
  BY <1>1, Cancelling DEF Kinds
<1>3. RulesFit(edge, S) /\ SameAsked(asks, S)
  BY <1>1, <1>2, SelectionCarried DEF SameAsked, SameBut
<1>4. \E n : Deselecting(n, asks) \/ Deselecting(n, S)
  <2>1. ASSUME NEW typing \in BOOLEAN, Escape(typing) PROVE \E n : Deselecting(n, asks) \/ Deselecting(n, S)
    <3>1. Deselecting(IF typing THEN node ELSE None, IF lists = {} THEN S ELSE asks)
      BY <2>1 DEF Escape
    <3> HIDE DEF S
    <3> QED BY <3>1
  <2>2. ASSUME NEW f, Press(f) PROVE Deselecting(node, asks)
    BY <2>2 DEF Press
  <2> QED BY <2>1, <2>2
<1> HIDE DEF S
<1> QED BY <1>1, <1>2, <1>3, <1>4, DeselectingWaits

\* The dialog and the live graphs ask for nothing that inspector and popover wait
\* for.
LEMMA DialogWaits ==
  ASSUME Inv, EveryWaitIsAsked,
         \/ Push \/ OpenSimulate \/ CloseSimulate \/ Check
         \/ \E f \in Fields : FocusField(f) \/ \E e \in Endpoints : Type(f, e)
         \/ \E f \in Fields, w \in Workloads : Pick(f, w)
  PROVE  EveryWaitIsAsked'
<1>0. asks \in SUBSET Asks /\ SameAsked(asks, asks)
  BY Facts DEF SameAsked
<1>1. UNCHANGED <<node, edge, inspector, rules>>
  BY DEF Push, OpenSimulate, CloseSimulate, Check, Run, FocusField, Type, Pick, SetField
<1>2. \A q, v : SameAsked(asks, AcceptsAsked(q, v, asks))
  BY <1>0, AcceptsAside
<1>3. CASE Push
  BY <1>0, <1>1, <1>2, <1>3, WaitsElsewhere DEF Push
<1>4. CASE OpenSimulate
  <2> DEFINE T == AcceptsAsked(Prefill(node, edge), None, asks)
  <2>1. asks' = T \/ asks' = T \cup {Live("nodes", None)}
    BY <1>4 DEF OpenSimulate
  <2>2. SameAsked(asks, T)
    BY <1>2
  <2> HIDE DEF T
  <2>3. \A a \in {Live("nodes", None)} : a.of = "nodes"
    BY LiveIsLive
  <2>4. SameAsked(asks, asks')
    BY <2>1, <2>2, <2>3 DEF SameAsked
  <2> QED BY <1>1, <2>4, WaitsElsewhere
<1>5. CASE CloseSimulate
  <2>1. asks' = Cancel(asks, "nodes") /\ SameBut(asks, Cancel(asks, "nodes"), "nodes")
    BY <1>0, <1>5, Cancelling DEF CloseSimulate, Kinds
  <2>2. SameAsked(asks, asks')
    BY <2>1 DEF SameAsked, SameBut
  <2> QED BY <1>1, <2>2, WaitsElsewhere
<1>6. CASE Check
  <2>1. asks' = asks \cup {Live("check", fields)}
    BY <1>6 DEF Check, Run
  <2>2. \A a \in {Live("check", fields)} : a.of = "check"
    BY LiveIsLive
  <2>3. SameAsked(asks, asks')
    BY <2>1, <2>2 DEF SameAsked
  <2> QED BY <1>1, <2>3, WaitsElsewhere
<1>7. ASSUME NEW f, NEW e, SetField(f, e) PROVE EveryWaitIsAsked'
  <2>1. asks' = asks \/ \E q, v : asks' = AcceptsAsked(q, v, asks)
    BY <1>7 DEF SetField
  <2>2. SameAsked(asks, asks')
    BY <1>0, <1>2, <2>1
  <2> QED BY <1>1, <2>2, WaitsElsewhere
<1>8. ASSUME NEW f, FocusField(f) PROVE EveryWaitIsAsked'
  <2>1. asks' = asks
    BY <1>8 DEF FocusField
  <2> QED BY <1>0, <1>1, <2>1, WaitsElsewhere
<1> QED BY <1>3, <1>4, <1>5, <1>6, <1>7, <1>8 DEF Type, Pick

\* An answer ends the wait it was asked for, and no other.
LEMMA AnswerWaits ==
  ASSUME Inv, EveryWaitIsAsked, NEW a \in asks, Answer(a)
  PROVE  EveryWaitIsAsked'
<1>0. a \in Asks /\ asks \in SUBSET Asks
  BY Facts
<1>1. ASSUME asks' = asks \ {a}, a.of \notin {"detail", "rules"} \/ ~a.live PROVE SameAsked(asks, asks')
  BY <1>1 DEF SameAsked
<1>2. CASE Dropped(a)
  <2>1. asks' = asks \ {a} /\ ~a.live /\ UNCHANGED <<node, edge, inspector, rules>>
    BY <1>2 DEF Dropped, Settle
  <2> QED BY <1>1, <2>1, WaitsElsewhere
<1>3. ASSUME NEW ok \in BOOLEAN, SettleDetail(a, ok) PROVE EveryWaitIsAsked'
  <2>1. /\ asks' = asks \ {a} /\ a.of = "detail" /\ a.live
        /\ node' = node /\ edge' = edge /\ rules' = rules
        /\ detail' = (IF ok THEN a.about.node ELSE detail) /\ failed' = ~ok /\ loading' = FALSE
    BY <1>3 DEF SettleDetail, Settle
  <2>2. node # None /\ node[1] = a.about.node /\ a.about.node \in Workloads /\ "" \notin Workloads
    BY <2>1, <1>0, AskKinds, Facts, PanelsAssumption DEF DetailsFit
  <2>3. a = Live("detail", [node |-> node[1]])
    BY <1>0, <2>1, <2>2 DEF Live, Asks
  <2>4. DetailWaits(node, detail', failed', loading', asks')
    <3>1. Live("detail", [node |-> node[1]]) \notin asks'
      BY <2>1, <2>3
    <3>2. ~(detail' = "" /\ ~failed')
      BY <2>1, <2>2
    <3> QED BY <2>1, <3>1, <3>2 DEF DetailWaits
  <2>5. RulesWait(edge, rules, asks')
    <3>1. Live("rules", [edge |-> edge[1]]) # a
      BY <2>1, LiveIsLive
    <3> QED BY <2>1, <3>1 DEF RulesWait, EveryWaitIsAsked
  <2> QED BY <2>1, <2>4, <2>5 DEF EveryWaitIsAsked
<1>4. ASSUME NEW ok \in BOOLEAN, SettleRules(a, ok) PROVE EveryWaitIsAsked'
  <2>1. /\ asks' = asks \ {a} /\ a.of = "rules" /\ a.live
        /\ node' = node /\ edge' = edge /\ rules' \in {"failed", "some", "none"}
        /\ detail' = detail /\ failed' = failed /\ loading' = loading
    BY <1>4 DEF SettleRules, Settle, inspector
  <2>2. edge # None /\ edge[1] = a.about.edge
    BY <2>1, Facts DEF RulesFit
  <2>3. a = Live("rules", [edge |-> edge[1]])
    BY <1>0, <2>1, <2>2 DEF Live, Asks
  <2>4. RulesWait(edge, rules', asks')
    BY <2>1, <2>3 DEF RulesWait
  <2>5. DetailWaits(node, detail, failed, loading, asks')
    <3>1. Live("detail", [node |-> node[1]]) # a
      BY <2>1, LiveIsLive
    <3> QED BY <2>1, <3>1 DEF DetailWaits, EveryWaitIsAsked
  <2> QED BY <2>1, <2>4, <2>5 DEF EveryWaitIsAsked
<1>5. ASSUME NEW ok, SettleNodes(a, ok) \/ SettleAccepts(a, ok) PROVE EveryWaitIsAsked'
  <2>1. asks' = asks \ {a} /\ a.of \in {"nodes", "accepts"} /\ UNCHANGED <<node, edge, inspector, rules>>
    BY <1>5 DEF SettleNodes, SettleAccepts, Settle
  <2> QED BY <1>1, <2>1, WaitsElsewhere
<1>6. ASSUME NEW v, SettleCheck(a, v) PROVE EveryWaitIsAsked'
  <2>1. /\ asks' = AcceptsAsked(fields, v, asks \ {a}) /\ a.of = "check"
        /\ UNCHANGED <<node, edge, inspector, rules>>
    BY <1>6 DEF SettleCheck
  <2>2. SameAsked(asks \ {a}, asks')
    BY <1>0, <2>1, AcceptsAside
  <2>3. SameAsked(asks, asks')
    BY <2>1, <2>2 DEF SameAsked
  <2> QED BY <2>1, <2>3, WaitsElsewhere
<1> QED BY <1>2, <1>3, <1>4, <1>5, <1>6 DEF Answer

\* Whatever is selected, typed and answered in whatever order: the inspector of a
\* workload is never blank and its skeleton never stands without a request for that
\* workload to end it, and the popover waits for its rules exactly while they are
\* asked for (Inspector.tsx:479-494, EdgePopover.tsx:42-51).  The safety part of
\* WorkloadsFinishLoading: the answer that ends the skeleton is on its way.
THEOREM WaitsAreAsked == Spec => []EveryWaitIsAsked
<1>1. Init => EveryWaitIsAsked
  BY DEF Init, EveryWaitIsAsked, DetailWaits, RulesWait
<1>2. Inv /\ EveryWaitIsAsked /\ [Next]_vars => EveryWaitIsAsked'
  <2> SUFFICES ASSUME Inv, EveryWaitIsAsked, [Next]_vars PROVE EveryWaitIsAsked'
    OBVIOUS
  <2>1. CASE UNCHANGED vars
    <3>1. SameAsked(asks, asks') /\ UNCHANGED <<node, edge, inspector, rules>>
      BY <2>1 DEF vars, inspector, SameAsked
    <3> QED BY <3>1, WaitsElsewhere
  <2> QED BY <2>1, ViewerSelects, EscapeWaits, DialogWaits, AnswerWaits DEF Next
<1>3. Init => Inv
  BY InvInit
<1>4. Inv /\ [Next]_vars => Inv'
  BY InvNext
<1> QED BY <1>1, <1>2, <1>3, <1>4, PTL DEF Spec
=============================================================================
