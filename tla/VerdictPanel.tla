---------------------------- MODULE VerdictPanel ----------------------------
(***************************************************************************)
(* What the simulation dialog says of a verdict: one of four headlines,    *)
(* the sentences under it and the two halves beside each other, with what  *)
(* a refusing half does accept (components/SimulatePanel.tsx).  A sentence *)
(* is its meaning; the wording is left out.                                *)
(***************************************************************************)
EXTENDS Evaluator

\* TONE, of a half or of one layer, and TONE_OF, of the headline.
ToneOfResult(result) ==
  CASE result = "allowed" -> "ok" [] result = "denied" -> "danger"
    [] result = "undecidable" -> "warn" [] OTHER -> "neutral"
ToneOf(state) ==
  CASE state = "Allowed" -> "ok" [] state = "Denied" -> "danger" [] OTHER -> "warn"

StateOf(verdict) ==
  IF verdict.undecidable THEN "Undecidable"
  ELSE IF ~verdict.allowed THEN "Denied"
  ELSE IF verdict.approximate THEN "Approximate" ELSE "Allowed"

\* A half without an answer of its own is said to permit.
Implication(verdict, egress, ingress) ==
  IF verdict.undecidable THEN {"depends on a name"}
  ELSE {IF egress.result = "denied" THEN "may not leave" ELSE "may leave",
        IF ingress.result = "denied" THEN "will not accept" ELSE "will accept"}
       \cup (IF verdict.approximate THEN {"leans on a name"} ELSE {})

Headline(verdict, egress, ingress) ==
  [state |-> StateOf(verdict), tone |-> ToneOf(StateOf(verdict)),
   says |-> Implication(verdict, egress, ingress)]

\* The first four entries of the half, in the order of their keys.
AcceptsLines(w, dir, mode) ==
  LET allows == CombineLayers(w, dir, mode)
      Before4(a) == Cardinality({b \in allows \ {a} : Before(b.peer, a.peer)}) < 4
  IN {[anyPort |-> a.ports = {}, ports |-> a.ports, peer |-> a.peer] : a \in {b \in allows : Before4(b)}}

\* One half on screen: its badge, those of its layers when there are several,
\* the note on names, and what it does accept when it is the one that refuses.
HalfShown(subject, other, dir, port, mode) ==
  LET decision == Half(subject, other, dir, port, mode)
      layers == IF subject.kind = "workload" THEN Layers(subject.workload, dir) ELSE {}
  IN [badge |-> ToneOfResult(decision.result),
      layers |-> IF Cardinality(layers) > 1
                 THEN {[provider |-> p,
                        tone |-> ToneOfResult(ByLayer(subject.workload, other, dir, port, p))]
                        : p \in layers}
                 ELSE {},
      note |-> decision.approximate,
      accepts |-> IF decision.result = "denied" THEN AcceptsLines(subject.workload, dir, mode)
                                                ELSE {}]

-----------------------------------------------------------------------------
(* What is checked. *)

\* What the rules of a side's layers say of the connection, of a side that has
\* layers at all.
Isolated(subject, dir) == subject.kind = "workload" /\ Layers(subject.workload, dir) # {}
OneSays(subject, other, dir, port) ==
  Isolated(subject, dir) =>
    \E p \in Layers(subject.workload, dir) : LayerSays(subject.workload, other, dir, port, p)
OneDoesNotSay(subject, other, dir, port) ==
  /\ Isolated(subject, dir)
  /\ \E p \in Layers(subject.workload, dir) : ~LayerSays(subject.workload, other, dir, port, p)

RefusesWhatItRefuses(subject, other, dir, port, mode) ==
  \A line \in HalfShown(subject, other, dir, port, mode).accepts :
    ~(PeerMatches(line.peer, other) /\ PortsAllow(line.ports, port))

\* The headline against the rules themselves: a connection is called allowed
\* (or approximate) only if on both sides some layer's rules permit it, a
\* refusal is pinned on each side that refuses and on no other, an undecidable
\* verdict hides no refusal, and the lines of a refusing side do not cover the
\* connection it refuses (SimulatePanel.tsx:355-398, 540-594).
HeadlineIsTrue ==
  \A from, to \in Endpoints, port \in Ports, mode \in CombineModes :
    \A egress \in {Half(from, to, "egress", port, mode)},
       ingress \in {Half(to, from, "ingress", port, mode)} :
      \A headline \in {Headline(Verdict({egress, ingress}), egress, ingress)} :
        /\ headline.tone = "ok" \/ headline.state = "Approximate" =>
             OneSays(from, to, "egress", port) /\ OneSays(to, from, "ingress", port)
        /\ headline.state = "Denied" <=> {"may not leave", "will not accept"} \cap headline.says # {}
        /\ "may not leave" \in headline.says => OneDoesNotSay(from, to, "egress", port)
        /\ "will not accept" \in headline.says => OneDoesNotSay(to, from, "ingress", port)
        /\ headline.state = "Undecidable" => "denied" \notin {egress.result, ingress.result}
        /\ egress.result = "denied" => RefusesWhatItRefuses(from, to, "egress", port, mode)
        /\ ingress.result = "denied" => RefusesWhatItRefuses(to, from, "ingress", port, mode)

\* "A connection needs the source's egress and the destination's ingress to both
\* permit it" (simulate.go:202): an Allowed rests on a side that was asked.
AllowedWasAsked ==
  \A from, to \in Endpoints, port \in Ports :
    Simulate(from, to, port, "intersect").allowed =>
      from.kind = "workload" \/ to.kind = "workload"
=============================================================================
