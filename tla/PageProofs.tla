----------------------------- MODULE PageProofs -----------------------------
(***************************************************************************)
(* Proofs about Page, for any number of queries, States, loads and         *)
(* failures.                                                               *)
(***************************************************************************)
EXTENDS Page, FiniteSetTheorems, SequenceTheorems, WellFoundedInduction, TLAPS

-----------------------------------------------------------------------------
(* The sum of a function, which Loading bounds.  FoldFunction takes off one    *)
(* element after the other; what the sum does when one value changes follows   *)
(* by the least size of a set for which it would not.                          *)

LEMMA Least ==
  ASSUME NEW T \in SUBSET Nat, T # {}
  PROVE  \E m \in T : \A k \in T : m <= k
<1> DEFINE R == {ss \in Nat \X Nat : ss[1] < ss[2]}
<1>1. IsWellFoundedOn(R, Nat)
  BY NatLessThanWellFounded DEF OpToRel
<1> HIDE DEF R
<1>2. PICK m \in T : \A k \in T : ~ (<<k, m>> \in R)
  BY <1>1, WFMin
<1>3. \A k \in T : ~ (k < m)
  BY <1>2 DEF R
<1> QED BY <1>3

\* A set of subsets of a finite set has one that no other is within.
LEMMA Smallest ==
  ASSUME NEW D, IsFiniteSet(D), NEW T \in SUBSET (SUBSET D), T # {}
  PROVE  \E s \in T : \A t \in T : t \subseteq s => t = s
<1>1. IsWellFoundedOn(StrictSubsetOrdering(D), SUBSET D)
  BY FS_StrictSubsetOrderingWellFounded, FS_FiniteSubsetsOfFinite
<1>2. PICK s \in T : \A t \in T : <<t, s>> \notin StrictSubsetOrdering(D)
  BY <1>1, WFMin
<1> QED BY <1>2 DEF StrictSubsetOrdering

Some(s) == CHOOSE x \in s : TRUE
Rest(s) == s \ {Some(s)}

LEMMA RestIsLess ==
  ASSUME NEW D, IsFiniteSet(D), NEW s \in SUBSET D, s # {}
  PROVE  /\ Some(s) \in s /\ Some(s) \in D /\ Some(s) \notin Rest(s)
         /\ Rest(s) \in SUBSET D /\ Rest(s) \subseteq s /\ Rest(s) # s
         /\ \A x \in s : x = Some(s) \/ x \in Rest(s)
BY DEF Some, Rest

\* it adds up f from n over the subsets of D.
AddsUp(it, n, f, D) ==
  /\ it \in [SUBSET D -> Nat]
  /\ \A s \in SUBSET D : it[s] = IF s = {} THEN n ELSE f[Some(s)] + it[Rest(s)]

\* By the size of the sets that are added up.
LEMMA SomethingAddsUp ==
  ASSUME NEW D, IsFiniteSet(D), NEW n \in Nat, NEW f \in [D -> Nat]
  PROVE  \E it : AddsUp(it, n, f, D)
<1> DEFINE Level(m) == {s \in SUBSET D : Cardinality(s) <= m}
           Step(it, s) == IF s = {} THEN n ELSE f[Some(s)] + it[Rest(s)]
           Upto(m) == \E it : it \in [Level(m) -> Nat] /\ \A s \in Level(m) : it[s] = Step(it, s)
           Bad == {m \in Nat : ~Upto(m)}
<1>1. ASSUME NEW s \in SUBSET D
      PROVE  /\ Cardinality(s) \in Nat /\ Cardinality(s) <= Cardinality(D)
             /\ Cardinality(s) = 0 => s = {}
             /\ s # {} => Cardinality(Rest(s)) = Cardinality(s) - 1 /\ Rest(s) \in SUBSET D
  <2>1. IsFiniteSet(s) /\ Cardinality(s) <= Cardinality(D)
    BY FS_Subset
  <2>2. s # {} => Cardinality(Rest(s)) = Cardinality(s) - 1 /\ Rest(s) \in SUBSET D
    BY <2>1, RestIsLess, FS_RemoveElement DEF Rest
  <2> QED BY <2>1, <2>2, FS_CardinalityType, FS_EmptySet
<1>2. SUFFICES ASSUME Bad # {} PROVE FALSE
  <2>1. Cardinality(D) \in Nat /\ Level(Cardinality(D)) = SUBSET D
    BY <1>1, FS_CardinalityType
  <2>2. ASSUME Upto(Cardinality(D)) PROVE \E it : AddsUp(it, n, f, D)
    BY <2>1, <2>2 DEF AddsUp
  <2> HIDE DEF Upto
  <2> QED BY <2>1, <2>2
<1> HIDE DEF Upto
<1>3. PICK m \in Bad : \A k \in Bad : m <= k
  <2>1. Bad \in SUBSET Nat
    OBVIOUS
  <2> HIDE DEF Bad
  <2> QED BY <1>2, <2>1, Least
<1>4. m \in Nat /\ ~Upto(m) /\ (m # 0 => m - 1 \in Nat /\ Upto(m - 1))
  BY <1>3
<1> HIDE DEF Bad
<1>5. CASE m = 0
  <2> DEFINE it == [s \in Level(0) |-> n]
  <2>1. \A s \in Level(0) : s = {}
    BY <1>1
  <2>2. it \in [Level(0) -> Nat] /\ \A s \in Level(0) : it[s] = Step(it, s)
    BY <2>1
  <2> HIDE DEF it, Level, Step
  <2> QED BY <1>4, <1>5, <2>2 DEF Upto
<1>6. CASE m # 0
  <2>1. PICK old : old \in [Level(m - 1) -> Nat] /\ \A s \in Level(m - 1) : old[s] = Step(old, s)
    BY <1>4, <1>6 DEF Upto
  <2> DEFINE it == [s \in Level(m) |-> Step(old, s)]
  <2>2. ASSUME NEW s \in Level(m), s # {}
        PROVE  Rest(s) \in Level(m - 1) /\ Rest(s) \in Level(m) /\ f[Some(s)] \in Nat
    <3>1. Some(s) \in D /\ Rest(s) \in SUBSET D
      BY <2>2, RestIsLess
    <3>2. Cardinality(Rest(s)) = Cardinality(s) - 1 /\ Cardinality(s) \in Nat /\ Cardinality(s) <= m
      BY <1>1, <2>2
    <3> QED BY <3>1, <3>2, <1>4
  <2>3. it \in [Level(m) -> Nat]
    <3>1. \A s \in Level(m) : Step(old, s) \in Nat
      BY <2>1, <2>2
    <3> QED BY <3>1
  <2>4. ASSUME NEW s \in Level(m) PROVE it[s] = Step(it, s)
    <3>1. CASE s = {}
      BY <3>1
    <3>2. CASE s # {}
      <4>1. it[Rest(s)] = old[Rest(s)]
        BY <2>1, <2>2, <3>2
      <4> QED BY <4>1, <3>2
    <3> QED BY <3>1, <3>2
  <2> HIDE DEF it, Level, Step
  <2> QED BY <1>4, <2>3, <2>4 DEF Upto
<1> QED BY <1>5, <1>6

\* FoldFunction adds up.
LEMMA FoldAddsUp ==
  ASSUME NEW D, IsFiniteSet(D), NEW n \in Nat, NEW f \in [D -> Nat]
  PROVE  \E it : AddsUp(it, n, f, D) /\ FoldFunction(+, n, f) = it[D]
<1> DEFINE Is(it) == it = [s \in SUBSET D |-> IF s = {} THEN n ELSE f[Some(s)] + it[Rest(s)]]
           sum == CHOOSE it : Is(it)
<1>1. FoldFunction(+, n, f) = sum[D]
  BY DEF FoldFunction, FoldFunctionOnSet, MapThenFoldSet, Some, Rest
<1>2. PICK it : AddsUp(it, n, f, D)
  BY SomethingAddsUp
<1>3. Is(it)
  BY <1>2 DEF AddsUp
<1>4. Is(sum)
  BY <1>3
<1> HIDE DEF sum
<1>5. \A s \in SUBSET D : sum[s] = IF s = {} THEN n ELSE f[Some(s)] + sum[Rest(s)]
  BY <1>4
<1> DEFINE Bad == {s \in SUBSET D : sum[s] \notin Nat}
<1>6. ASSUME Bad # {} PROVE FALSE
  <2>1. PICK s \in Bad : \A t \in Bad : t \subseteq s => t = s
    <3>1. Bad \in SUBSET (SUBSET D)
      OBVIOUS
    <3> HIDE DEF Bad
    <3> QED BY <1>6, <3>1, Smallest
  <2>2. s \in SUBSET D /\ s # {} /\ sum[s] \notin Nat
    BY <1>5
  <2>3. Rest(s) \notin Bad /\ Rest(s) \in SUBSET D /\ f[Some(s)] \in Nat
    BY <2>1, <2>2, RestIsLess
  <2>4. sum[Rest(s)] \in Nat /\ sum[s] = f[Some(s)] + sum[Rest(s)]
    BY <1>5, <2>2, <2>3
  <2> QED BY <2>2, <2>3, <2>4
<1>7. sum \in [SUBSET D -> Nat]
  <2>1. \A s \in SUBSET D : sum[s] \in Nat
    BY <1>6
  <2>2. sum = [s \in SUBSET D |-> sum[s]]
    BY <1>4
  <2> QED BY <2>1, <2>2
<1> QED BY <1>1, <1>5, <1>7 DEF AddsUp

Sum(n, f) == FoldFunction(+, n, f)

\* The sum grows by what one value and the base grow.
LEMMA SumChanges ==
  ASSUME NEW D, IsFiniteSet(D), NEW f \in [D -> Nat], NEW g \in [D -> Nat],
         NEW n \in Nat, NEW m \in Nat, NEW x \in D, \A y \in D \ {x} : g[y] = f[y]
  PROVE  Sum(n, f) \in Nat /\ Sum(m, g) + n + f[x] = Sum(n, f) + m + g[x]
<1>1. PICK a : AddsUp(a, n, f, D) /\ Sum(n, f) = a[D]
  BY FoldAddsUp DEF Sum
<1>2. PICK b : AddsUp(b, m, g, D) /\ Sum(m, g) = b[D]
  BY FoldAddsUp DEF Sum
<1> DEFINE Grows(s) == IF x \in s THEN b[s] + n + f[x] = a[s] + m + g[x] ELSE b[s] + n = a[s] + m
           Bad == {s \in SUBSET D : ~Grows(s)}
<1>3. \A s \in SUBSET D : a[s] \in Nat /\ b[s] \in Nat
  BY <1>1, <1>2 DEF AddsUp
<1>4. ASSUME Bad # {} PROVE FALSE
  <2>1. PICK s \in Bad : \A t \in Bad : t \subseteq s => t = s
    <3>1. Bad \in SUBSET (SUBSET D)
      OBVIOUS
    <3> HIDE DEF Bad
    <3> QED BY <1>4, <3>1, Smallest
  <2>2. a[{}] = n /\ b[{}] = m
    BY <1>1, <1>2 DEF AddsUp
  <2>3. s \in SUBSET D /\ s # {} /\ ~Grows(s)
    BY <2>2
  <2> DEFINE c == Some(s)
             t == Rest(s)
  <2>4. /\ c \in s /\ c \in D /\ c \notin t /\ t \in SUBSET D
        /\ (x \in s <=> x = c \/ x \in t)
        /\ t \subseteq s /\ t # s
    BY <2>3, RestIsLess
  <2>5. a[s] = f[c] + a[t] /\ b[s] = g[c] + b[t]
    BY <1>1, <1>2, <2>3 DEF AddsUp
  <2> HIDE DEF c, t
  <2>6. Grows(t)
    BY <2>1, <2>4
  <2>7. f[c] \in Nat /\ g[c] \in Nat /\ f[x] \in Nat /\ g[x] \in Nat
        /\ a[t] \in Nat /\ b[t] \in Nat /\ (c # x => g[c] = f[c])
    BY <1>3, <2>4
  <2>8. Grows(s)
    <3>1. CASE x = c
      BY <2>4, <2>5, <2>6, <2>7, <3>1
    <3>2. CASE x # c
      BY <2>4, <2>5, <2>6, <2>7, <3>2
    <3> QED BY <3>1, <3>2
  <2> QED BY <2>3, <2>8
<1>5. Grows(D)
  <2> HIDE DEF Grows
  <2> QED BY <1>4
<1> QED BY <1>1, <1>2, <1>3, <1>5

\* Two values are at most the sum.
LEMMA SumBounds ==
  ASSUME NEW D, IsFiniteSet(D), NEW f \in [D -> Nat], NEW n \in Nat, NEW x \in D, NEW y \in D, x # y
  PROVE  f[x] + f[y] + n <= Sum(n, f)
<1> DEFINE g == [f EXCEPT ![x] = 0]
           h == [g EXCEPT ![y] = 0]
<1>1. /\ g \in [D -> Nat] /\ g[x] = 0 /\ \A z \in D \ {x} : g[z] = f[z]
      /\ h \in [D -> Nat] /\ h[y] = 0 /\ \A z \in D \ {y} : h[z] = g[z]
  OBVIOUS
<1> HIDE DEF g, h
<1>2. Sum(n, g) + n + f[x] = Sum(n, f) + n + g[x] /\ Sum(n, f) \in Nat
  BY <1>1, SumChanges
<1>3. Sum(n, h) + n + g[y] = Sum(n, g) + n + h[y] /\ Sum(n, g) \in Nat
  BY <1>1, SumChanges
<1>4. Sum(n, h) + 0 + h[y] = Sum(0, h) + n + h[y] /\ Sum(0, h) \in Nat
  BY <1>1, SumChanges
<1>5. Sum(n, h) \in Nat
  BY <1>1, SumChanges
<1>6. f[x] \in Nat /\ f[y] \in Nat /\ g[y] = f[y] /\ h[y] = 0 /\ g[x] = 0
  BY <1>1
<1> QED BY <1>2, <1>3, <1>4, <1>5, <1>6

-----------------------------------------------------------------------------
(* Types. *)

Counted == Answers \cup {Asked}

LEMMA Numbers ==
  /\ MaxRev \in Nat /\ MaxRev >= 1 /\ MaxQueries \in Nat /\ MaxQueries >= 1
  /\ MaxLoads \in Nat /\ MaxLoads >= 2 /\ MaxFailures \in Nat
  /\ Asked \in Int /\ Asked \notin Answers /\ Unasked \notin Answers /\ Asked # Unasked
  /\ Failed \in Answers /\ NotReady \in Answers /\ Failed # NotReady
  /\ Failed \notin 0..MaxRev /\ 0..MaxRev \subseteq Answers
BY PageAssumption DEF Asked, Unasked, Answers, Failed, NotReady

LEMMA CountedIsFinite == IsFiniteSet(Counted)
<1>1. IsFiniteSet(Answers)
  BY FS_Interval, Numbers DEF Answers, Failed
<1> QED BY <1>1, FS_AddElement DEF Counted

LEMMA LoadsChange ==
  ASSUME NEW f \in [Counted -> Nat], NEW g \in [Counted -> Nat], NEW n \in Nat, NEW m \in Nat,
         NEW x \in Counted, \A y \in Counted \ {x} : g[y] = f[y]
  PROVE  /\ Sum(n, f) \in Nat /\ Sum(m, g) \in Nat
         /\ Sum(m, g) + n + f[x] = Sum(n, f) + m + g[x]
<1>1. \A y \in Counted \ {x} : f[y] = g[y]
  OBVIOUS
<1>2. Sum(m, g) \in Nat
  BY <1>1, SumChanges, CountedIsFinite
<1> QED BY <1>2, SumChanges, CountedIsFinite

\* What is in flight: at most MaxLoads in all, no value twice beyond it.
InFlight(l) == l \in [Counted -> Nat] /\ Sum(0, l) <= MaxLoads

LEMMA InFlightIsBounded ==
  ASSUME NEW l, InFlight(l)
  PROVE  l \in [Counted -> 0..MaxLoads]
<1>1. ASSUME NEW a \in Counted PROVE l[a] \in 0..MaxLoads
  <2>1. PICK b \in Counted : b # a
    BY Numbers DEF Counted
  <2>2. l[a] + l[b] + 0 <= Sum(0, l)
    BY <2>1, SumBounds, CountedIsFinite DEF InFlight
  <2>3. Sum(0, l) \in Nat /\ l[a] \in Nat /\ l[b] \in Nat
    BY <2>1, SumChanges, CountedIsFinite DEF InFlight
  <2> QED BY <2>2, <2>3, Numbers DEF InFlight
<1> QED BY <1>1 DEF InFlight

\* Loading keeps to the bound, and the answers that are in.
LEMMA LoadingKeepsBound ==
  ASSUME syncing \in BOOLEAN, NEW l \in [Counted -> Nat], NEW calls \in Nat, NEW s \in BOOLEAN,
         Loading(l, calls, s)
  PROVE  InFlight(loads') /\ syncing' = s /\ \A a \in Answers : loads'[a] = l[a]
<1> DEFINE n == calls + IF s # syncing THEN 1 ELSE 0
<1>0. n \in Nat
  OBVIOUS
<1>1. Sum(n, l) <= MaxLoads /\ loads' = [l EXCEPT ![Asked] = @ + n] /\ syncing' = s
  BY Zenon DEF Loading, Sum
<1> HIDE DEF n
<1>2. Asked \in Counted /\ l[Asked] \in Nat
  BY DEF Counted
<1> DEFINE g == loads'
<1>3. /\ g \in [Counted -> Nat] /\ g[Asked] = l[Asked] + n
      /\ \A a \in Counted \ {Asked} : g[a] = l[a]
  BY <1>0, <1>1, <1>2
<1> HIDE DEF g
<1>4. Sum(n, l) \in Nat /\ Sum(0, g) \in Nat /\ Sum(0, g) + n + l[Asked] = Sum(n, l) + 0 + g[Asked]
  BY <1>0, <1>2, <1>3, LoadsChange
<1>5. Sum(0, g) = Sum(n, l)
  <2>1. \A i, j, k \in Nat : i + n + k = j + 0 + (k + n) => i = j
    BY <1>0
  <2> QED BY <1>2, <1>3, <1>4, <2>1
<1>6. InFlight(g)
  BY <1>1, <1>3, <1>5 DEF InFlight
<1>7. \A a \in Answers : g[a] = l[a]
  BY <1>3, Numbers DEF Counted
<1> QED BY <1>1, <1>6, <1>7 DEF g

\* One call less, and the same as another kind of answer.
LEMMA FewerInFlight ==
  ASSUME NEW l, InFlight(l), NEW a \in Counted, l[a] > 0
  PROVE  /\ InFlight([l EXCEPT ![a] = @ - 1])
         /\ \A b \in Counted \ {a} : InFlight([l EXCEPT ![a] = @ - 1, ![b] = @ + 1])
<1> DEFINE g == [l EXCEPT ![a] = @ - 1]
<1>1. l \in [Counted -> Nat] /\ l[a] \in Nat /\ Sum(0, l) <= MaxLoads
  BY DEF InFlight
<1>2. g \in [Counted -> Nat] /\ g[a] = l[a] - 1 /\ \A c \in Counted \ {a} : g[c] = l[c]
  BY <1>1
<1>3. ASSUME NEW b \in Counted \ {a} PROVE InFlight([l EXCEPT ![a] = @ - 1, ![b] = @ + 1])
  <2> DEFINE h == [l EXCEPT ![a] = @ - 1, ![b] = @ + 1]
  <2>1. /\ h \in [Counted -> Nat] /\ g[b] \in Nat /\ h[b] = g[b] + 1
        /\ \A c \in Counted \ {b} : h[c] = g[c]
    <3>1. h = [g EXCEPT ![b] = @ + 1]
      OBVIOUS
    <3>2. g[b] \in Nat
      BY <1>2
    <3> HIDE DEF g, h
    <3> QED BY <1>2, <3>1, <3>2
  <2> HIDE DEF g, h
  <2>2. Sum(0, l) \in Nat /\ Sum(0, g) \in Nat /\ Sum(0, g) + 0 + l[a] = Sum(0, l) + 0 + g[a]
    <3>1. /\ l \in [Counted -> Nat] /\ g \in [Counted -> Nat] /\ 0 \in Nat
          /\ \A y \in Counted \ {a} : g[y] = l[y]
      BY <1>1, <1>2
    <3> QED BY <3>1, LoadsChange
  <2>3. Sum(0, h) \in Nat /\ Sum(0, h) + 0 + g[b] = Sum(0, g) + 0 + h[b]
    <3>1. /\ g \in [Counted -> Nat] /\ h \in [Counted -> Nat] /\ 0 \in Nat
          /\ \A y \in Counted \ {b} : h[y] = g[y]
      BY <1>2, <2>1
    <3> QED BY <3>1, LoadsChange
  <2>4. Sum(0, h) = Sum(0, l)
    BY <1>1, <1>2, <2>1, <2>2, <2>3
  <2>5. InFlight(h)
    BY <1>1, <2>1, <2>4 DEF InFlight
  <2> QED BY <2>5 DEF h
<1>4. InFlight(g)
  <2> HIDE DEF g
  <2>1. Sum(0, l) \in Nat /\ Sum(0, g) \in Nat /\ Sum(0, g) + 0 + l[a] = Sum(0, l) + 0 + g[a]
    BY <1>1, <1>2, LoadsChange
  <2> QED BY <1>1, <1>2, <2>1, Numbers DEF InFlight
<1> QED BY <1>3, <1>4

\* An answer that is in is of a State there is, or a failure; the queue of the
\* stream has States only.
Clock == rev \in 0..MaxRev /\ failures \in 0..MaxFailures /\ query \in Queries

FetchInv == fetch \in [Queries -> (0..rev) \cup {Failed, Asked, Unasked}]

LoadsInv == InFlight(loads) /\ \A a \in Answers : loads[a] > 0 => a \in 0..rev \/ a = Failed

StreamInv == stream \in {"down", "open"} /\ pipe \in Seq(1..rev) /\ sent \in 0..rev

GraphInv == graph = NoGraph \/ graph \in [query : 1..query, rev : 1..rev]

ShownInv ==
  /\ meta \in 0..rev /\ syncing \in BOOLEAN /\ error \in BOOLEAN
  /\ seen \in [graph : 0..rev, meta : 0..rev]

SecondInv == second \in 0..query /\ stray \in BOOLEAN

PageInv == Clock /\ FetchInv /\ LoadsInv /\ StreamInv /\ GraphInv /\ ShownInv /\ SecondInv

LEMMA PageInvIsTyped == PageInv => TypeOK
<1> SUFFICES ASSUME PageInv PROVE TypeOK
  OBVIOUS
<1>1. loads \in [Answers \cup {Asked} -> 0..MaxLoads]
  BY InFlightIsBounded DEF PageInv, LoadsInv, Counted
<1>2. fetch \in [Queries -> Answers \cup {Asked, Unasked}]
  <2>1. (0..rev) \cup {Failed, Asked, Unasked} \subseteq Answers \cup {Asked, Unasked}
    BY Numbers DEF PageInv, Clock
  <2> QED BY <2>1 DEF PageInv, FetchInv
<1>3. \A i \in DOMAIN pipe : pipe[i] \in 1..rev
  <2>1. pipe \in Seq(1..rev)
    BY DEF PageInv, StreamInv
  <2> QED BY <2>1, ElementOfSeq, LenProperties
<1> QED BY <1>1, <1>2, <1>3 DEF PageInv, Clock, StreamInv, GraphInv, ShownInv, SecondInv, TypeOK

LEMMA PageInit == Init => PageInv
<1> SUFFICES ASSUME Init PROVE PageInv
  OBVIOUS
<1>1. loads \in [Counted -> Nat] /\ loads[Asked] = 1 /\ \A a \in Answers : loads[a] = 0
  BY Numbers DEF Init, Counted
<1>2. Sum(0, loads) <= MaxLoads
  <2> DEFINE none == [a \in Counted |-> 0]
             Zero(it) == \A s \in SUBSET Counted : it[s] = 0
  <2>1. none \in [Counted -> Nat] /\ none[Asked] = 0 /\ \A a \in Counted \ {Asked} : loads[a] = none[a]
    BY <1>1 DEF Counted
  <2>2. Sum(0, none) = 0
    <3>1. PICK it : AddsUp(it, 0, none, Counted) /\ Sum(0, none) = it[Counted]
      BY <2>1, FoldAddsUp, CountedIsFinite DEF Sum
    <3> DEFINE Bad == {s \in SUBSET Counted : it[s] # 0}
    <3>2. ASSUME Bad # {} PROVE FALSE
      <4>1. PICK s \in Bad : \A t \in Bad : t \subseteq s => t = s
        <5>1. Bad \in SUBSET (SUBSET Counted)
          OBVIOUS
        <5> HIDE DEF Bad
        <5> QED BY <3>2, <5>1, Smallest, CountedIsFinite
      <4>2. s \in SUBSET Counted /\ s # {} /\ it[s] # 0
        BY <3>1 DEF AddsUp
      <4>3. Some(s) \in Counted /\ Rest(s) \in SUBSET Counted /\ Rest(s) \notin Bad
        BY <4>1, <4>2, RestIsLess, CountedIsFinite
      <4>4. it[s] = none[Some(s)] + it[Rest(s)] /\ it[Rest(s)] = 0 /\ none[Some(s)] = 0
        BY <3>1, <4>2, <4>3 DEF AddsUp
      <4> QED BY <4>2, <4>4
    <3> QED BY <3>1, <3>2
  <2> HIDE DEF none
  <2>3. Asked \in Counted /\ Sum(0, loads) + 0 + none[Asked] = Sum(0, none) + 0 + loads[Asked]
    BY <1>1, <2>1, SumChanges, CountedIsFinite DEF Counted
  <2>4. Sum(0, loads) \in Nat
    BY <1>1, <2>3, SumChanges, CountedIsFinite
  <2> QED BY <1>1, <2>1, <2>2, <2>3, <2>4, Numbers
<1>3. InFlight(loads)
  BY <1>1, <1>2 DEF InFlight
<1>4. FetchInv /\ GraphInv /\ ShownInv
  <2>1. FetchInv
    BY DEF Init, FetchInv
  <2>2. GraphInv
    BY DEF Init, GraphInv
  <2>3. rev = 0 /\ 0 \in 0..0 /\ seen = [graph |-> 0, meta |-> 0]
    BY DEF Init
  <2>4. seen \in [graph : 0..rev, meta : 0..rev]
    BY <2>3
  <2>5. meta \in 0..rev /\ syncing \in BOOLEAN /\ error \in BOOLEAN
    BY <2>3 DEF Init
  <2> QED BY <2>1, <2>2, <2>4, <2>5 DEF ShownInv
<1>5. StreamInv
  BY EmptySeq DEF Init, StreamInv
<1>6. LoadsInv
  BY <1>1, <1>3 DEF LoadsInv
<1>7. SecondInv
  <2>1. second = 0 /\ stray = FALSE /\ query = 1 /\ 0 \in 0..1
    BY DEF Init, None
  <2> QED BY <2>1 DEF SecondInv
<1> QED BY <1>4, <1>5, <1>6, <1>7, Numbers DEF Init, PageInv, Clock, Queries

\* A part holds on while what it is about stays.
LEMMA PartsKeep ==
  ASSUME PageInv
  PROVE  /\ UNCHANGED <<rev, failures, query>> => Clock'
         /\ UNCHANGED <<rev, fetch>> => FetchInv'
         /\ UNCHANGED <<rev, loads>> => LoadsInv'
         /\ UNCHANGED <<rev, stream, pipe, sent>> => StreamInv'
         /\ UNCHANGED <<rev, query, graph>> => GraphInv'
         /\ UNCHANGED <<rev, meta, syncing, error, seen>> => ShownInv'
         /\ UNCHANGED <<query, second, stray>> => SecondInv'
BY DEF PageInv, Clock, FetchInv, LoadsInv, InFlight, StreamInv, GraphInv, ShownInv, SecondInv

LEMMA ClockIsNat == Clock => rev \in Nat /\ query \in Nat /\ rev <= MaxRev /\ failures \in Nat
BY Numbers DEF Clock, Queries

\* Drawing a revision there is.
LEMMA DrawKeeps ==
  ASSUME PageInv, NEW r \in 1..rev, Draw(query, r), UNCHANGED <<rev, query>>
  PROVE  GraphInv' /\ seen' \in [graph : 0..rev, meta : 0..rev] /\ stray' \in BOOLEAN
<1>1. rev \in Nat /\ query \in 1..query
  BY ClockIsNat, Numbers DEF PageInv, Clock, Queries
<1>2. graph' \in [query : 1..query, rev : 1..rev]
  BY <1>1 DEF Draw
<1>3. seen' \in [graph : 0..rev, meta : 0..rev]
  BY <1>1 DEF Draw, Larger, PageInv, ShownInv
<1> QED BY <1>2, <1>3 DEF GraphInv, Draw

LEMMA PublishKeeps == PageInv /\ Publish => PageInv'
<1> SUFFICES ASSUME PageInv, Publish PROVE PageInv'
  OBVIOUS
<1>1. rev \in Nat /\ rev' = rev + 1 /\ rev' \in 0..MaxRev
  BY ClockIsNat, Numbers DEF Publish, PageInv, Clock
<1>2. 0..rev \subseteq 0..rev' /\ 1..rev \subseteq 1..rev'
  BY <1>1
<1>3. /\ UNCHANGED <<query, fetch, loads, stream, pipe, sent, second, graph, stray, meta, syncing,
                 error, seen, failures>>
  BY DEF Publish, screen
<1>4. FetchInv'
  BY <1>2, <1>3 DEF PageInv, FetchInv
<1>5. LoadsInv'
  BY <1>2, <1>3 DEF PageInv, LoadsInv, InFlight
<1>6. StreamInv'
  <2>1. pipe \in Seq(1..rev')
    BY <1>2, SeqMonotonic DEF PageInv, StreamInv
  <2> QED BY <1>2, <1>3, <2>1 DEF PageInv, StreamInv
<1>7. GraphInv'
  BY <1>2, <1>3 DEF PageInv, GraphInv
<1>8. ShownInv'
  BY <1>2, <1>3 DEF PageInv, ShownInv
<1> QED BY <1>1, <1>3, <1>4, <1>5, <1>6, <1>7, <1>8, PartsKeep DEF PageInv, Clock

LEMMA AnswersKeep ==
  ASSUME PageInv, NEW a \in Answers,
         AnswerSummaries(a) \/ \E q \in Queries : AnswerGraph(q, a)
  PROVE  PageInv'
<1>1. (a \in 0..rev \/ a = Failed) /\ failures' \in 0..MaxFailures
  BY ClockIsNat, Numbers DEF AnswerSummaries, AnswerGraph, Answer, PageInv, Clock
<1>2. UNCHANGED <<rev, query, stream, pipe, sent, second, graph, stray, meta, syncing, error, seen>>
  BY DEF AnswerSummaries, AnswerGraph, screen
<1>3. CASE AnswerSummaries(a)
  <2>1. InFlight(loads) /\ Asked \in Counted /\ a \in Counted \ {Asked} /\ loads[Asked] > 0
        /\ loads' = [loads EXCEPT ![Asked] = @ - 1, ![a] = @ + 1]
    BY <1>3, Numbers DEF PageInv, LoadsInv, Counted, AnswerSummaries
  <2>2. InFlight(loads')
    BY <2>1, FewerInFlight
  <2>3. \A b \in Answers \ {a} : loads'[b] = loads[b]
    BY <2>1, Numbers DEF InFlight, Counted
  <2>4. LoadsInv'
    BY <1>1, <1>2, <2>2, <2>3 DEF PageInv, LoadsInv, InFlight
  <2>5. fetch' = fetch
    BY <1>3 DEF AnswerSummaries
  <2> QED BY <1>1, <1>2, <2>4, <2>5, PartsKeep DEF PageInv, Clock
<1>4. ASSUME NEW q \in Queries, AnswerGraph(q, a) PROVE PageInv'
  <2>1. fetch' = [fetch EXCEPT ![q] = a] /\ loads' = loads
    BY <1>4 DEF AnswerGraph
  <2>2. FetchInv'
    BY <1>1, <1>2, <2>1 DEF PageInv, FetchInv
  <2> QED BY <1>1, <1>2, <2>1, <2>2, PartsKeep DEF PageInv, Clock
<1> QED BY <1>3, <1>4

LEMMA StreamKeeps ==
  ASSUME PageInv, Push \/ LoseStream \/ \E back \in BOOLEAN : OpenStream(back)
  PROVE  PageInv'
<1>1. UNCHANGED <<rev, query, fetch, loads, second, graph, stray, meta, syncing, error, seen>>
  BY DEF Push, LoseStream, OpenStream, server, screen
<1>2. rev \in Nat /\ sent \in 0..rev /\ pipe \in Seq(1..rev)
  BY ClockIsNat DEF PageInv, StreamInv
<1>3. CASE Push
  <2>1. rev \in 1..rev
    BY <1>2, <1>3 DEF Push
  <2>2. Append(pipe, rev) \in Seq(1..rev)
    BY <1>2, <2>1, AppendProperties
  <2>3. StreamInv'
    BY <1>1, <1>2, <1>3, <2>2 DEF Push, StreamInv
  <2> QED BY <1>1, <1>3, <2>3, PartsKeep DEF PageInv, Push, server
<1>4. CASE LoseStream
  <2>1. StreamInv'
    BY <1>1, <1>2, <1>4 DEF LoseStream, StreamInv
  <2>2. failures' \in 0..MaxFailures
    BY <1>4, Numbers DEF LoseStream, PageInv, Clock
  <2> QED BY <1>1, <2>1, <2>2, PartsKeep DEF PageInv, Clock
<1>5. ASSUME NEW back \in BOOLEAN, OpenStream(back) PROVE PageInv'
  <2>1. pipe' \in Seq(1..rev)
    <3>1. CASE rev = 0
      BY <1>5, <3>1 DEF OpenStream
    <3>2. CASE rev # 0 /\ ~back
      <4>1. rev \in 1..rev
        BY <1>2, <3>2
      <4> QED BY <1>5, <3>2, <4>1 DEF OpenStream
    <3>3. CASE rev # 0 /\ back
      <4>1. rev \in 1..rev /\ rev - 1 \in 1..rev
        BY <1>2, <1>5, <3>3 DEF OpenStream
      <4> QED BY <1>5, <3>3, <4>1 DEF OpenStream
    <3> QED BY <3>1, <3>2, <3>3
  <2>2. sent' \in 0..rev
    BY <1>2, <1>5 DEF OpenStream
  <2>3. StreamInv'
    BY <1>1, <1>5, <2>1, <2>2 DEF OpenStream, StreamInv
  <2> QED BY <1>1, <1>5, <2>3, PartsKeep DEF PageInv, OpenStream, server
<1> QED BY <1>3, <1>4, <1>5

LEMMA ChangeQueryKeeps == PageInv /\ ChangeQuery => PageInv'
<1> SUFFICES ASSUME PageInv, ChangeQuery PROVE PageInv'
  OBVIOUS
<1>1. rev \in Nat /\ query' = query + 1 /\ query \in Nat /\ query' \in Queries
  BY ClockIsNat, Numbers DEF ChangeQuery, PageInv, Clock, Queries
<1>2. UNCHANGED <<rev, failures, loads, graph, meta, syncing, error>>
  BY DEF ChangeQuery, server
<1>3. FetchInv'
  BY <1>1, <1>2 DEF ChangeQuery, PageInv, FetchInv
<1>4. StreamInv'
  BY <1>1, <1>2 DEF ChangeQuery, StreamInv
<1>5. GraphInv'
  <2>1. 1..query \subseteq 1..query'
    BY <1>1
  <2> QED BY <1>2, <2>1 DEF PageInv, GraphInv
<1>6. ShownInv'
  <2>1. 0 \in 0..rev /\ seen' = [seen EXCEPT !.graph = 0]
    BY <1>1 DEF ChangeQuery
  <2> QED BY <1>2, <2>1 DEF PageInv, ShownInv
<1>7. SecondInv'
  <2>1. second' \in {second, 0} /\ stray' = FALSE /\ second \in 0..query
    BY DEF ChangeQuery, PageInv, SecondInv, None
  <2>2. second' \in 0..query'
    BY <1>1, <2>1
  <2> QED BY <2>1, <2>2 DEF SecondInv
<1> QED BY <1>1, <1>2, <1>3, <1>4, <1>5, <1>6, <1>7, PartsKeep DEF PageInv, Clock

\* Reconnect during an attempt: the second connection is one of the query.
LEMMA ReconnectKeeps == PageInv /\ Reconnect => PageInv'
<1> SUFFICES ASSUME PageInv, Reconnect PROVE PageInv'
  OBVIOUS
<1>1. /\ UNCHANGED <<rev, failures, query, fetch, loads, stream, pipe, sent, graph, stray, meta, syncing,
                     error, seen>>
      /\ second' = query /\ query \in Nat
  BY ClockIsNat DEF Reconnect, server, screen, PageInv
<1>2. SecondInv'
  BY <1>1 DEF PageInv, SecondInv
<1> QED BY <1>1, <1>2, PartsKeep DEF PageInv

LEMMA DeliverGraphKeeps == ASSUME PageInv, NEW q \in Queries, DeliverGraph(q) PROVE PageInv'
<1>1. UNCHANGED <<rev, failures, query, loads, stream, pipe, sent, second, meta, syncing>>
      /\ fetch[q] \in Answers /\ fetch' = [fetch EXCEPT ![q] = Unasked]
  BY DEF DeliverGraph, server
<1>2. FetchInv'
  BY <1>1 DEF PageInv, FetchInv
<1>3. CASE UNCHANGED <<graph, stray, seen>> /\ error' \in BOOLEAN
  <2>1. ShownInv'
    BY <1>1, <1>3 DEF PageInv, ShownInv
  <2> QED BY <1>1, <1>2, <1>3, <2>1, PartsKeep DEF PageInv
<1>4. CASE q = query /\ fetch[q] # NotReady /\ fetch[q] # Failed /\ Draw(q, fetch[q]) /\ UNCHANGED error
  <2>1. fetch[q] \in 1..rev
    <3>1. fetch[q] \in 0..rev /\ rev \in Nat
      BY <1>1, <1>4, Numbers, ClockIsNat DEF PageInv, FetchInv
    <3> QED BY <1>4, <3>1 DEF NotReady
  <2>2. GraphInv' /\ seen' \in [graph : 0..rev, meta : 0..rev] /\ stray' \in BOOLEAN
    BY <1>1, <1>4, <2>1, DrawKeeps
  <2>3. ShownInv'
    BY <1>1, <1>4, <2>2 DEF PageInv, ShownInv
  <2> QED BY <1>1, <1>2, <2>2, <2>3, PartsKeep DEF PageInv, SecondInv
<1> QED BY <1>3, <1>4 DEF DeliverGraph, PageInv, ShownInv

\* What a step that loads again keeps of the loads.
LEMMA LoadingKeeps ==
  ASSUME PageInv, NEW l, InFlight(l), \A a \in Answers : l[a] <= loads[a],
         NEW calls \in Nat, NEW s \in BOOLEAN, Loading(l, calls, s), rev' = rev
  PROVE  LoadsInv' /\ syncing' \in BOOLEAN
<1>1. syncing \in BOOLEAN /\ l \in [Counted -> Nat] /\ loads \in [Counted -> Nat]
  BY DEF PageInv, ShownInv, LoadsInv, InFlight
<1>2. InFlight(loads') /\ syncing' = s /\ \A a \in Answers : loads'[a] = l[a]
  BY <1>1, LoadingKeepsBound
<1>3. \A a \in Answers : l[a] \in Nat /\ loads[a] \in Nat
  BY <1>1 DEF Counted
<1>4. \A a \in Answers : loads'[a] > 0 => loads[a] > 0
  BY <1>2, <1>3
<1> QED BY <1>2, <1>4 DEF PageInv, LoadsInv, InFlight

LEMMA SameLoads == PageInv => InFlight(loads) /\ \A a \in Answers : loads[a] \in Nat /\ loads[a] <= loads[a]
BY DEF PageInv, LoadsInv, InFlight, Counted

LEMMA MessageKeeps == PageInv /\ Message => PageInv'
<1> SUFFICES ASSUME PageInv, Message PROVE PageInv'
  OBVIOUS
<1>1. UNCHANGED <<rev, failures, query, fetch, stream, sent, second, meta, error>>
      /\ pipe # << >> /\ pipe' = Tail(pipe) /\ Draw(query, Head(pipe)) /\ Loading(loads, 1, FALSE)
  BY DEF Message, server
<1>2. Head(pipe) \in 1..rev /\ Tail(pipe) \in Seq(1..rev)
  BY <1>1, HeadTailProperties DEF PageInv, StreamInv
<1>3. GraphInv' /\ seen' \in [graph : 0..rev, meta : 0..rev] /\ stray' \in BOOLEAN
  BY <1>1, <1>2, DrawKeeps
<1>4. LoadsInv' /\ syncing' \in BOOLEAN
  BY <1>1, SameLoads, LoadingKeeps
<1>5. StreamInv'
  BY <1>1, <1>2 DEF PageInv, StreamInv
<1>6. ShownInv'
  BY <1>1, <1>3, <1>4 DEF PageInv, ShownInv
<1> QED BY <1>1, <1>3, <1>4, <1>5, <1>6, PartsKeep DEF PageInv, SecondInv

\* A second connection draws a State there is, of a query there was.
LEMMA SecondMessageKeeps == ASSUME PageInv, NEW r, SecondMessage(r) PROVE PageInv'
<1>1. /\ UNCHANGED <<rev, failures, query, fetch, stream, pipe, sent, second, meta, error>>
      /\ second # None /\ r \in 1..rev /\ graph' = [query |-> second, rev |-> r] /\ stray'
      /\ seen' = [seen EXCEPT !.graph = IF second = query THEN Larger(@, r) ELSE @]
      /\ Loading(loads, 1, FALSE)
  BY DEF SecondMessage, server
<1>2. rev \in Nat /\ query \in Nat /\ second \in 1..query
  BY <1>1, ClockIsNat DEF PageInv, SecondInv, None
<1>3. GraphInv'
  BY <1>1, <1>2 DEF GraphInv
<1>4. LoadsInv' /\ syncing' \in BOOLEAN
  BY <1>1, SameLoads, LoadingKeeps
<1>5. seen' \in [graph : 0..rev, meta : 0..rev]
  BY <1>1, <1>2 DEF PageInv, ShownInv, Larger
<1>6. ShownInv'
  BY <1>1, <1>4, <1>5 DEF PageInv, ShownInv
<1>7. SecondInv'
  <2>1. stray' = TRUE
    BY DEF SecondMessage
  <2> QED BY <1>1, <2>1 DEF PageInv, SecondInv
<1> QED BY <1>1, <1>3, <1>4, <1>6, <1>7, PartsKeep DEF PageInv

LEMMA PollKeeps == PageInv /\ Poll => PageInv'
<1> SUFFICES ASSUME PageInv, Poll PROVE PageInv'
  OBVIOUS
<1>1. UNCHANGED <<rev, failures, query, fetch, stream, pipe, sent, second, graph, stray, meta, error, seen>>
      /\ Loading(loads, 1, syncing) /\ syncing \in BOOLEAN
  BY DEF Poll, server, PageInv, ShownInv
<1>2. LoadsInv' /\ syncing' \in BOOLEAN
  BY <1>1, SameLoads, LoadingKeeps
<1>3. ShownInv'
  BY <1>1, <1>2 DEF PageInv, ShownInv
<1> QED BY <1>1, <1>2, <1>3, PartsKeep DEF PageInv

LEMMA DeliverSummariesKeeps == ASSUME PageInv, NEW a \in Answers, DeliverSummaries(a) PROVE PageInv'
<1> DEFINE rest == [loads EXCEPT ![a] = @ - 1]
<1>1. UNCHANGED <<rev, failures, query, fetch, stream, pipe, sent, second, graph, stray>> /\ loads[a] > 0
  BY DEF DeliverSummaries, server
<1>2. InFlight(rest) /\ \A b \in Answers : rest[b] <= loads[b]
  <2>1. InFlight(loads) /\ a \in Counted
    BY DEF PageInv, LoadsInv, Counted
  <2>2. InFlight(rest)
    BY <1>1, <2>1, FewerInFlight
  <2>3. \A b \in Answers : rest[b] <= loads[b]
    BY <2>1 DEF InFlight, Counted
  <2> QED BY <2>2, <2>3
<1>3. a \in 0..rev \/ a = Failed
  BY <1>1 DEF PageInv, LoadsInv
<1>4. \E s \in BOOLEAN : Loading(rest, 0, s)
  BY DEF DeliverSummaries, PageInv, ShownInv
<1>5. LoadsInv' /\ syncing' \in BOOLEAN
  <2> HIDE DEF rest
  <2> QED BY <1>1, <1>2, <1>4, LoadingKeeps
<1>6. meta' \in 0..rev /\ error' \in BOOLEAN /\ seen' \in [graph : 0..rev, meta : 0..rev]
  <2>1. CASE a = NotReady \/ a = Failed
    BY <2>1, Numbers DEF DeliverSummaries, PageInv, ShownInv
  <2>2. CASE a # NotReady /\ a # Failed
    <3>1. meta' = a /\ error' = FALSE /\ seen' = [seen EXCEPT !.meta = Larger(@, a)] /\ a \in 0..rev
      BY <1>3, <2>2 DEF DeliverSummaries
    <3> QED BY <3>1 DEF PageInv, ShownInv, Larger
  <2> QED BY <2>1, <2>2
<1>7. ShownInv'
  BY <1>1, <1>5, <1>6 DEF ShownInv
<1> QED BY <1>1, <1>5, <1>7, PartsKeep DEF PageInv

LEMMA PageNext == PageInv /\ [Next]_vars => PageInv'
<1> SUFFICES ASSUME PageInv, [Next]_vars PROVE PageInv'
  OBVIOUS
<1>1. CASE UNCHANGED vars
  BY <1>1, PartsKeep DEF vars, PageInv
<1> QED BY <1>1, PublishKeeps, AnswersKeep, StreamKeeps, ChangeQueryKeeps, DeliverGraphKeeps,
           MessageKeeps, ReconnectKeeps, SecondMessageKeeps, DeliverSummariesKeeps, PollKeeps DEF Next

\* However late and in whatever order the answers come, the page shows nothing the
\* server never had, and no more calls are in flight than the bound.
THEOREM TypeCorrect == Spec => []TypeOK
BY PageInit, PageNext, PageInvIsTyped, PTL DEF Spec

\* For any number of queries, failures and presses of reconnect: what is newly drawn
\* answers the query on screen, or the query of a second connection that close()
\* did not find.
THEOREM DrawnGraphAnswers == Spec => GraphAnswersItsQuery
<1>1. [Next]_vars => [graph' # graph => graph'.query \in {query, second}]_vars
  <2> SUFFICES ASSUME Next, graph' # graph PROVE graph'.query \in {query, second}
    OBVIOUS
  <2>1. CASE \E r \in 1..MaxRev : SecondMessage(r)
    BY <2>1 DEF SecondMessage
  <2>2. CASE ~ \E r \in 1..MaxRev : SecondMessage(r)
    <3>1. Message \/ \E q \in Queries : DeliverGraph(q) /\ q = query /\ Draw(q, fetch[q])
      BY <2>2 DEF Next, Publish, AnswerGraph, AnswerSummaries, OpenStream, Push, LoseStream, ChangeQuery,
         Reconnect, DeliverGraph, DeliverSummaries, Poll, screen
    <3>2. PICK r : Draw(query, r)
      BY <3>1 DEF Message
    <3>3. graph' = [query |-> query, rev |-> r]
      BY <3>2 DEF Draw
    <3> QED BY <3>3
  <2> QED BY <2>1, <2>2
<1> QED BY <1>1, PTL DEF Spec, GraphAnswersItsQuery

-----------------------------------------------------------------------------
(* At rest. *)

\* The stream has brought all there is.
StreamRests == stream = "open" /\ pipe = << >> /\ sent = rev /\ rev > 0

\* What is drawn is the newest State of the query on screen, unless a second
\* connection drew last, or the HTTP answer, older than a graph of this query that
\* was drawn before it.
GraphAtRest ==
  StreamRests /\ ~stray => /\ graph.query = query
                           /\ graph.rev = rev \/ (fetch[query] = Unasked /\ graph.rev < seen.graph)

\* The summaries are of the newest State, unless an older answer came last or
\* something failed.
SummariesAtRest ==
  StreamRests /\ failures = 0 /\ (\A a \in Answers \cup {Asked} : loads[a] = 0)
    => meta = rev \/ meta < seen.meta

PipeEnds ==
  /\ stream = "down" => pipe = << >>
  /\ pipe # << >> => pipe[Len(pipe)] = sent /\ sent > 0

Drained == stream = "open" /\ pipe = << >> /\ sent > 0

\* Once the queue is empty its last message was drawn; only the fetch, or a second
\* connection, can have drawn over it.
DrawnLast ==
  /\ Drained => /\ seen.graph >= sent
                /\ ~stray => /\ graph.query = query
                             /\ graph.rev >= sent \/ fetch[query] = Unasked
  /\ graph.query = query => graph.rev <= seen.graph

\* ... and the summaries it asked for are on their way or were shown.
Coming(n) == loads[Asked] > 0 \/ \E a \in n..MaxRev : loads[a] > 0
LoadedLast ==
  /\ meta <= seen.meta
  /\ failures = 0 => /\ loads[Failed] = 0
                     /\ Drained => Coming(sent) \/ seen.meta >= sent

RestInv == PageInv /\ PipeEnds /\ DrawnLast /\ LoadedLast

\* Before anything is asked, nothing is to come.
LEMMA RestInit == Init => PipeEnds /\ DrawnLast /\ LoadedLast
<1> SUFFICES ASSUME Init PROVE PipeEnds /\ DrawnLast /\ LoadedLast
  OBVIOUS
<1>1. pipe = << >> /\ sent = 0 /\ graph = NoGraph /\ query = 1 /\ meta = 0
      /\ seen = [graph |-> 0, meta |-> 0] /\ stream = "down"
  BY DEF Init
<1>2. loads[Failed] = 0
  BY Numbers DEF Init
<1> QED BY <1>1, <1>2 DEF PipeEnds, DrawnLast, LoadedLast, Drained, NoGraph

\* Numbers of the state.
LEMMA RestNumbers ==
  ASSUME PageInv
  PROVE  /\ rev \in Nat /\ rev <= MaxRev /\ sent \in Nat /\ sent <= rev /\ query \in Nat
         /\ seen.graph \in Nat /\ seen.meta \in Nat /\ meta \in Nat /\ failures \in Nat
         /\ seen = [graph |-> seen.graph, meta |-> seen.meta]
         /\ graph.query \in Nat /\ graph.query <= query /\ graph.rev \in Nat
         /\ loads \in [Counted -> Nat] /\ loads[Asked] \in Nat
         /\ (\A a \in Answers : loads[a] \in Nat) /\ pipe \in Seq(1..rev)
<1>1. rev \in Nat /\ rev <= MaxRev /\ query \in Nat /\ failures \in Nat /\ query >= 1
  BY ClockIsNat, Numbers DEF PageInv, Clock, Queries
<1>2. sent \in Nat /\ sent <= rev /\ pipe \in Seq(1..rev)
  BY <1>1 DEF PageInv, StreamInv
<1>3. seen \in [graph : 0..rev, meta : 0..rev] /\ meta \in 0..rev
  BY DEF PageInv, ShownInv
<1>4. graph.query \in Nat /\ graph.query <= query /\ graph.rev \in Nat
  <2>1. CASE graph = NoGraph
    BY <1>1, <2>1 DEF NoGraph
  <2>2. CASE graph \in [query : 1..query, rev : 1..rev]
    BY <1>1, <2>2
  <2> QED BY <2>1, <2>2 DEF PageInv, GraphInv
<1>5. loads \in [Counted -> Nat] /\ loads[Asked] \in Nat /\ \A a \in Answers : loads[a] \in Nat
  BY DEF PageInv, LoadsInv, InFlight, Counted
<1> QED BY <1>1, <1>2, <1>3, <1>4, <1>5

\* The parts stay with what they are about.
LEMMA RestKeeps ==
  /\ PipeEnds /\ UNCHANGED <<stream, pipe, sent>> => PipeEnds'
  /\ DrawnLast /\ UNCHANGED <<stream, pipe, sent, graph, stray, query, seen, fetch>> => DrawnLast'
  /\ LoadedLast /\ UNCHANGED <<stream, pipe, sent, meta, seen, loads, failures>> => LoadedLast'
BY DEF PipeEnds, DrawnLast, LoadedLast, Drained, Coming

\* Calls of loadSummaries are added to those asked.
LEMMA LoadingAsks ==
  ASSUME syncing \in BOOLEAN, NEW l \in [Counted -> Nat], NEW calls \in Nat, NEW s \in BOOLEAN,
         Loading(l, calls, s)
  PROVE  /\ loads'[Asked] \in Nat /\ loads'[Asked] >= l[Asked] + calls
         /\ \A a \in Answers : loads'[a] = l[a]
<1> DEFINE n == calls + IF s # syncing THEN 1 ELSE 0
<1>1. n \in Nat /\ n >= calls
  OBVIOUS
<1>2. loads' = [l EXCEPT ![Asked] = @ + n]
  BY DEF Loading
<1> HIDE DEF n
<1>3. Asked \in Counted /\ l[Asked] \in Nat /\ Asked \notin Answers
  BY Numbers DEF Counted
<1>4. loads'[Asked] = l[Asked] + n
  BY <1>2, <1>3
<1>5. \A a \in Answers : loads'[a] = l[a]
  BY <1>2, <1>3 DEF Counted
<1> QED BY <1>1, <1>3, <1>4, <1>5

\* What the server and the connection do: a push appends the newest revision, a
\* connection starts with one, and a stream that is closed is not drained.
LEMMA ServerRests ==
  ASSUME RestInv, Publish \/ Push \/ LoseStream \/ ChangeQuery \/ Reconnect \/ \E back \in BOOLEAN : OpenStream(back)
  PROVE  PipeEnds' /\ DrawnLast' /\ LoadedLast'
<1> USE DEF RestInv
<1>1. CASE Publish
  BY <1>1, RestKeeps DEF Publish, screen
<1>2. CASE Push
  <2>1. /\ UNCHANGED <<rev, failures, query, fetch, loads, stream, graph, stray, meta, seen>>
        /\ stream = "open" /\ sent < rev /\ pipe' = Append(pipe, rev) /\ sent' = rev
    BY <1>2 DEF Push, server, screen
  <2>2. pipe' # << >> /\ pipe'[Len(pipe')] = rev /\ rev > 0
    <3>1. rev \in Nat /\ sent \in Nat /\ pipe \in Seq(1..rev)
      BY RestNumbers
    <3>2. rev \in 1..rev /\ rev > 0
      BY <2>1, <3>1
    <3>3. Append(pipe, rev) # << >> /\ Append(pipe, rev)[Len(Append(pipe, rev))] = rev
      <4> HIDE DEF RestInv
      <4> QED BY <3>1, <3>2, AppendProperties
    <3> QED BY <2>1, <3>2, <3>3
  <2> QED BY <2>1, <2>2 DEF PipeEnds, DrawnLast, LoadedLast, Drained
<1>3. CASE LoseStream
  <2>1. /\ UNCHANGED <<query, graph, meta, seen, loads>> /\ stream' = "down" /\ pipe' = << >>
        /\ failures' = failures + 1 /\ failures \in Nat
    BY <1>3, RestNumbers DEF LoseStream, screen
  <2> QED BY <2>1 DEF PipeEnds, DrawnLast, LoadedLast, Drained
<1>4. CASE ChangeQuery
  <2>1. /\ UNCHANGED <<graph, meta, loads, failures>> /\ stream' = "down" /\ pipe' = << >>
        /\ query' = query + 1 /\ seen' = [seen EXCEPT !.graph = 0]
    BY <1>4 DEF ChangeQuery, server
  <2>2. graph.query # query' /\ seen'.meta = seen.meta
    <3>1. /\ graph.query \in Nat /\ query \in Nat /\ graph.query <= query
          /\ seen = [graph |-> seen.graph, meta |-> seen.meta]
      BY RestNumbers
    <3> QED BY <2>1, <3>1
  <2> QED BY <2>1, <2>2 DEF PipeEnds, DrawnLast, LoadedLast, Drained
<1>5. ASSUME NEW back \in BOOLEAN, OpenStream(back) PROVE PipeEnds' /\ DrawnLast' /\ LoadedLast'
  <2>1. /\ UNCHANGED <<rev, failures, query, fetch, loads, graph, stray, meta, seen>>
        /\ stream' = "open" /\ (back => rev > 1)
        /\ pipe' = IF rev = 0 THEN << >> ELSE IF back THEN <<rev, rev - 1>> ELSE <<rev>>
        /\ sent' = IF back THEN rev - 1 ELSE rev
    BY <1>5 DEF OpenStream, server, screen
  <2>2. rev \in Nat
    BY RestNumbers
  <2>3. PipeEnds' /\ ~Drained'
    <3>1. CASE rev = 0
      BY <2>1, <2>2, <3>1 DEF PipeEnds, Drained
    <3>2. CASE rev # 0 /\ back
      BY <2>1, <2>2, <3>2 DEF PipeEnds, Drained
    <3>3. CASE rev # 0 /\ ~back
      BY <2>1, <2>2, <3>3 DEF PipeEnds, Drained
    <3> QED BY <3>1, <3>2, <3>3
  <2> QED BY <2>1, <2>3 DEF DrawnLast, LoadedLast
<1>6. CASE Reconnect
  BY <1>6, RestKeeps DEF Reconnect, server, screen
<1> QED BY <1>1, <1>2, <1>3, <1>4, <1>5, <1>6

\* An answer to /api/summaries of the newest revision is on its way where the call was.
LEMMA AnswersRest ==
  ASSUME RestInv, NEW a \in Answers,
         AnswerSummaries(a) \/ \E q \in Queries : AnswerGraph(q, a)
  PROVE  PipeEnds' /\ DrawnLast' /\ LoadedLast'
<1> USE DEF RestInv
<1>1. UNCHANGED <<rev, query, stream, pipe, sent, graph, stray, meta, seen>>
  BY DEF AnswerSummaries, AnswerGraph, screen
<1>2. failures' = 0 => failures = 0 /\ a = rev
  BY RestNumbers DEF AnswerSummaries, AnswerGraph, Answer
<1>3. CASE AnswerSummaries(a)
  <2>1. fetch' = fetch /\ loads[Asked] > 0 /\ loads' = [loads EXCEPT ![Asked] = @ - 1, ![a] = @ + 1]
    BY <1>3 DEF AnswerSummaries
  <2>2. loads \in [Counted -> Nat] /\ a \in Counted /\ Asked \in Counted /\ a # Asked /\ Failed # Asked
        /\ Failed \in Counted
    BY RestNumbers, Numbers DEF Counted
  <2>3. loads'[a] > 0 /\ (a # Failed => loads'[Failed] = loads[Failed])
    BY <2>1, <2>2
  <2>4. rev \in Nat /\ sent \in Nat /\ sent <= rev /\ rev <= MaxRev
    BY RestNumbers
  <2>5. a = rev => Coming(sent)' /\ a # Failed
    BY <1>1, <2>3, <2>4, Numbers DEF Coming, Failed
  <2>6. LoadedLast'
    BY <1>1, <1>2, <2>3, <2>5 DEF LoadedLast
  <2> QED BY <1>1, <2>1, <2>6, RestKeeps
<1>4. ASSUME NEW q \in Queries, AnswerGraph(q, a) PROVE PipeEnds' /\ DrawnLast' /\ LoadedLast'
  <2>1. fetch[q] = Asked /\ fetch' = [fetch EXCEPT ![q] = a] /\ loads' = loads
    BY <1>4 DEF AnswerGraph
  <2>2. fetch[query] = Unasked => fetch'[query] = Unasked
    BY <2>1, Numbers
  <2>3. DrawnLast'
    BY <1>1, <2>2 DEF DrawnLast, Drained
  <2>4. LoadedLast'
    BY <1>1, <1>2, <2>1 DEF LoadedLast, Drained, Coming
  <2> QED BY <1>1, <2>3, <2>4, RestKeeps
<1> QED BY <1>3, <1>4

\* A drawn graph is the newest of its query, or was preceded by a newer one.
LEMMA DrawRests ==
  ASSUME PageInv, NEW r \in Nat, Draw(query, r)
  PROVE  /\ graph'.query = query /\ graph'.rev = r /\ seen'.meta = seen.meta
         /\ seen'.graph \in Nat /\ seen'.graph >= r /\ seen'.graph >= seen.graph
<1>1. seen = [graph |-> seen.graph, meta |-> seen.meta] /\ seen.graph \in Nat
  BY RestNumbers
<1>2. seen'.graph = Larger(seen.graph, r) /\ seen'.meta = seen.meta
  BY <1>1 DEF Draw
<1>3. graph'.query = query /\ graph'.rev = r
  BY DEF Draw
<1> QED BY <1>1, <1>2, <1>3 DEF Larger

\* The HTTP answer is the one thing drawn that no message of the queue announced
\* (App.tsx:190-199).
LEMMA DeliverGraphRests ==
  ASSUME RestInv, NEW q \in Queries, DeliverGraph(q)
  PROVE  PipeEnds' /\ DrawnLast' /\ LoadedLast'
<1> USE DEF RestInv
<1>1. /\ UNCHANGED <<rev, failures, query, loads, stream, pipe, sent, meta>>
      /\ fetch[q] \in Answers /\ fetch' = [fetch EXCEPT ![q] = Unasked]
  BY DEF DeliverGraph, server
<1>2. fetch \in [Queries -> (0..rev) \cup {Failed, Asked, Unasked}] /\ query \in Queries
  BY DEF PageInv, FetchInv, Clock
<1>3. fetch[query] = Unasked => fetch'[query] = Unasked
  BY <1>1, <1>2
<1>4. CASE UNCHANGED <<graph, stray, seen>>
  <2>1. DrawnLast'
    BY <1>1, <1>3, <1>4 DEF DrawnLast, Drained
  <2> QED BY <1>1, <1>4, <2>1, RestKeeps
<1>5. CASE q = query /\ fetch[q] # NotReady /\ fetch[q] # Failed /\ Draw(q, fetch[q])
  <2>1. fetch[q] \in Nat
    <3>1. fetch[q] \in 0..rev /\ rev \in Nat
      BY <1>1, <1>2, <1>5, Numbers, RestNumbers
    <3> QED BY <3>1
  <2>2. /\ graph'.query = query /\ graph'.rev = fetch[q] /\ seen'.meta = seen.meta
        /\ seen'.graph \in Nat /\ seen'.graph >= fetch[q] /\ seen'.graph >= seen.graph
    BY <1>5, <2>1, DrawRests
  <2>3. fetch'[query] = Unasked
    BY <1>1, <1>2, <1>5
  <2>4. seen.graph \in Nat /\ sent \in Nat
    BY RestNumbers
  <2>5. DrawnLast'
    BY <1>1, <2>1, <2>2, <2>3, <2>4 DEF DrawnLast, Drained
  <2>6. LoadedLast'
    BY <1>1, <2>2 DEF LoadedLast, Drained, Coming
  <2> QED BY <1>1, <2>5, <2>6, RestKeeps
<1> QED BY <1>4, <1>5 DEF DeliverGraph

\* A queue with nothing left after its head held one message.
LEMMA LastOfQueue ==
  ASSUME NEW S, NEW s \in Seq(S), s # << >>, Tail(s) = << >>
  PROVE  Head(s) = s[Len(s)]
<1>1. Len(Tail(s)) = Len(s) - 1 /\ Len(s) \in Nat /\ Head(s) = s[1]
  BY HeadTailProperties, LenProperties
<1>2. Len(Tail(s)) = 0
  BY EmptySeq, HeadTailProperties
<1>3. Len(s) = 1
  BY <1>1, <1>2
<1> QED BY <1>1, <1>3

\* The last message of the queue is the newest, and asks for its summaries
\* (App.tsx:208-213).
LEMMA MessageRests == RestInv /\ Message => PipeEnds' /\ DrawnLast' /\ LoadedLast'
<1> SUFFICES ASSUME RestInv, Message PROVE PipeEnds' /\ DrawnLast' /\ LoadedLast'
  OBVIOUS
<1> USE DEF RestInv
<1>1. UNCHANGED <<rev, failures, query, fetch, stream, sent, meta, error>>
      /\ pipe # << >> /\ pipe' = Tail(pipe) /\ Draw(query, Head(pipe)) /\ Loading(loads, 1, FALSE)
  BY DEF Message, server
<1>2. pipe \in Seq(1..rev) /\ rev \in Nat /\ loads \in [Counted -> Nat] /\ loads[Asked] \in Nat
      /\ (\A a \in Answers : loads[a] \in Nat) /\ syncing \in BOOLEAN
  BY RestNumbers DEF PageInv, ShownInv
<1>3. Head(pipe) \in Nat
  BY <1>1, <1>2
<1>4. /\ graph'.query = query /\ graph'.rev = Head(pipe) /\ seen'.meta = seen.meta
      /\ seen'.graph \in Nat /\ seen'.graph >= Head(pipe)
  BY <1>1, <1>3, DrawRests
<1>5. loads'[Asked] > 0 /\ \A a \in Answers : loads'[a] = loads[a]
  <2>1. /\ loads'[Asked] \in Nat /\ loads'[Asked] >= loads[Asked] + 1
        /\ \A a \in Answers : loads'[a] = loads[a]
    BY <1>1, <1>2, LoadingAsks
  <2> QED BY <1>2, <2>1
<1>6. pipe' = << >> => Head(pipe) = sent
  <2>1. ASSUME pipe' = << >> PROVE Head(pipe) = pipe[Len(pipe)]
    <3>1. pipe \in Seq(1..rev) /\ pipe # << >> /\ Tail(pipe) = << >>
      BY <1>1, <1>2, <2>1
    <3> QED BY <3>1, LastOfQueue
  <2> QED BY <1>1, <2>1 DEF PipeEnds
<1>7. PipeEnds'
  <2>1. ASSUME pipe' # << >> PROVE pipe'[Len(pipe')] = sent
    <3>1. Len(pipe') \in Nat /\ Len(pipe') = Len(pipe) - 1 /\ Len(pipe') > 0
      BY <1>1, <1>2, <2>1
    <3>2. pipe'[Len(pipe')] = pipe[Len(pipe)]
      BY <1>1, <1>2, <3>1
    <3> QED BY <1>1, <3>2 DEF PipeEnds
  <2>2. stream = "open" \/ pipe' = << >>
    BY <1>1 DEF PipeEnds, PageInv, StreamInv
  <2> QED BY <1>1, <2>1, <2>2 DEF PipeEnds
<1>8. DrawnLast'
  BY <1>1, <1>3, <1>4, <1>6 DEF DrawnLast, Drained
<1>9. LoadedLast'
  BY <1>1, <1>4, <1>5, Numbers DEF LoadedLast, Coming
<1> QED BY <1>7, <1>8, <1>9

\* A second connection that draws is remembered, as is how new its graph was, and it
\* too asks for the summaries.
LEMMA SecondMessageRests ==
  ASSUME RestInv, NEW r, SecondMessage(r)
  PROVE  PipeEnds' /\ DrawnLast' /\ LoadedLast'
<1> USE DEF RestInv
<1>1. /\ UNCHANGED <<rev, failures, query, fetch, stream, pipe, sent, meta, error>>
      /\ second # None /\ r \in 1..rev /\ graph' = [query |-> second, rev |-> r] /\ stray' = TRUE
      /\ seen' = [seen EXCEPT !.graph = IF second = query THEN Larger(@, r) ELSE @]
      /\ Loading(loads, 1, FALSE)
  BY DEF SecondMessage, server
<1>2. /\ rev \in Nat /\ loads \in [Counted -> Nat] /\ loads[Asked] \in Nat /\ syncing \in BOOLEAN
      /\ seen = [graph |-> seen.graph, meta |-> seen.meta] /\ seen.graph \in Nat /\ sent \in Nat
  BY RestNumbers DEF PageInv, ShownInv
<1>3. /\ seen'.meta = seen.meta /\ seen'.graph \in Nat /\ seen'.graph >= seen.graph
      /\ second = query => seen'.graph >= r
  BY <1>1, <1>2 DEF Larger
<1>4. loads'[Asked] > 0
  <2>1. loads'[Asked] \in Nat /\ loads'[Asked] >= loads[Asked] + 1
    BY <1>1, <1>2, LoadingAsks
  <2> QED BY <1>2, <2>1
<1>5. \A a \in Answers : loads'[a] = loads[a]
  BY <1>1, <1>2, LoadingAsks
<1>6. DrawnLast'
  BY <1>1, <1>2, <1>3 DEF DrawnLast, Drained
<1>7. LoadedLast'
  BY <1>1, <1>3, <1>4, <1>5, Numbers DEF LoadedLast, Coming
<1> QED BY <1>1, <1>6, <1>7, RestKeeps

\* The poll of the syncing screen only adds a call.
LEMMA PollRests == RestInv /\ Poll => PipeEnds' /\ DrawnLast' /\ LoadedLast'
<1> SUFFICES ASSUME RestInv, Poll PROVE PipeEnds' /\ DrawnLast' /\ LoadedLast'
  OBVIOUS
<1> USE DEF RestInv
<1>1. UNCHANGED <<rev, failures, query, fetch, stream, pipe, sent, second, graph, stray, meta, error, seen>>
      /\ Loading(loads, 1, syncing) /\ syncing \in BOOLEAN
  BY DEF Poll, server, PageInv, ShownInv
<1>2. loads \in [Counted -> Nat] /\ loads[Asked] \in Nat
  BY RestNumbers
<1>3. loads'[Asked] > 0 /\ \A a \in Answers : loads'[a] = loads[a]
  <2>1. /\ loads'[Asked] \in Nat /\ loads'[Asked] >= loads[Asked] + 1
        /\ \A a \in Answers : loads'[a] = loads[a]
    BY <1>1, <1>2, LoadingAsks
  <2> QED BY <1>2, <2>1
<1>4. LoadedLast'
  BY <1>1, <1>3, Numbers DEF LoadedLast, Coming
<1> QED BY <1>1, <1>4, RestKeeps

\* Delivered summaries are counted as seen before they leave the answers.
LEMMA DeliverSummariesRests ==
  ASSUME RestInv, NEW a \in Answers, DeliverSummaries(a)
  PROVE  PipeEnds' /\ DrawnLast' /\ LoadedLast'
<1> USE DEF RestInv
<1> DEFINE rest == [loads EXCEPT ![a] = @ - 1]
<1>1. UNCHANGED <<rev, failures, query, fetch, stream, pipe, sent, second, graph, stray>> /\ loads[a] > 0
  BY DEF DeliverSummaries, server
<1>2. /\ loads \in [Counted -> Nat] /\ a \in Counted /\ Asked \in Counted /\ Asked # a
      /\ syncing \in BOOLEAN
  BY RestNumbers, Numbers DEF Counted, PageInv, ShownInv
<1>3. rest \in [Counted -> Nat] /\ rest[Asked] = loads[Asked] /\ \A b \in Counted \ {a} : rest[b] = loads[b]
  BY <1>1, <1>2
<1>4. rest[a] <= loads[a] /\ rest[a] \in Nat
  BY <1>1, <1>2
<1>5. \E s \in BOOLEAN : Loading(rest, 0, s)
  BY <1>2 DEF DeliverSummaries
<1>6. /\ loads'[Asked] \in Nat /\ loads'[Asked] >= loads[Asked]
      /\ \A b \in Answers : loads'[b] = rest[b]
  <2> HIDE DEF rest
  <2>1. PICK s \in BOOLEAN : Loading(rest, 0, s)
    BY <1>5
  <2>2. /\ loads'[Asked] \in Nat /\ loads'[Asked] >= rest[Asked] + 0
        /\ \A b \in Answers : loads'[b] = rest[b]
    BY <1>2, <1>3, <2>1, LoadingAsks
  <2>3. loads[Asked] \in Nat
    BY <1>2
  <2> QED BY <1>3, <2>2, <2>3
<1>7. a \in 0..rev \/ a = Failed
  BY <1>1 DEF PageInv, LoadsInv
<1>8. /\ seen'.graph = seen.graph /\ seen'.meta \in Nat /\ seen'.meta >= seen.meta
      /\ meta' <= seen'.meta
      /\ a # NotReady /\ a # Failed => seen'.meta >= a
  <2>1. seen = [graph |-> seen.graph, meta |-> seen.meta] /\ seen.meta \in Nat /\ meta <= seen.meta /\ rev \in Nat
    BY RestNumbers DEF LoadedLast
  <2>2. CASE a = NotReady \/ a = Failed
    <3>1. UNCHANGED <<meta, seen>>
      BY <2>2, Numbers DEF DeliverSummaries
    <3> QED BY <2>1, <2>2, <3>1
  <2>3. CASE a # NotReady /\ a # Failed
    <3>1. meta' = a /\ seen' = [seen EXCEPT !.meta = Larger(@, a)] /\ a \in 0..rev
      BY <1>7, <2>3 DEF DeliverSummaries
    <3>2. seen'.graph = seen.graph /\ seen'.meta = Larger(seen.meta, a)
      BY <2>1, <3>1
    <3> QED BY <2>1, <3>1, <3>2 DEF Larger
  <2> QED BY <2>2, <2>3
<1>9. DrawnLast'
  BY <1>1, <1>8 DEF DrawnLast, Drained
<1>10. failures = 0 => loads'[Failed] = 0
  <2>1. Failed \in Answers /\ Failed \in Counted
    BY Numbers DEF Counted
  <2>2. ASSUME failures = 0 PROVE loads[Failed] = 0 /\ a # Failed
    BY <1>1, <2>2 DEF LoadedLast
  <2> HIDE DEF rest
  <2> QED BY <1>3, <1>6, <2>1, <2>2
<1>11. ASSUME failures = 0, Drained, Coming(sent) PROVE Coming(sent)' \/ seen'.meta >= sent
  <2>1. sent \in Nat /\ sent > 0 /\ sent <= rev /\ rev \in Nat /\ loads[Asked] \in Nat
    BY <1>11, RestNumbers DEF Drained
  <2>2. CASE loads[Asked] > 0
    BY <1>6, <2>1, <2>2 DEF Coming
  <2>3. ASSUME NEW b \in sent..MaxRev, loads[b] > 0 PROVE Coming(sent)' \/ seen'.meta >= sent
    <3>1. b \in Answers /\ b \in Counted /\ b >= sent /\ b # NotReady /\ b # Failed
      BY <2>1, Numbers DEF NotReady, Failed, Answers, Counted
    <3>2. CASE b = a
      BY <1>8, <2>1, <3>1, <3>2
    <3>3. CASE b # a
      <4>1. loads'[b] = loads[b]
        BY <1>3, <1>6, <3>1, <3>3
      <4> QED BY <1>1, <2>3, <4>1 DEF Coming
    <3> QED BY <3>2, <3>3
  <2> QED BY <1>11, <2>2, <2>3 DEF Coming
<1>12. LoadedLast'
  <2>1. Drained' = Drained /\ sent' = sent /\ failures' = failures /\ seen.meta \in Nat /\ sent \in Nat
    BY <1>1, RestNumbers DEF Drained
  <2>2. Drained /\ failures = 0 /\ seen.meta >= sent => seen'.meta >= sent
    BY <1>8, <2>1
  <2> QED BY <1>8, <1>10, <1>11, <2>1, <2>2 DEF LoadedLast
<1> QED BY <1>1, <1>9, <1>12, RestKeeps

\* Every step keeps the three parts.
LEMMA RestNext == RestInv /\ [Next]_vars => RestInv'
<1> SUFFICES ASSUME RestInv, [Next]_vars PROVE PipeEnds' /\ DrawnLast' /\ LoadedLast'
  BY PageNext DEF RestInv
<1>1. CASE UNCHANGED vars
  BY <1>1, RestKeeps DEF vars, RestInv
<1> QED BY <1>1, ServerRests, AnswersRest, DeliverGraphRests, MessageRests, SecondMessageRests,
           DeliverSummariesRests, PollRests DEF Next

\* With the open stream drained, for any number of queries, States and failures:
\* the graph on screen is the newest State of the query on screen unless a second
\* connection, or the answer of /api/graph, older than one drawn, came last, and once nothing more is asked
\* the summaries are the newest unless an older answer came last or something
\* failed (App.tsx:163-215).  The safety part of PageSettles: what the page is left
\* with when nothing more happens.
THEOREM PageComesToRestOnTheNewest == Spec => [](GraphAtRest /\ SummariesAtRest)
<1>1. RestInv => GraphAtRest
  <2> SUFFICES ASSUME RestInv, StreamRests, ~stray
               PROVE  graph.query = query
                      /\ (graph.rev = rev \/ (fetch[query] = Unasked /\ graph.rev < seen.graph))
    BY DEF GraphAtRest
  <2>1. PageInv /\ rev \in Nat /\ graph.rev \in Nat /\ seen.graph \in Nat
    BY RestNumbers DEF RestInv
  <2>2. seen.graph <= rev
    BY <2>1 DEF PageInv, ShownInv
  <2>3. /\ graph.query = query /\ seen.graph >= rev /\ graph.rev <= seen.graph
        /\ graph.rev >= rev \/ fetch[query] = Unasked
    BY DEF RestInv, DrawnLast, Drained, StreamRests
  <2> QED BY <2>1, <2>2, <2>3
<1>2. RestInv => SummariesAtRest
  <2> SUFFICES ASSUME RestInv, StreamRests, failures = 0, \A a \in Answers \cup {Asked} : loads[a] = 0
               PROVE  meta = rev \/ meta < seen.meta
    BY DEF SummariesAtRest
  <2>1. PageInv /\ rev \in Nat /\ meta \in Nat /\ seen.meta \in Nat /\ meta <= seen.meta
    BY RestNumbers DEF RestInv, LoadedLast
  <2>2. seen.meta <= rev
    BY <2>1 DEF PageInv, ShownInv
  <2>3. ~Coming(sent)
    <3>1. rev..MaxRev \subseteq Answers
      BY <2>1, Numbers
    <3> QED BY <3>1 DEF Coming, StreamRests
  <2>4. seen.meta >= rev
    BY <2>3 DEF RestInv, LoadedLast, Drained, StreamRests
  <2> QED BY <2>1, <2>2, <2>4
<1> QED BY <1>1, <1>2, PageInit, RestInit, RestNext, PTL DEF Spec, RestInv
=============================================================================
