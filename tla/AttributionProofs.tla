------------------------- MODULE AttributionProofs --------------------------
(***************************************************************************)
(* Proofs about Attribution, for any objects, kinds and owners that        *)
(* Kubernetes lets own one another, and any number of changes.             *)
(***************************************************************************)
EXTENDS Attribution, FiniteSetTheorems, WellFoundedInduction, TLAPS

-----------------------------------------------------------------------------
(* The pods of the nodes add up to the pods.                                   *)

\* A set of subsets of a finite set has one that no other is within.
LEMMA Smallest ==
  ASSUME NEW D, IsFiniteSet(D), NEW T \in SUBSET (SUBSET D), T # {}
  PROVE  \E s \in T : \A t \in T : t \subseteq s => t = s
<1>1. IsWellFoundedOn(StrictSubsetOrdering(D), SUBSET D)
  BY FS_StrictSubsetOrderingWellFounded, FS_FiniteSubsetsOfFinite
<1>2. PICK s \in T : \A t \in T : <<t, s>> \notin StrictSubsetOrdering(D)
  BY <1>1, WFMin
<1> QED BY <1>2 DEF StrictSubsetOrdering

Some(s) == CHOOSE x \in s : TRUE
Rest(s) == s \ {Some(s)}

Pods(w, D) == MapThenSumSet(LAMBDA ref : w[ref].replicas, D)

\* Sizes of the classes of a partition, added up one after the other, make the
\* size of the whole.
LEMMA ClassesAddUp ==
  ASSUME NEW D, IsFiniteSet(D), NEW L, IsFiniteSet(L), NEW root \in [L -> D], NEW w,
         \A d \in D : w[d].replicas = Cardinality({p \in L : root[p] = d})
  PROVE  Pods(w, D) = Cardinality(L)
<1> DEFINE Within(s) == {p \in L : root[p] \in s}
           Step(it, s) == IF s = {} THEN 0 ELSE w[Some(s)].replicas + it[Rest(s)]
           Is(it) == it = [s \in SUBSET D |-> Step(it, s)]
           sum == CHOOSE it : Is(it)
           sizes == [s \in SUBSET D |-> Cardinality(Within(s))]
<1>1. Pods(w, D) = sum[D]
  BY DEF Pods, MapThenSumSet, MapThenFoldSet, Some, Rest
<1>2. ASSUME NEW s \in SUBSET D, s # {}
      PROVE  /\ Some(s) \in D /\ Rest(s) \in SUBSET D /\ Rest(s) \subseteq s /\ Rest(s) # s
             /\ Cardinality(Within(s)) = w[Some(s)].replicas + Cardinality(Within(Rest(s)))
  <2>1. /\ Some(s) \in s /\ Some(s) \in D /\ Some(s) \notin Rest(s)
        /\ Rest(s) \in SUBSET D /\ Rest(s) \subseteq s /\ Rest(s) # s
        /\ s = Rest(s) \cup {Some(s)}
    BY <1>2 DEF Some, Rest
  <2> DEFINE A == {p \in L : root[p] = Some(s)}
             B == Within(Rest(s))
  <2>2. IsFiniteSet(A) /\ IsFiniteSet(B)
    BY FS_Subset
  <2>3. Within(s) = A \cup B /\ A \cap B = {}
    BY <2>1
  <2>4. w[Some(s)].replicas = Cardinality(A)
    BY <2>1
  <2> HIDE DEF A
  <2>5. Cardinality(A \cup B) = Cardinality(A) + Cardinality(B) - Cardinality(A \cap B)
    <3> HIDE DEF B
    <3> QED BY <2>2, FS_Union
  <2>6. Cardinality(A \cap B) = 0
    BY <2>3, FS_EmptySet
  <2>7. Cardinality(A) \in Nat /\ Cardinality(B) \in Nat
    BY <2>2, FS_CardinalityType
  <2>8. Cardinality(A \cup B) = Cardinality(A) + Cardinality(B)
    <3> HIDE DEF B
    <3> QED BY <2>5, <2>6, <2>7
  <2> QED BY <2>1, <2>3, <2>4, <2>8
<1>3. Cardinality(Within({})) = 0 /\ Within(D) = L
  BY FS_EmptySet
<1>4. \A s \in SUBSET D : sizes[s] = Step(sizes, s)
  <2> TAKE s \in SUBSET D
  <2>1. CASE s = {}
    BY <1>3, <2>1
  <2>2. CASE s # {}
    BY <1>2, <2>2
  <2> QED BY <2>1, <2>2
<1>5. Is(sizes)
  <2>1. sizes = [s \in SUBSET D |-> sizes[s]]
    OBVIOUS
  <2> HIDE DEF sizes, Step
  <2> QED BY <1>4, <2>1
<1>6. \A s \in SUBSET D : sum[s] = Step(sum, s)
  <2>1. Is(sum)
    BY <1>5
  <2> HIDE DEF sum
  <2> QED BY <2>1
<1> HIDE DEF sum, sizes, Within
<1> DEFINE Bad == {s \in SUBSET D : sum[s] # sizes[s]}
<1>7. Bad = {}
  <2>1. SUFFICES ASSUME Bad # {} PROVE FALSE
    OBVIOUS
  <2>2. PICK s \in Bad : \A t \in Bad : t \subseteq s => t = s
    <3>1. Bad \in SUBSET (SUBSET D)
      OBVIOUS
    <3> HIDE DEF Bad
    <3> QED BY <2>1, <3>1, Smallest
  <2>3. s # {} /\ s \in SUBSET D
    BY <1>4, <1>6
  <2>4. Rest(s) \in SUBSET D /\ Rest(s) \notin Bad
    BY <1>2, <2>2, <2>3
  <2>5. sum[Rest(s)] = sizes[Rest(s)]
    BY <2>4
  <2> QED BY <1>4, <1>6, <2>2, <2>3, <2>5
<1>8. sizes[D] = Cardinality(L)
  BY <1>3 DEF sizes
<1> QED BY <1>1, <1>7, <1>8

-----------------------------------------------------------------------------
(* What collectWorkloads returns. *)

\* A store holds objects, of which only pods finish.
IsStore(s) ==
  /\ s \in [Objects -> Values]
  /\ \A o \in Objects : KindOf[o] # "Pod" => s[o] \in Labels \cup {Absent}

LEMMA RootsAreObjects ==
  ASSUME NEW r, NEW p \in Objects
  PROVE  Root(r, p) \in Objects
BY AttributionAssumption DEF Root

\* A pod is drawn as itself when nothing owns it, and as a detail only when the
\* detail was not there to be read.
LEMMA RootsAreOwners ==
  ASSUME NEW r, NEW p \in Objects
  PROVE  /\ OwnerOf[p] = None => Root(r, p) = p
         /\ OwnerOf[p] # None => KindOf[Root(r, p)] # "Pod"
         /\ OwnerOf[p] # None /\ Root(r, p) \in Details => r[Root(r, p)] = Absent
BY AttributionAssumption DEF Root, Details

\* How many pods a node shows.
Shown(r, s, ref) == IF PodsOf(r, ref) = {} THEN s[ref] ELSE Cardinality(PodsOf(r, ref))

LEMMA NodesAreOf ==
  ASSUME NEW r, NEW s, NEW n \in Workloads(r, s), IsStore(r)
  PROVE  /\ DOMAIN n = Known(r) \cup Synthetic(r) /\ DOMAIN n \subseteq Objects
         /\ \A ref \in DOMAIN n : n[ref].labels \in Labels /\ n[ref].replicas = Shown(r, s, ref)
<1>1. PICK first \in [Synthetic(r) -> Live(r)] :
        /\ \A ref \in Synthetic(r) : first[ref] \in PodsOf(r, ref)
        /\ n = [ref \in Known(r) \cup Synthetic(r) |->
                  [labels |-> IF ref \in Known(r) THEN r[ref] ELSE r[first[ref]],
                   replicas |-> Shown(r, s, ref)]]
  BY DEF Workloads, Shown
<1>2. Known(r) \cup Synthetic(r) \subseteq Objects
  BY RootsAreObjects DEF Known, Synthetic, Live
<1>3. ASSUME NEW ref \in Known(r) PROVE r[ref] \in Labels
  BY DEF Known, IsStore, Controllers
<1>4. ASSUME NEW ref \in Synthetic(r) PROVE r[first[ref]] \in Labels
  BY <1>1 DEF Live
<1> QED BY <1>1, <1>2, <1>3, <1>4

LEMMA LiveIsFinite ==
  ASSUME NEW r
  PROVE  IsFiniteSet(Live(r)) /\ \A ref : IsFiniteSet(PodsOf(r, ref))
<1>1. Live(r) \subseteq Objects /\ \A ref : PodsOf(r, ref) \subseteq Live(r)
  BY DEF Live, PodsOf
<1> QED BY <1>1, FS_Subset, AttributionAssumption

\* A node without pods was returned by a lister.
LEMMA UnmannedAreKnown ==
  ASSUME NEW r, NEW ref \in Known(r) \cup Synthetic(r), PodsOf(r, ref) = {}
  PROVE  ref \in Known(r) /\ r[ref] # Absent
BY DEF Known, Synthetic, PodsOf

\* Every live pod is counted once, by a node that has pods.
LEMMA PodsAddUp ==
  ASSUME NEW r, NEW s, NEW n \in Workloads(r, s), IsStore(r), NEW D,
         D = {ref \in DOMAIN n : PodsOf(r, ref) # {}}
  PROVE  Pods(n, D) = Cardinality(Live(r))
<1> DEFINE root == [p \in Live(r) |-> Root(r, p)]
<1>1. /\ DOMAIN n = Known(r) \cup Synthetic(r) /\ DOMAIN n \subseteq Objects
      /\ \A ref \in D : n[ref].replicas = Cardinality(PodsOf(r, ref))
  BY NodesAreOf DEF Shown
<1>2. root \in [Live(r) -> D]
  <2>1. \A p \in Live(r) : Root(r, p) \in DOMAIN n /\ p \in PodsOf(r, Root(r, p))
    BY <1>1 DEF Synthetic, PodsOf
  <2> QED BY <2>1
<1>3. \A ref : {p \in Live(r) : root[p] = ref} = PodsOf(r, ref)
  BY DEF PodsOf
<1>4. IsFiniteSet(D) /\ IsFiniteSet(Live(r))
  <2>1. D \subseteq Objects
    BY <1>1
  <2> QED BY <2>1, LiveIsFinite, FS_Subset, AttributionAssumption
<1>5. \A ref \in D : n[ref].replicas = Cardinality({p \in Live(r) : root[p] = ref})
  BY <1>1, <1>3
<1> HIDE DEF root
<1> QED BY <1>2, <1>4, <1>5, ClassesAddUp

-----------------------------------------------------------------------------
(* The invariant. *)

Stores == IsStore(cluster) /\ IsStore(cache) /\ IsStore(read)

Counts == status \in [{"cluster", "cache", "read"} -> [Objects -> Nat]]

Loop == dirty \in BOOLEAN /\ next \in 0..(Len(Order) + 1) /\ changes \in 0..MaxChanges

NodesTyped ==
  /\ DOMAIN nodes \subseteq Objects
  /\ \A ref \in DOMAIN nodes : nodes[ref].labels \in Labels /\ nodes[ref].replicas \in Nat

NodesInv == next = 0 => nodes \in Workloads(read, status.read)

\* The kinds that were read since the token was taken.
Fresh(k) == IF next = 0 THEN k \in ReadKinds ELSE \E i \in 1..(next - 1) : i <= Len(Order) /\ k = Order[i]

\* What was read is what the caches have, or a rebuild is due.
LagInv ==
  dirty \/ \A o \in Objects : Fresh(KindOf[o]) => read[o] = cache[o] /\ status.read[o] = status.cache[o]

AttributionInv == Stores /\ Counts /\ Loop /\ NodesTyped /\ NodesInv /\ LagInv

LEMMA Kinds == Len(Order) = 7 /\ Len(Order) \in Nat /\ {"ReplicaSet", "Job"} \subseteq ReadKinds
<1>1. Len(Order) = 7 /\ Order[5] = "Job" /\ Order[6] = "ReplicaSet"
  BY DEF Order
<1> QED BY <1>1 DEF ReadKinds

LEMMA NewNodesAreTyped ==
  ASSUME NEW n \in Workloads(read, status.read), IsStore(read), Counts
  PROVE  /\ DOMAIN n \subseteq Objects
         /\ \A ref \in DOMAIN n : n[ref].labels \in Labels /\ n[ref].replicas \in Nat
<1>1. \A ref \in Objects : Shown(read, status.read, ref) \in Nat
  BY LiveIsFinite, FS_CardinalityType DEF Shown, Counts
<1> QED BY <1>1, NodesAreOf

LEMMA CountsAreNumbers == \A o \in Objects : Counted(o) \in Nat
<1>1. \A o \in Objects : IsFiniteSet(Unfinished(o))
  <2>1. \A o \in Objects : Unfinished(o) \subseteq Objects
    BY DEF Unfinished
  <2> QED BY <2>1, FS_Subset, AttributionAssumption
<1> QED BY <1>1, LiveIsFinite, FS_CardinalityType DEF Counted

LEMMA AttributionInit == Init => AttributionInv
<1> SUFFICES ASSUME Init PROVE AttributionInv
  OBVIOUS
<1>1. Stores
  BY StandingAssumption DEF Init, Stores, IsStore, Values
<1>2. Loop
  <2>1. 0 \in 0..(Len(Order) + 1) /\ 0 \in 0..MaxChanges
    BY Kinds, AttributionAssumption
  <2> QED BY <2>1 DEF Init, Loop
<1>3. Counts /\ status.read = status.cache
  <2> DEFINE counts == [o \in Objects |-> IF o \in Known(cluster) THEN Counted(o) ELSE 0]
  <2>1. status = [cluster |-> counts, cache |-> counts, read |-> counts]
    BY DEF Init
  <2>2. counts \in [Objects -> Nat]
    BY CountsAreNumbers
  <2> QED BY <2>1, <2>2 DEF Counts
<1>4. NodesTyped
  BY <1>1, <1>3, NewNodesAreTyped DEF Init, NodesTyped, Stores
<1> QED BY <1>1, <1>2, <1>3, <1>4 DEF Init, AttributionInv, NodesInv, LagInv

\* One object of the cluster changes.
LEMMA ClusterChanges ==
  ASSUME AttributionInv, NEW o \in Objects, NEW v \in Values,
         KindOf[o] # "Pod" => v \in Labels \cup {Absent},
         Put(o, v), changes' \in 0..MaxChanges
  PROVE  AttributionInv'
<1>1. IsStore(cluster')
  BY DEF AttributionInv, Stores, IsStore, Put
<1>2. Stores'
  BY <1>1 DEF AttributionInv, Stores, Put
<1>3. Counts' /\ status'.read = status.read /\ status'.cache = status.cache
  BY DEF AttributionInv, Counts, Put
<1>4. Loop' /\ NodesTyped' /\ NodesInv' /\ LagInv'
  BY <1>3 DEF AttributionInv, Loop, NodesTyped, NodesInv, LagInv, Fresh, Put
<1> QED BY <1>2, <1>3, <1>4 DEF AttributionInv

LEMMA ChangesCount ==
  ASSUME Loop, NEW o, NEW v, Change(o, v)
  PROVE  changes' \in 0..MaxChanges
BY AttributionAssumption DEF Loop, Change

LEMMA UpdatedIsStore ==
  ASSUME NEW s, IsStore(s), NEW t, IsStore(t), NEW k
  PROVE  IsStore(Updated(s, k, t))
BY DEF IsStore, Updated

LEMMA UpdatedIsCount ==
  ASSUME NEW s \in [Objects -> Nat], NEW t \in [Objects -> Nat], NEW k
  PROVE  Updated(s, k, t) \in [Objects -> Nat]
BY DEF Updated

LEMMA AttributionNext == AttributionInv /\ [Next]_vars => AttributionInv'
<1> SUFFICES ASSUME AttributionInv, [Next]_vars PROVE AttributionInv'
  OBVIOUS
<1>1. ASSUME NEW o \in Objects, Create(o) PROVE AttributionInv'
  <2>1. PICK v \in Labels \cup {Absent, Done} : Change(o, v) /\ (KindOf[o] # "Pod" => v \in Labels \cup {Absent})
    <3>1. CASE OwnerOf[o] = None
      BY <1>1, <3>1 DEF Create
    <3>2. CASE OwnerOf[o] # None
      <4>1. OwnerOf[o] \in Objects /\ KindOf[OwnerOf[o]] # "Pod"
        BY <3>2, AttributionAssumption
      <4>2. cluster[OwnerOf[o]] \in Labels \cup {Absent}
        BY <4>1 DEF AttributionInv, Stores, IsStore
      <4> QED BY <1>1, <3>2, <4>2 DEF Create
    <3> QED BY <3>1, <3>2
  <2> QED BY <2>1, ClusterChanges, ChangesCount DEF Change, Values, AttributionInv
<1>2. ASSUME NEW o \in Objects, Retemplate(o) PROVE AttributionInv'
  <2>1. PICK l \in Labels : Change(o, l)
    BY <1>2 DEF Retemplate
  <2> QED BY <2>1, ClusterChanges, ChangesCount DEF Change, Values, AttributionInv
<1>3. ASSUME NEW o \in Objects, Finish(o) PROVE AttributionInv'
  <2>1. KindOf[o] = "Pod" /\ Change(o, Done)
    BY <1>3 DEF Finish, Live
  <2> QED BY <2>1, ClusterChanges, ChangesCount DEF Change, Values, AttributionInv
<1>4. ASSUME NEW o \in Objects, Delete(o) PROVE AttributionInv'
  BY <1>4, ClusterChanges, ChangesCount DEF Delete, Change, Values, AttributionInv
<1>5. ASSUME NEW o \in Objects, Collect(o) PROVE AttributionInv'
  <2>1. changes' \in 0..MaxChanges /\ Put(o, Absent)
    BY <1>5 DEF Collect, AttributionInv, Loop
  <2> QED BY <1>5, <2>1, ClusterChanges DEF Collect, Values
<1>6. ASSUME NEW k \in ReadKinds, CatchUp(k) PROVE AttributionInv'
  <2>1. Stores'
    BY <1>6, UpdatedIsStore DEF CatchUp, Caught, AttributionInv, Stores
  <2>2. Counts' /\ status'.read = status.read
    BY <1>6, UpdatedIsCount DEF CatchUp, Caught, AttributionInv, Counts
  <2>3. Loop' /\ NodesTyped' /\ NodesInv' /\ LagInv'
    BY <1>6, <2>2 DEF CatchUp, Caught, AttributionInv, Loop, NodesTyped, NodesInv, LagInv
  <2> QED BY <2>1, <2>2, <2>3 DEF AttributionInv
<1>7. CASE Start
  <2>1. Stores' /\ NodesTyped' /\ Counts'
    BY <1>7 DEF Start, AttributionInv, Stores, NodesTyped, Counts
  <2>2. next' = 1 /\ dirty' = FALSE /\ Loop' /\ NodesInv'
    <3>1. 1 \in 0..(Len(Order) + 1)
      BY Kinds
    <3> QED BY <1>7, <3>1 DEF Start, AttributionInv, Loop, NodesInv
  <2>3. LagInv'
    BY <2>2 DEF LagInv, Fresh
  <2> QED BY <2>1, <2>2, <2>3 DEF AttributionInv
<1>8. CASE ReadLister
  <2>1. /\ next \in 1..7 /\ next' = next + 1 /\ next' # 0
        /\ read' = Updated(read, Order[next], cache)
        /\ status' = [status EXCEPT !.read = Updated(status.read, Order[next], status.cache)]
        /\ UNCHANGED <<cluster, cache, dirty, nodes, changes>>
    BY <1>8, Kinds DEF ReadLister
  <2>2. Stores'
    BY <2>1, UpdatedIsStore DEF AttributionInv, Stores
  <2>5. /\ Counts' /\ status'.cache = status.cache
        /\ status'.read = Updated(status.read, Order[next], status.cache)
    BY <2>1, UpdatedIsCount DEF AttributionInv, Counts
  <2>3. Loop' /\ NodesTyped' /\ NodesInv'
    BY <2>1, Kinds DEF AttributionInv, Loop, NodesTyped, NodesInv
  <2>4. LagInv'
    <3>1. SUFFICES ASSUME ~dirty, NEW o \in Objects, Fresh(KindOf[o])'
                   PROVE  read'[o] = cache[o] /\ status'.read[o] = status.cache[o]
      BY <2>1, <2>5 DEF LagInv
    <3>2. /\ read'[o] = IF KindOf[o] = Order[next] THEN cache[o] ELSE read[o]
          /\ status'.read[o] = IF KindOf[o] = Order[next] THEN status.cache[o] ELSE status.read[o]
      BY <2>1, <2>5 DEF Updated
    <3>3. KindOf[o] = Order[next] \/ Fresh(KindOf[o])
      BY <2>1, <3>1, Kinds DEF Fresh
    <3>4. Fresh(KindOf[o]) => read[o] = cache[o] /\ status.read[o] = status.cache[o]
      BY <3>1 DEF AttributionInv, LagInv
    <3> QED BY <3>2, <3>3, <3>4
  <2> QED BY <2>2, <2>3, <2>4, <2>5 DEF AttributionInv
<1>9. CASE Publish
  <2>1. /\ next = 8 /\ next' = 0 /\ nodes' \in Workloads(read, status.read)
        /\ UNCHANGED <<cluster, cache, dirty, read, status, changes>>
    BY <1>9, Kinds DEF Publish
  <2>2. Stores' /\ Loop' /\ NodesInv' /\ Counts'
    BY <2>1, Kinds DEF AttributionInv, Stores, Loop, NodesInv, Counts
  <2>3. NodesTyped'
    BY <2>1, NewNodesAreTyped DEF AttributionInv, Stores, NodesTyped
  <2>4. LagInv'
    <3>1. \A k \in ReadKinds : Fresh(k)
      BY <2>1, Kinds DEF Fresh, ReadKinds
    <3>2. \A k : Fresh(k)' => k \in ReadKinds
      BY <2>1 DEF Fresh
    <3> QED BY <2>1, <3>1, <3>2 DEF AttributionInv, LagInv
  <2> QED BY <2>2, <2>3, <2>4 DEF AttributionInv
<1>10. CASE UNCHANGED vars
  BY <1>10 DEF vars, AttributionInv, Stores, Counts, Loop, NodesTyped, NodesInv, LagInv, Fresh
<1>11. ASSUME NEW o \in Objects, Recount(o) PROVE AttributionInv'
  <2>1. Counts' /\ status'.read = status.read /\ status'.cache = status.cache
    BY <1>11, CountsAreNumbers DEF Recount, AttributionInv, Counts
  <2> QED BY <1>11, <2>1 DEF Recount, AttributionInv, Stores, Loop, NodesTyped, NodesInv, LagInv, Fresh
<1> QED BY <1>11, <1>1, <1>2, <1>3, <1>4, <1>5, <1>6, <1>7, <1>8, <1>9, <1>10 DEF Next, Rebuild

-----------------------------------------------------------------------------
(* The theorems. *)

LEMMA AttributionStays == Spec => []AttributionInv
BY AttributionInit, AttributionNext, PTL DEF Spec

LEMMA InvIsTyped == AttributionInv => TypeOK
BY DEF AttributionInv, Stores, IsStore, Counts, Loop, NodesTyped, TypeOK

\* A node that is a detail was made for a pod whose owner was not there to be read.
LEMMA DetailsWereAbsent ==
  ASSUME AttributionInv, next = 0, NEW ref \in DOMAIN nodes, ref \in Details
  PROVE  read[ref] = Absent
<1>1. ref \in Known(read) \cup Synthetic(read) /\ ref \in Objects
  BY NodesAreOf DEF AttributionInv, NodesInv, Stores
<1>2. ref \notin Known(read)
  BY DEF Known, Details, Controllers
<1>3. PICK p \in Live(read) : ref = Root(read, p)
  BY <1>1, <1>2 DEF Synthetic
<1>4. p \in Objects /\ KindOf[p] = "Pod"
  BY DEF Live
<1>5. OwnerOf[p] # None
  BY <1>3, <1>4, RootsAreOwners DEF Details
<1> QED BY <1>3, <1>4, <1>5, RootsAreOwners

\* For any cluster, and whatever moments of it the listers showed: every running
\* pod that was read is counted by one node, a node without pods shows what its
\* controller's status says (watcher.go:543), an owned pod is no node, and a
\* ReplicaSet or Job drawn in its owner's place is about to be corrected or gone.
THEOREM EveryPodIsAttributed == Spec => []PodsAreAttributed
<1>1. AttributionInv => PodsAreAttributed
  <2> SUFFICES ASSUME AttributionInv PROVE PodsAreAttributed
    OBVIOUS
  <2>1. ASSUME next = 0
        PROVE  /\ Replicas(Manned) = Cardinality(Live(read))
               /\ \A ref \in DOMAIN nodes \ Manned :
                    read[ref] # Absent /\ nodes[ref].replicas = status.read[ref]
               /\ \A p \in Live(read) : OwnerOf[p] # None => p \notin DOMAIN nodes
    <3>1. nodes \in Workloads(read, status.read) /\ IsStore(read)
      BY <2>1 DEF AttributionInv, NodesInv, Stores
    <3>2. Replicas(Manned) = Cardinality(Live(read))
      <4>1. Pods(nodes, Manned) = Cardinality(Live(read))
        BY <3>1, PodsAddUp DEF Manned
      <4> QED BY <4>1 DEF Pods, Replicas
    <3>4. ASSUME NEW ref \in DOMAIN nodes \ Manned
          PROVE  read[ref] # Absent /\ nodes[ref].replicas = status.read[ref]
      <4>1. ref \in DOMAIN nodes /\ PodsOf(read, ref) = {}
        BY DEF Manned
      <4>2. nodes[ref].replicas = Shown(read, status.read, ref) /\ ref \in Known(read) \cup Synthetic(read)
        BY <3>1, <4>1, NodesAreOf
      <4> QED BY <4>1, <4>2, UnmannedAreKnown DEF Shown
    <3>3. ASSUME NEW p \in Live(read), OwnerOf[p] # None, p \in DOMAIN nodes PROVE FALSE
      <4>1. p \in Objects /\ KindOf[p] = "Pod" /\ p \in Known(read) \cup Synthetic(read)
        BY <3>1, <3>3, NodesAreOf DEF Live
      <4>2. p \notin Known(read)
        BY <4>1 DEF Known, Controllers
      <4>3. PICK q \in Live(read) : p = Root(read, q)
        BY <4>1, <4>2 DEF Synthetic
      <4>4. q \in Objects
        BY DEF Live
      <4> QED BY <3>3, <4>1, <4>3, <4>4, RootsAreOwners
    <3> QED BY <3>2, <3>3, <3>4
  <2>2. ASSUME NEW ref \in DOMAIN nodes \cap Details, ~dirty, next = 0, cache = cluster
        PROVE  cluster[ref] = Absent
    <3>1. read[ref] = Absent
      BY <2>2, DetailsWereAbsent
    <3>2. ref \in Objects /\ KindOf[ref] \in ReadKinds
      BY Kinds DEF Details
    <3>3. read[ref] = cache[ref]
      BY <2>2, <3>2 DEF AttributionInv, LagInv, Fresh
    <3> QED BY <2>2, <3>1, <3>3
  <2> QED BY <2>1, <2>2, InvIsTyped DEF PodsAreAttributed
<1> QED BY <1>1, AttributionStays, PTL

-----------------------------------------------------------------------------
(* At rest. *)

\* Nothing is left to do for the controllers, the garbage collector, the informers
\* and the loop.
Settled ==
  /\ ~dirty /\ next = 0
  /\ \A o \in Objects : KindOf[o] \in ReadKinds =>
       cache[o] = cluster[o] /\ status.cache[o] = status.cluster[o]
  /\ \A o \in Known(cluster) : status.cluster[o] = Counted(o)
  /\ \A o \in Objects : cluster[o] # Absent /\ OwnerOf[o] # None => cluster[OwnerOf[o]] # Absent

AccurateAtRest == Settled => Accurate

LEMMA KindsRead == Controllers \cup {"Job", "ReplicaSet", "Pod"} \subseteq ReadKinds
<1>1. /\ Len(Order) = 7 /\ Order[1] = "Deployment" /\ Order[2] = "StatefulSet"
      /\ Order[3] = "DaemonSet" /\ Order[4] = "CronJob" /\ Order[5] = "Job"
      /\ Order[6] = "ReplicaSet" /\ Order[7] = "Pod"
  BY DEF Order
<1> QED BY <1>1 DEF ReadKinds, Controllers

\* A controller that was read is a node with its own labels.
LEMMA KnownHasItsLabels ==
  ASSUME NEW r, NEW s, NEW n \in Workloads(r, s), NEW ref \in Known(r)
  PROVE  n[ref].labels = r[ref]
BY DEF Workloads

\* At rest what was read last is the cluster, as far as it is read.
LEMMA RestIsRead ==
  ASSUME AttributionInv, Settled
  PROVE  /\ \A o \in Objects : KindOf[o] \in ReadKinds =>
              read[o] = cluster[o] /\ status.read[o] = status.cluster[o]
         /\ Live(read) = Live(cluster)
<1>1. \A o \in Objects : KindOf[o] \in ReadKinds =>
        read[o] = cluster[o] /\ status.read[o] = status.cluster[o]
  BY DEF Settled, AttributionInv, LagInv, Fresh
<1> QED BY <1>1, KindsRead DEF Live

\* ... and rootRef finds what stands above a pod.
LEMMA RootsAreAbove ==
  ASSUME AttributionInv, Settled, NEW p \in Live(cluster)
  PROVE  /\ Root(read, p) = Above(p) /\ Root(cluster, p) = Above(p)
         /\ OwnerOf[p] # None => cluster[Above(p)] # Absent
<1>1. p \in Objects /\ cluster[p] # Absent /\ KindOf[p] = "Pod"
  <2>1. cluster[p] \in Labels /\ p \in Objects /\ KindOf[p] = "Pod"
    BY DEF Live
  <2>2. cluster[p] # Absent
    BY <2>1, AttributionAssumption
  <2> QED BY <2>1, <2>2
<1>2. CASE OwnerOf[p] = None
  BY <1>2, AttributionAssumption DEF Root, Above, Details
<1>3. CASE OwnerOf[p] # None
  <2>1. OwnerOf[p] \in Objects /\ cluster[OwnerOf[p]] # Absent
    BY <1>1, <1>3, AttributionAssumption DEF Settled
  <2>2. CASE OwnerOf[p] \in Details
    <3>1. /\ KindOf[OwnerOf[p]] \in {"ReplicaSet", "Job"} /\ OwnerOf[OwnerOf[p]] # None
      BY <2>2 DEF Details
    <3>2. read[OwnerOf[p]] # Absent
      BY <2>1, <3>1, RestIsRead, KindsRead
    <3>3. cluster[OwnerOf[OwnerOf[p]]] # Absent
      BY <2>1, <3>1 DEF Settled
    <3>4. Above(p) = OwnerOf[OwnerOf[p]]
      BY <2>2 DEF Above
    <3>5. Root(read, p) = OwnerOf[OwnerOf[p]] /\ Root(cluster, p) = OwnerOf[OwnerOf[p]]
      BY <1>3, <2>1, <3>1, <3>2 DEF Root
    <3> QED BY <3>3, <3>4, <3>5
  <2>3. CASE OwnerOf[p] \notin Details
    BY <1>3, <2>1, <2>3 DEF Root, Above, Details
  <2> QED BY <2>2, <2>3
<1> QED BY <1>2, <1>3

\* For any cluster, kinds and owners and any history of it: when the controllers, the
\* garbage collector, the informers and the loop have nothing left to do, the
\* nodes are the workloads of the cluster as it is, with the pods each stands above,
\* or as many as a CronJob without pods has unfinished Jobs, and the labels of
\* its controller, whatever was read while it changed
\* (watcher.go:451-570).  The safety part of AttributionSettles.
THEOREM AttributionRestsOnTheCluster == Spec => []AccurateAtRest
<1>1. AttributionInv => AccurateAtRest
  <2> SUFFICES ASSUME AttributionInv, Settled PROVE Accurate
    BY DEF AccurateAtRest
  <2>1. nodes \in Workloads(read, status.read) /\ IsStore(read)
    BY DEF AttributionInv, NodesInv, Stores, Settled
  <2>2. /\ DOMAIN nodes = Known(read) \cup {Root(read, p) : p \in Live(read)}
        /\ DOMAIN nodes = Known(read) \cup Synthetic(read)
        /\ \A ref \in DOMAIN nodes : nodes[ref].replicas = Shown(read, status.read, ref)
    BY <2>1, NodesAreOf DEF Synthetic
  <2>3. Live(read) = Live(cluster) /\ \A p \in Live(cluster) : Root(read, p) = Above(p)
    BY RestIsRead, RootsAreAbove
  <2>4. {Root(read, p) : p \in Live(read)} = {Above(p) : p \in Live(cluster)}
    BY <2>3
  <2>5. \A o \in Objects : KindOf[o] \in Controllers \cup {"Job"} => read[o] = cluster[o]
    BY RestIsRead, KindsRead
  <2>6. Known(read) = {ref \in Objects \ Details :
                         cluster[ref] # Absent /\ KindOf[ref] \in Controllers \cup {"Job"}}
    <3>1. \A o \in Objects : KindOf[o] \in Controllers => o \notin Details
      BY DEF Controllers, Details
    <3>2. \A o \in Objects : KindOf[o] = "Job" => (o \in Details <=> OwnerOf[o] # None)
      BY DEF Details
    <3> QED BY <2>5, <3>1, <3>2 DEF Known
  <2>7. DOMAIN nodes = WorkloadsOfCluster
    BY <2>2, <2>4, <2>6 DEF WorkloadsOfCluster
  <2>8. ASSUME NEW ref \in DOMAIN nodes
        PROVE  LET pods == {p \in Live(cluster) : Above(p) = ref}
               IN nodes[ref].replicas =
                    Cardinality(IF pods = {} /\ KindOf[ref] = "CronJob" THEN Unfinished(ref) ELSE pods)
    <3> DEFINE pods == {p \in Live(cluster) : Above(p) = ref}
    <3>1. PodsOf(read, ref) = pods /\ PodsOf(cluster, ref) = pods
      BY <2>3, RootsAreAbove DEF PodsOf
    <3>2. CASE pods # {}
      BY <2>2, <3>1, <3>2 DEF Shown
    <3>3. CASE pods = {}
      <4>1. ref \in Known(read) /\ ref \in Objects /\ KindOf[ref] \in ReadKinds
        BY <2>2, <3>1, <3>3, UnmannedAreKnown, KindsRead DEF Known
      <4>2. ref \in Known(cluster) /\ status.read[ref] = status.cluster[ref]
        BY <4>1, RestIsRead DEF Known
      <4>3. nodes[ref].replicas = Counted(ref)
        BY <2>2, <3>1, <3>3, <4>2 DEF Shown, Settled
      <4> QED BY <3>1, <3>3, <4>3 DEF Counted
    <3> QED BY <3>2, <3>3
  <2>9. ASSUME NEW ref \in DOMAIN nodes, KindOf[ref] \in Controllers
        PROVE  nodes[ref].labels = cluster[ref]
    <3>1. ref \in Objects
      BY <2>1, NodesAreOf
    <3>2. cluster[ref] # Absent
      <4>1. CASE ref \in Known(read)
        BY <2>6, <4>1
      <4>2. ASSUME NEW p \in Live(cluster), ref = Above(p) PROVE cluster[ref] # Absent
        <5>1. KindOf[p] = "Pod"
          BY DEF Live
        <5>2. OwnerOf[p] # None
          BY <2>9, <4>2, <5>1, AttributionAssumption DEF Above, Controllers, Details
        <5> QED BY <4>2, <5>2, RootsAreAbove
      <4> QED BY <2>2, <2>4, <4>1, <4>2
    <3>3. ref \in Known(read) /\ read[ref] = cluster[ref]
      BY <2>5, <2>9, <3>1, <3>2 DEF Known
    <3>4. nodes[ref].labels = read[ref]
      BY <2>1, <3>3, KnownHasItsLabels
    <3> QED BY <3>3, <3>4
  <2> QED BY <2>7, <2>8, <2>9 DEF Accurate
<1> QED BY <1>1, AttributionStays, PTL
=============================================================================
