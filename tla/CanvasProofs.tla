---------------------------- MODULE CanvasProofs ----------------------------
(***************************************************************************)
(* Proofs about Canvas for all pictures and bounds: the worker's grid      *)
(* keeps cards apart whichever pictures end its runs, a layout that has    *)
(* ended leaves each card a place of its own inside the frame, and the     *)
(* camera is the viewer's; and about Exposure, the pills beside a card.    *)
(*                                                                         *)
(* First what a block is, and that the turn of the loop which places it    *)
(* keeps all cards apart.  Induction is on the least element of a set of   *)
(* naturals, which needs no operator as a parameter.                       *)
(***************************************************************************)
EXTENDS Canvas, Exposure, FiniteSetTheorems, WellFoundedInduction, TLAPS

-----------------------------------------------------------------------------
(* The grid. *)

\* A set of naturals has a least element: what Pack takes is in todo.
LEMMA Least ==
  ASSUME NEW T \in SUBSET Nat, T # {}
  PROVE  \E m \in T : \A k \in T : m <= k
<1> DEFINE R == {ss \in Nat \X Nat : ss[1] < ss[2]}
<1>1. IsWellFoundedOn(R, Nat)
  BY NatLessThanWellFounded DEF OpToRel
<1> HIDE DEF R
<1>2. PICK m \in T : \A k \in T : ~ (<<k, m>> \in R)
  BY <1>1, WFMin
<1>3. \A k \in T : ~ (k < m)
  BY <1>2 DEF R
<1> QED BY <1>3

\* A finite set of integers has a greatest element: by the least size of one that
\* has none.
LEMMA Greatest ==
  ASSUME NEW S \in SUBSET Int, IsFiniteSet(S), S # {}
  PROVE  \E m \in S : \A k \in S : k <= m
<1> DEFINE None(U) == U # {} /\ \A m \in U : \E k \in U : ~(k <= m)
           Bad == {n \in Nat : \E U \in SUBSET Int : IsFiniteSet(U) /\ Cardinality(U) = n /\ None(U)}
<1>1. SUFFICES ASSUME Bad # {} PROVE FALSE
  <2>1. Cardinality(S) \in Nat
    BY FS_CardinalityType
  <2> QED BY <2>1
<1>2. PICK n \in Bad : \A k \in Bad : n <= k
  BY <1>1, Least
<1>3. PICK U \in SUBSET Int : IsFiniteSet(U) /\ Cardinality(U) = n /\ None(U)
  BY <1>2
<1>4. PICK x \in U : TRUE
  BY <1>3
<1> DEFINE V == U \ {x}
<1>5. IsFiniteSet(V) /\ Cardinality(V) = n - 1
  BY <1>3, <1>4, FS_RemoveElement
<1>6. Cardinality(V) \in Nat
  BY <1>5, FS_CardinalityType
<1>7. ~ None(V)
  BY <1>2, <1>5, <1>6
<1>8. CASE V = {}
  BY <1>3, <1>4, <1>8
<1>9. ASSUME V # {} PROVE FALSE
  <2>1. PICK m \in V : \A k \in V : k <= m
    BY <1>7, <1>9
  <2>2. \A k \in U : k <= m \/ k = x
    BY <2>1
  <2>3. CASE x <= m
    BY <2>1, <2>2, <2>3, <1>3
  <2>4. CASE m <= x
    <3>1. \A k \in U : k <= x
      BY <2>2, <2>1, <2>4, <1>3, <1>4
    <3> QED BY <3>1, <1>3, <1>4
  <2> QED BY <2>1, <2>3, <2>4, <1>3, <1>4
<1> QED BY <1>8, <1>9

\* What Max of the community modules returns.
LEMMA MaxOfFinite ==
  ASSUME NEW S \in SUBSET Nat, IsFiniteSet(S), S # {}
  PROVE  Max(S) \in S /\ \A k \in S : k <= Max(S)
<1>1. \E m \in S : \A k \in S : m >= k
  BY Greatest
<1> QED BY <1>1 DEF Max

\* What Min returns.
LEMMA MinOfNaturals ==
  ASSUME NEW S \in SUBSET Nat, S # {}
  PROVE  Min(S) \in S /\ \A k \in S : Min(S) <= k
<1>1. \E m \in S : \A k \in S : m <= k
  BY Least
<1> QED BY <1>1 DEF Min

\* Multiplication keeps the order of naturals.
LEMMA Monotone ==
  ASSUME NEW a \in Nat, NEW b \in Nat, NEW c \in Nat, a < b
  PROVE  a * c + c <= b * c /\ a * c \in Nat /\ b * c \in Nat
<1>1. PICK d \in Nat : b = a + 1 + d
  <2>1. b - a - 1 \in Nat
    OBVIOUS
  <2> QED BY <2>1
<1>2. b * c = a * c + c + d * c
  BY <1>1
<1>3. d * c \in Nat /\ a * c \in Nat
  OBVIOUS
<1> QED BY <1>2, <1>3

\* Division with remainder.
LEMMA DivMod ==
  ASSUME NEW a \in Nat, NEW c \in Nat \ {0}
  PROVE  /\ a \div c \in Nat
         /\ a % c \in Nat
         /\ a % c < c
         /\ a = (a \div c) * c + (a % c)
OBVIOUS

-----------------------------------------------------------------------------
(* Blocks. *)

\* What packOrphans is given: cards by their positions, each with a size.
IsCards(cards) ==
  /\ IsFiniteSet(DOMAIN cards)
  /\ DOMAIN cards \subseteq Nat
  /\ \A i \in DOMAIN cards : cards[i].w \in Nat /\ cards[i].h \in Nat

\* Sizes, under a function of the positions that is cards' w or h.
LEMMA LargestSize ==
  ASSUME NEW M, IsFiniteSet(M), M # {}, NEW size \in [M -> Nat]
  PROVE  LET m == Max({size[j] : j \in M})
         IN m \in Nat /\ \A j \in M : size[j] <= m
<1> DEFINE S == {size[j] : j \in M}
<1>1. size \in Surjection(M, S)
  BY DEF Surjection
<1>2. IsFiniteSet(S)
  BY <1>1, FS_Surjection
<1>3. S \in SUBSET Nat /\ S # {}
  OBVIOUS
<1>4. Max(S) \in S /\ \A k \in S : k <= Max(S)
  BY <1>2, <1>3, MaxOfFinite
<1> QED BY <1>3, <1>4

\* There is at least one column.
LEMMA ColumnsPositive ==
  ASSUME NEW n \in Nat, NEW w, NEW h
  PROVE  Columns(n, w, h) \in Nat \ {0}
<1> DEFINE C == {c \in 1..n : 9 * w * (2 * c - 1) * (2 * c - 1) <= 64 * n * h}
<1>1. IsFiniteSet({1} \cup C)
  <2>1. IsFiniteSet(1..n)
    BY FS_Interval
  <2>2. IsFiniteSet(C)
    BY <2>1, FS_Subset
  <2>3. IsFiniteSet(C \cup {1})
    BY <2>2, FS_AddElement
  <2> QED BY <2>3
<1>2. {1} \cup C \in SUBSET Nat /\ {1} \cup C # {}
  OBVIOUS
<1>3. Max({1} \cup C) \in {1} \cup C
  BY <1>1, <1>2, MaxOfFinite
<1> QED BY <1>3 DEF Columns

\* A cell has room for each card of the block and a gap, and the block has a cell
\* for each of its cards.
LEMMA BlockFacts ==
  ASSUME NEW cards, IsCards(cards), NEW i \in DOMAIN cards
  PROVE  LET b == Block(cards, i)
         IN /\ b.cellW \in Nat /\ b.cellH \in Nat /\ b.cols \in Nat \ {0}
            /\ b.width = b.cols * b.cellW
            /\ \E rows \in Nat :
                 /\ b.height = rows * b.cellH
                 /\ Cardinality(Members(cards, i)) <= rows * b.cols
            /\ \A j \in Members(cards, i) :
                 cards[j].w + GapX <= b.cellW /\ cards[j].h + GapY <= b.cellH
<1> DEFINE M == Members(cards, i)
           n == Cardinality(M)
           W == Max({cards[j].w : j \in M})
           H == Max({cards[j].h : j \in M})
           cols == Columns(n, W + GapX, H + GapY)
           rows == (n + cols - 1) \div cols
<1>1. M \subseteq DOMAIN cards /\ M # {}
  BY DEF Members
<1>2. IsFiniteSet(M) /\ n \in Nat
  BY <1>1, FS_Subset, FS_CardinalityType DEF IsCards
<1>3. W \in Nat /\ \A j \in M : cards[j].w <= W
  <2> DEFINE size == [j \in M |-> cards[j].w]
  <2>1. size \in [M -> Nat]
    BY <1>1 DEF IsCards
  <2>2. {size[j] : j \in M} = {cards[j].w : j \in M}
    OBVIOUS
  <2> HIDE DEF size, M
  <2>3. Max({size[j] : j \in M}) \in Nat /\ \A j \in M : size[j] <= Max({size[j1] : j1 \in M})
    BY <1>1, <1>2, <2>1, LargestSize
  <2>4. \A j \in M : size[j] = cards[j].w
    BY DEF size
  <2> QED BY <2>2, <2>3, <2>4
<1>4. H \in Nat /\ \A j \in M : cards[j].h <= H
  <2> DEFINE size == [j \in M |-> cards[j].h]
  <2>1. size \in [M -> Nat]
    BY <1>1 DEF IsCards
  <2>2. {size[j] : j \in M} = {cards[j].h : j \in M}
    OBVIOUS
  <2> HIDE DEF size, M
  <2>3. Max({size[j] : j \in M}) \in Nat /\ \A j \in M : size[j] <= Max({size[j1] : j1 \in M})
    BY <1>1, <1>2, <2>1, LargestSize
  <2>4. \A j \in M : size[j] = cards[j].h
    BY DEF size
  <2> QED BY <2>2, <2>3, <2>4
<1>5. \A j \in M : cards[j].w \in Nat /\ cards[j].h \in Nat
  BY <1>1 DEF IsCards
<1>6. cols \in Nat \ {0}
  BY <1>2, ColumnsPositive
<1> HIDE DEF cols, M, n, W, H
<1>7. rows \in Nat /\ n <= rows * cols
  <2> DEFINE a == n + cols - 1
  <2>1. a \in Nat
    BY <1>2, <1>6
  <2>2. a \div cols \in Nat /\ a % cols \in Nat /\ a % cols < cols /\ a = (a \div cols) * cols + (a % cols)
    BY <2>1, <1>6, DivMod
  <2>3. (a \div cols) * cols \in Nat
    BY <2>2, <1>6
  <2> QED BY <2>2, <2>3, <1>2, <1>6
<1>8. Block(cards, i) =
        [cellW |-> W + GapX, cellH |-> H + GapY, cols |-> cols,
         width |-> cols * (W + GapX), height |-> rows * (H + GapY)]
  BY DEF Block, cols, n, W, H, M
<1> HIDE DEF rows
<1> QED
  BY <1>3, <1>4, <1>5, <1>6, <1>7, <1>8 DEF GapX, GapY, M, n

\* The places of the cards of a block are different, and there are as many.
LEMMA IndexFacts ==
  ASSUME NEW cards, IsCards(cards), NEW i \in DOMAIN cards,
         NEW j \in Members(cards, i), NEW k \in Members(cards, i)
  PROVE  /\ Index(cards, j) \in Nat
         /\ Index(cards, j) < Cardinality(Members(cards, i))
         /\ j < k => Index(cards, j) < Index(cards, k)
<1> DEFINE M == Members(cards, i)
           Below(x) == {m \in M : m < x}
<1>1. M \subseteq DOMAIN cards /\ M \subseteq Nat
  BY DEF Members, IsCards
<1>2. IsFiniteSet(M) /\ Cardinality(M) \in Nat
  BY <1>1, FS_Subset, FS_CardinalityType DEF IsCards
<1>3. Members(cards, j) = M /\ Members(cards, k) = M
  BY DEF Members
<1>4. Index(cards, j) = Cardinality(Below(j)) /\ Index(cards, k) = Cardinality(Below(k))
  BY <1>3 DEF Index
<1> HIDE DEF M
<1>5. \A x \in M : IsFiniteSet(Below(x)) /\ Cardinality(Below(x)) \in Nat
                   /\ Below(x) \subseteq M
  <2> TAKE x \in M
  <2>1. Below(x) \in SUBSET M
    OBVIOUS
  <2> QED BY <2>1, <1>2, FS_Subset, FS_CardinalityType
<1>6. j \in M /\ k \in M /\ j \in Nat /\ k \in Nat
  BY <1>1 DEF M
<1>7. Cardinality(Below(j)) < Cardinality(M)
  <2>1. Below(j) # M /\ Below(j) \in SUBSET M
    BY <1>6
  <2> QED BY <2>1, <1>2, <1>5, <1>6, FS_Subset
<1>8. ASSUME j < k PROVE Cardinality(Below(j)) < Cardinality(Below(k))
  <2>1. Below(j) \in SUBSET Below(k) /\ j \in Below(k) /\ j \notin Below(j)
    BY <1>1, <1>6, <1>8
  <2> QED BY <2>1, <1>5, <1>6, FS_Subset
<1> QED BY <1>4, <1>5, <1>6, <1>7, <1>8 DEF M

\* A card lies in its cell, half a gap off its sides, and the cell in its block.
LEMMA CellBounds ==
  ASSUME NEW cards, IsCards(cards), NEW i \in DOMAIN cards,
         NEW row, row.x \in Nat, row.y \in Nat, NEW j \in Members(cards, i)
  PROVE  LET b == Block(cards, i)
             c == CellCentre(cards, b, row, j)
         IN /\ c.x \in Nat /\ c.y \in Nat
            /\ 2 * row.x + cards[j].w + GapX <= c.x
            /\ c.x + cards[j].w + GapX <= 2 * (row.x + b.width)
            /\ 2 * row.y + cards[j].h + GapY <= c.y
            /\ c.y + cards[j].h + GapY <= 2 * (row.y + b.height)
<1> DEFINE b == Block(cards, i)
           n == Cardinality(Members(cards, i))
           k == Index(cards, j)
           col == k % b.cols
           line == k \div b.cols
<1>1. /\ b.cellW \in Nat /\ b.cellH \in Nat /\ b.cols \in Nat \ {0}
      /\ b.width = b.cols * b.cellW
      /\ cards[j].w + GapX <= b.cellW /\ cards[j].h + GapY <= b.cellH
  BY BlockFacts
<1>2. PICK rows \in Nat : b.height = rows * b.cellH /\ n <= rows * b.cols
  BY BlockFacts
<1>3. k \in Nat /\ k < n
  BY IndexFacts
<1>4. n \in Nat
  <2>1. Members(cards, i) \subseteq DOMAIN cards
    BY DEF Members
  <2> QED BY <2>1, FS_Subset, FS_CardinalityType DEF IsCards
<1>5. cards[j].w \in Nat /\ cards[j].h \in Nat
  BY DEF IsCards, Members
<1> HIDE DEF b, n, k
<1>6. line \in Nat /\ col \in Nat /\ col < b.cols /\ k = line * b.cols + col
  BY <1>1, <1>3, DivMod
<1>7. line < rows
  <2>1. SUFFICES ASSUME rows <= line PROVE FALSE
    BY <1>2, <1>6
  <2>2. rows * b.cols <= line * b.cols /\ line * b.cols \in Nat /\ rows * b.cols \in Nat
    <3>1. CASE rows = line
      BY <3>1, <1>1, <1>6
    <3>2. CASE rows < line
      BY <3>2, <1>1, <1>2, <1>6, Monotone
    <3> QED BY <3>1, <3>2, <2>1, <1>6, <1>2
  <2> QED BY <2>2, <1>2, <1>3, <1>4, <1>6
<1> HIDE DEF line, col
<1>8. /\ col * b.cellW + b.cellW <= b.width
      /\ col * b.cellW \in Nat /\ b.width \in Nat
  BY <1>1, <1>6, Monotone
<1>9. /\ line * b.cellH + b.cellH <= b.height
      /\ line * b.cellH \in Nat /\ b.height \in Nat
  BY <1>1, <1>2, <1>6, <1>7, Monotone
<1>10. CellCentre(cards, b, row, j) =
         [x |-> 2 * (row.x + col * b.cellW) + b.cellW, y |-> 2 * (row.y + line * b.cellH) + b.cellH]
  BY DEF CellCentre, col, line, k
<1> QED
  BY <1>1, <1>5, <1>8, <1>9, <1>10 DEF GapX, GapY, b

\* Two cards of a block are in different cells, a gap apart.
LEMMA CellsApart ==
  ASSUME NEW cards, IsCards(cards), NEW i \in DOMAIN cards,
         NEW row, row.x \in Nat, row.y \in Nat,
         NEW j \in Members(cards, i), NEW k \in Members(cards, i), j # k,
         NEW place, place[j] = CellCentre(cards, Block(cards, i), row, j),
         place[k] = CellCentre(cards, Block(cards, i), row, k)
  PROVE  Clear(cards, place, j, k, GapX, GapY)
<1> DEFINE b == Block(cards, i)
           col(x) == Index(cards, x) % b.cols
           line(x) == Index(cards, x) \div b.cols
<1>1. /\ b.cellW \in Nat /\ b.cellH \in Nat /\ b.cols \in Nat \ {0}
      /\ cards[j].w + GapX <= b.cellW /\ cards[j].h + GapY <= b.cellH
      /\ cards[k].w + GapX <= b.cellW /\ cards[k].h + GapY <= b.cellH
  BY BlockFacts
<1>2. cards[j].w \in Nat /\ cards[j].h \in Nat /\ cards[k].w \in Nat /\ cards[k].h \in Nat
  BY DEF IsCards, Members
<1>3. Index(cards, j) \in Nat /\ Index(cards, k) \in Nat /\ Index(cards, j) # Index(cards, k)
  <2>1. j \in Nat /\ k \in Nat
    BY DEF IsCards, Members
  <2>2. j < k => Index(cards, j) < Index(cards, k)
    BY IndexFacts
  <2>3. k < j => Index(cards, k) < Index(cards, j)
    BY IndexFacts
  <2>4. Index(cards, j) \in Nat /\ Index(cards, k) \in Nat
    BY IndexFacts
  <2> QED BY <2>1, <2>2, <2>3, <2>4
<1> HIDE DEF b
<1>4. /\ line(j) \in Nat /\ col(j) \in Nat /\ Index(cards, j) = line(j) * b.cols + col(j)
      /\ line(k) \in Nat /\ col(k) \in Nat /\ Index(cards, k) = line(k) * b.cols + col(k)
  BY <1>1, <1>3, DivMod
<1>5. /\ place[j].x = 2 * (row.x + col(j) * b.cellW) + b.cellW
      /\ place[j].y = 2 * (row.y + line(j) * b.cellH) + b.cellH
      /\ place[k].x = 2 * (row.x + col(k) * b.cellW) + b.cellW
      /\ place[k].y = 2 * (row.y + line(k) * b.cellH) + b.cellH
  BY DEF CellCentre, b
<1> HIDE DEF col, line
<1>6. line(j) # line(k) \/ col(j) # col(k)
  BY <1>3, <1>4
<1>7. /\ line(j) * b.cellH \in Nat /\ line(k) * b.cellH \in Nat
      /\ col(j) * b.cellW \in Nat /\ col(k) * b.cellW \in Nat
  BY <1>1, <1>4
<1>8. CASE line(j) < line(k)
  <2>1. line(j) * b.cellH + b.cellH <= line(k) * b.cellH
    BY <1>1, <1>4, <1>8, Monotone
  <2> QED BY <2>1, <1>1, <1>2, <1>5, <1>7 DEF Clear, Distance, GapX, GapY
<1>9. CASE line(k) < line(j)
  <2>1. line(k) * b.cellH + b.cellH <= line(j) * b.cellH
    BY <1>1, <1>4, <1>9, Monotone
  <2> QED BY <2>1, <1>1, <1>2, <1>5, <1>7 DEF Clear, Distance, GapX, GapY
<1>10. CASE col(j) < col(k)
  <2>1. col(j) * b.cellW + b.cellW <= col(k) * b.cellW
    BY <1>1, <1>4, <1>10, Monotone
  <2> QED BY <2>1, <1>1, <1>2, <1>5, <1>7 DEF Clear, Distance, GapX, GapY
<1>11. CASE col(k) < col(j)
  <2>1. col(k) * b.cellW + b.cellW <= col(j) * b.cellW
    BY <1>1, <1>4, <1>11, Monotone
  <2> QED BY <2>1, <1>1, <1>2, <1>5, <1>7 DEF Clear, Distance, GapX, GapY
<1> QED BY <1>4, <1>6, <1>8, <1>9, <1>10, <1>11

-----------------------------------------------------------------------------
(* The flow of blocks. *)

\* Every placed card ends above the bottom of the row that is being filled, and
\* either a block's gap before the cursor or a block's gap above the row.
FlowInv(cards, todo, f) ==
  /\ f.x \in Nat /\ f.y \in Nat /\ f.rowHeight \in Nat
  /\ todo \subseteq Firsts(cards)
  /\ DOMAIN f.at = UNION {Members(cards, i) : i \in Firsts(cards) \ todo}
  /\ \A j \in DOMAIN f.at :
       /\ f.at[j].x \in Nat /\ f.at[j].y \in Nat /\ cards[j].h <= f.at[j].y
       /\ f.at[j].y + cards[j].h + GapY <= 2 * (f.y + f.rowHeight)
       /\ \/ f.at[j].x + cards[j].w + GapX + 2 * BlockGap <= 2 * f.x
          \/ f.at[j].y + cards[j].h + GapY + 2 * BlockGap <= 2 * f.y
  /\ Apart(cards, f.at)

\* Where the loop starts.
LEMMA FlowStarts ==
  ASSUME NEW cards
  PROVE  FlowInv(cards, Firsts(cards), StartFlow)
BY DEF FlowInv, StartFlow, NoCards, Apart

\* A turn of the loop keeps the invariant.
LEMMA FlowStep ==
  ASSUME NEW cards, IsCards(cards), NEW todo, NEW i \in todo, NEW f, FlowInv(cards, todo, f)
  PROVE  FlowInv(cards, todo \ {i}, PlaceBlock(cards, Blocks(cards), f, i))
<1> DEFINE b == Block(cards, i)
           row == RowFor(Blocks(cards), f, i)
           M == Members(cards, i)
           g == PlaceBlock(cards, Blocks(cards), f, i)
<1>1. i \in Firsts(cards) /\ i \in DOMAIN cards
  BY DEF FlowInv, Firsts
<1>2. Blocks(cards)[i] = b
  BY <1>1 DEF Blocks
<1>3. /\ g.x = row.x + b.width + BlockGap
      /\ g.y = row.y
      /\ g.rowHeight = Larger(row.rowHeight, b.height)
      /\ DOMAIN g.at = DOMAIN f.at \cup M
      /\ \A j \in DOMAIN g.at :
           g.at[j] = IF j \in M THEN CellCentre(cards, b, row, j) ELSE f.at[j]
  BY <1>2 DEF PlaceBlock, Grown
<1>4. /\ f.x \in Nat /\ f.y \in Nat /\ f.rowHeight \in Nat
      /\ \A j \in DOMAIN f.at :
           /\ f.at[j].x \in Nat /\ f.at[j].y \in Nat /\ cards[j].h <= f.at[j].y
           /\ f.at[j].y + cards[j].h + GapY <= 2 * (f.y + f.rowHeight)
           /\ \/ f.at[j].x + cards[j].w + GapX + 2 * BlockGap <= 2 * f.x
              \/ f.at[j].y + cards[j].h + GapY + 2 * BlockGap <= 2 * f.y
  BY DEF FlowInv
<1>5. row = [x |-> 0, y |-> f.y + f.rowHeight + BlockGap, rowHeight |-> 0]
      \/ row = [x |-> f.x, y |-> f.y, rowHeight |-> f.rowHeight]
  BY DEF RowFor
<1>6. row.x \in Nat /\ row.y \in Nat /\ row.rowHeight \in Nat
  BY <1>4, <1>5 DEF BlockGap
<1>7. b.width \in Nat /\ b.height \in Nat
  BY <1>1, BlockFacts
<1>8. \A j \in M :
        LET c == CellCentre(cards, b, row, j)
        IN /\ c.x \in Nat /\ c.y \in Nat
           /\ 2 * row.x + cards[j].w + GapX <= c.x
           /\ c.x + cards[j].w + GapX <= 2 * (row.x + b.width)
           /\ 2 * row.y + cards[j].h + GapY <= c.y
           /\ c.y + cards[j].h + GapY <= 2 * (row.y + b.height)
  BY <1>1, <1>6, CellBounds
<1>9. DOMAIN f.at \subseteq DOMAIN cards
  BY DEF FlowInv, Firsts, Members
<1>10. M \subseteq DOMAIN cards
  BY DEF Members
<1>11. \A j \in DOMAIN cards : cards[j].w \in Nat /\ cards[j].h \in Nat
  BY DEF IsCards
<1>12. M \cap DOMAIN f.at = {}
  <2>1. SUFFICES ASSUME NEW j \in M, NEW k \in Firsts(cards) \ todo, j \in Members(cards, k)
                 PROVE  FALSE
    BY DEF FlowInv
  <2>2. k \in Members(cards, i) /\ i \in Members(cards, k)
    BY <1>1, <2>1 DEF Members, Firsts
  <2>3. i <= k /\ k <= i /\ i \in Nat /\ k \in Nat
    BY <1>1, <2>2 DEF Firsts, IsCards
  <2> QED BY <2>3
<1>13. DOMAIN g.at = UNION {Members(cards, k) : k \in Firsts(cards) \ (todo \ {i})}
  <2>1. Firsts(cards) \ (todo \ {i}) = (Firsts(cards) \ todo) \cup {i}
    BY <1>1
  <2> QED BY <2>1, <1>3 DEF FlowInv
<1> HIDE DEF b, row, M, g
<1>14. \A j \in DOMAIN g.at :
         /\ g.at[j].x \in Nat /\ g.at[j].y \in Nat /\ cards[j].h <= g.at[j].y
         /\ g.at[j].y + cards[j].h + GapY <= 2 * (g.y + g.rowHeight)
         /\ \/ g.at[j].x + cards[j].w + GapX + 2 * BlockGap <= 2 * g.x
            \/ g.at[j].y + cards[j].h + GapY + 2 * BlockGap <= 2 * g.y
  <2> TAKE j \in DOMAIN g.at
  <2>1. CASE j \in M
    BY <2>1, <1>3, <1>6, <1>7, <1>8, <1>10, <1>11 DEF Larger, GapX, GapY, BlockGap
  <2>2. CASE j \in DOMAIN f.at
    <3>1. g.at[j] = f.at[j]
      BY <2>2, <1>3, <1>12
    <3> QED BY <2>2, <3>1, <1>3, <1>4, <1>5, <1>7, <1>9, <1>11 DEF Larger, GapX, GapY, BlockGap
  <2> QED BY <2>1, <2>2, <1>3
\* An old card and a new one.
<1>15. \A j \in DOMAIN f.at, k \in M :
         /\ Clear(cards, g.at, j, k, GapX, GapY)
         /\ Clear(cards, g.at, k, j, GapX, GapY)
         /\ Clear(cards, g.at, j, k, GapX + BlockGap, GapY + BlockGap)
         /\ Clear(cards, g.at, k, j, GapX + BlockGap, GapY + BlockGap)
  <2> TAKE j \in DOMAIN f.at, k \in M
  <2>1. g.at[j] = f.at[j] /\ g.at[k] = CellCentre(cards, b, row, k)
    BY <1>3, <1>12
  <2>2. \/ g.at[j].x + cards[j].w + GapX + 2 * BlockGap <= 2 * row.x
        \/ g.at[j].y + cards[j].h + GapY + 2 * BlockGap <= 2 * row.y
    BY <2>1, <1>4, <1>5, <1>9, <1>11 DEF GapX, GapY, BlockGap
  <2>3. /\ 2 * row.x + cards[k].w + GapX <= g.at[k].x
        /\ 2 * row.y + cards[k].h + GapY <= g.at[k].y
        /\ g.at[k].x \in Nat /\ g.at[k].y \in Nat
    BY <2>1, <1>8
  <2>4. /\ g.at[j].x \in Nat /\ g.at[j].y \in Nat
        /\ cards[j].w \in Nat /\ cards[j].h \in Nat /\ cards[k].w \in Nat /\ cards[k].h \in Nat
    BY <2>1, <1>4, <1>9, <1>10, <1>11
  <2>5. \/ g.at[k].x - g.at[j].x >= cards[j].w + cards[k].w + 2 * (GapX + BlockGap)
        \/ g.at[k].y - g.at[j].y >= cards[j].h + cards[k].h + 2 * (GapY + BlockGap)
    BY <2>2, <2>3, <2>4, <1>6 DEF GapX, GapY, BlockGap
  <2> QED BY <2>4, <2>5, <2>3 DEF Clear, Distance, GapX, GapY, BlockGap
<1>16. Apart(cards, g.at)
  <2>1. SUFFICES ASSUME NEW j \in DOMAIN g.at, NEW k \in DOMAIN g.at, j # k
                 PROVE  IF cards[j].group = cards[k].group
                        THEN Clear(cards, g.at, j, k, GapX, GapY)
                        ELSE Clear(cards, g.at, j, k, GapX + BlockGap, GapY + BlockGap)
    BY DEF Apart
  <2>2. CASE j \in M /\ k \in M
    <3>1. Clear(cards, g.at, j, k, GapX, GapY)
      BY <2>1, <2>2, <1>1, <1>3, <1>6, CellsApart DEF M, b
    <3>2. cards[j].group = cards[k].group
      BY <2>2 DEF M, Members
    <3> QED BY <3>1, <3>2
  <2>3. CASE j \in DOMAIN f.at /\ k \in DOMAIN f.at
    <3>1. g.at[j] = f.at[j] /\ g.at[k] = f.at[k]
      BY <2>3, <1>3, <1>12
    <3> QED BY <2>1, <2>3, <3>1 DEF FlowInv, Apart, Clear
  <2>4. CASE (j \in DOMAIN f.at /\ k \in M) \/ (j \in M /\ k \in DOMAIN f.at)
    BY <2>4, <1>15
  <2> QED BY <2>2, <2>3, <2>4, <1>3
<1>17. g.x \in Nat /\ g.y \in Nat /\ g.rowHeight \in Nat
  BY <1>3, <1>6, <1>7 DEF Larger, BlockGap
<1>18. todo \ {i} \subseteq Firsts(cards)
  BY DEF FlowInv
<1> QED BY <1>13, <1>14, <1>16, <1>17, <1>18 DEF FlowInv, g

-----------------------------------------------------------------------------
(* The worker. *)

LEMMA OrphansAreCards ==
  ASSUME NEW d \in Pictures
  PROVE  IsCards(Orphans(d))
<1> DEFINE Card == [id : STRING, w : Nat, h : Nat, group : STRING]
<1>1. d.cards \in Seq(Card)
  BY CanvasAssumption
<1> HIDE DEF Card
<1>2. PICK n \in Nat : DOMAIN d.cards = 1..n
  BY <1>1
<1>3. \A i \in 1..n : d.cards[i].w \in Nat /\ d.cards[i].h \in Nat
  <2> TAKE i \in 1..n
  <2>1. d.cards[i] \in Card
    BY <1>1, <1>2
  <2> QED BY <2>1 DEF Card
<1>4. DOMAIN Orphans(d) \in SUBSET (1..n)
  BY <1>2 DEF Orphans
<1>5. IsFiniteSet(DOMAIN Orphans(d))
  <2>1. IsFiniteSet(1..n)
    BY FS_Interval
  <2> QED BY <1>4, <2>1, FS_Subset
<1>6. \A i \in DOMAIN Orphans(d) : Orphans(d)[i] = d.cards[i]
  BY DEF Orphans
<1> QED BY <1>3, <1>4, <1>5, <1>6 DEF IsCards

WorkerFields == {"phase", "job", "ranked", "cards", "blocks", "todo", "flow", "result"}

\* The worker's part of the state: while it packs, its flow is where the loop over
\* the blocks of its own cards stands.
WorkerInv ==
  /\ DOMAIN worker = WorkerFields
  /\ worker.phase = "posted" => worker.job \in Pictures /\ worker.flow = StartFlow
  /\ worker.phase = "packing" =>
       /\ IsCards(worker.cards)
       /\ worker.blocks = Blocks(worker.cards)
       /\ FlowInv(worker.cards, worker.todo, worker.flow)
  /\ GridIsApart

LEMMA NewWorker ==
  ASSUME NEW phase \in {"posted", "idle"}, NEW d, phase = "posted" => d \in Pictures,
         worker' = Started(phase, d)
  PROVE  WorkerInv'
<1>1. /\ worker'.phase = phase /\ worker'.job = d /\ worker'.flow = StartFlow
      /\ worker'.cards = << >> /\ DOMAIN worker' = WorkerFields
  BY DEF Started, WorkerFields
<1>2. GridIsApart'
  BY <1>1 DEF GridIsApart, Apart, StartFlow, NoCards
<1> QED BY <1>1, <1>2 DEF WorkerInv

LEMMA WorkerInit == Init => WorkerInv
<1> SUFFICES ASSUME Init PROVE WorkerInv
  OBVIOUS
<1>1. /\ worker.phase = "posted" /\ worker.job = FirstPicture /\ worker.flow = StartFlow
      /\ DOMAIN worker = WorkerFields
  BY DEF Init, Started, WorkerFields
<1>2. GridIsApart
  BY <1>1 DEF GridIsApart, Apart, StartFlow, NoCards
<1> QED BY <1>1, <1>2, CanvasAssumption DEF WorkerInv

LEMMA WorkerStep ==
  ASSUME WorkerInv, [Next]_vars
  PROVE  WorkerInv'
<1>1. CASE Rank
  <2>1. worker.phase = "posted"
    BY <1>1 DEF Rank
  <2>2. PICK ranked \in Rankings(worker.job) :
          worker' = [worker EXCEPT !.phase = "packing", !.ranked = ranked,
                                   !.cards = Orphans(worker.job),
                                   !.blocks = Blocks(Orphans(worker.job)),
                                   !.todo = Firsts(Orphans(worker.job))]
    BY <1>1 DEF Rank
  <2>3. /\ worker'.phase = "packing" /\ worker'.cards = Orphans(worker.job)
        /\ worker'.blocks = Blocks(worker'.cards) /\ worker'.todo = Firsts(worker'.cards)
        /\ worker'.flow = StartFlow /\ DOMAIN worker' = WorkerFields
    BY <2>1, <2>2 DEF WorkerInv, WorkerFields
  <2>4. IsCards(worker'.cards)
    BY <2>1, <2>3, OrphansAreCards DEF WorkerInv
  <2>5. FlowInv(worker'.cards, worker'.todo, worker'.flow)
    BY <2>3, FlowStarts
  <2>6. GridIsApart'
    BY <2>5 DEF FlowInv, GridIsApart
  <2> QED BY <2>3, <2>4, <2>5, <2>6 DEF WorkerInv
<1>2. CASE Pack
  <2> DEFINE i == Min(worker.todo)
  <2>1. /\ worker.phase = "packing" /\ worker.todo # {}
        /\ worker' = [worker EXCEPT !.todo = worker.todo \ {i},
                       !.flow = PlaceBlock(worker.cards, worker.blocks, worker.flow, i)]
    BY <1>2 DEF Pack
  <2>2. /\ IsCards(worker.cards) /\ worker.blocks = Blocks(worker.cards)
        /\ FlowInv(worker.cards, worker.todo, worker.flow)
    BY <2>1 DEF WorkerInv
  <2>3. i \in worker.todo
    <3>1. worker.todo \in SUBSET Nat
      BY <2>2 DEF FlowInv, Firsts, IsCards
    <3> QED BY <2>1, <3>1, MinOfNaturals
  <2> HIDE DEF i
  <2>4. /\ worker'.phase = "packing" /\ worker'.cards = worker.cards
        /\ worker'.blocks = worker.blocks /\ worker'.todo = worker.todo \ {i}
        /\ worker'.flow = PlaceBlock(worker.cards, worker.blocks, worker.flow, i)
        /\ DOMAIN worker' = WorkerFields
    BY <2>1 DEF WorkerInv, WorkerFields
  <2>5. FlowInv(worker.cards, worker.todo \ {i},
                PlaceBlock(worker.cards, Blocks(worker.cards), worker.flow, i))
    BY <2>2, <2>3, FlowStep
  <2>6. FlowInv(worker'.cards, worker'.todo, worker'.flow)
    BY <2>2, <2>4, <2>5
  <2>7. GridIsApart'
    BY <2>6 DEF FlowInv, GridIsApart
  <2> QED BY <2>2, <2>4, <2>6, <2>7 DEF WorkerInv
<1>3. CASE Post
  <2>1. /\ worker.phase = "packing"
        /\ \E r : worker' = [worker EXCEPT !.phase = "answered", !.result = r]
    BY <1>3 DEF Post
  <2>2. /\ worker'.phase = "answered" /\ worker'.cards = worker.cards
        /\ worker'.flow = worker.flow /\ DOMAIN worker' = WorkerFields
    BY <2>1 DEF WorkerInv, WorkerFields
  <2> QED BY <2>2 DEF WorkerInv, GridIsApart
<1>4. CASE Laid
  BY <1>4, NewWorker DEF Laid, Idle
<1>5. ASSUME NEW d \in Pictures, Draw(d) PROVE WorkerInv'
  BY <1>5, NewWorker DEF Draw, Launch
<1>6. CASE Push
  BY <1>5, <1>6 DEF Push
<1>7. CASE Answer
  BY <1>5, <1>7 DEF Answer
<1>8. CASE UNCHANGED worker
  BY <1>8 DEF WorkerInv, GridIsApart
<1>9. CASE ChangeView
  BY <1>5, <1>8, <1>9 DEF ChangeView
<1>10. CASE Zoom \/ PanTo \/ DoubleClick \/ Fit \/ Down \/ Drag \/ Up \/ \E id \in AnyNode : JumpTo(id)
  BY <1>8, <1>10 DEF Zoom, PanTo, DoubleClick, Fit, Down, Drag, Up, JumpTo, Event
<1>11. CASE UNCHANGED vars
  BY <1>8, <1>11 DEF vars
<1> QED
  BY <1>1, <1>2, <1>3, <1>4, <1>6, <1>7, <1>9, <1>10, <1>11 DEF Next

\* Whatever the pictures and whenever they come, the grid of the worker keeps the
\* cards of the blocks that it has placed apart.
THEOREM GridStaysApart == Spec => []GridIsApart
<1>1. WorkerInv => GridIsApart
  BY DEF WorkerInv
<1> QED BY <1>1, WorkerInit, WorkerStep, PTL DEF Spec

-----------------------------------------------------------------------------
(* The ranked cards: sums of the sizes of the cards before one. *)

\* A set of subsets of a finite set has one that no other is within.
LEMMA Smallest ==
  ASSUME NEW D, IsFiniteSet(D), NEW T \in SUBSET (SUBSET D), T # {}
  PROVE  \E s \in T : \A t \in T : t \subseteq s => t = s
<1>1. IsWellFoundedOn(StrictSubsetOrdering(D), SUBSET D)
  BY FS_StrictSubsetOrderingWellFounded, FS_FiniteSubsetsOfFinite
<1>2. PICK s \in T : \A t \in T : <<t, s>> \notin StrictSubsetOrdering(D)
  BY <1>1, WFMin
<1> QED BY <1>2 DEF StrictSubsetOrdering

Some(s) == CHOOSE x \in s : TRUE
Rest(s) == s \ {Some(s)}

\* A strip that is as long as the sizes of s together, cut in units.
Strip(size, s) == UNION {{j} \X (1..size[j]) : j \in s}
Length(size, s) == Cardinality(Strip(size, s))

\* The first n numbers.
LEMMA UpToIsFinite ==
  ASSUME NEW n \in Nat
  PROVE  IsFiniteSet(1..n) /\ Cardinality(1..n) = n
BY FS_Interval

\* A strip has a length.
LEMMA StripIsFinite ==
  ASSUME NEW D, NEW s \in SUBSET D, IsFiniteSet(s), NEW size \in [D -> Nat]
  PROVE  IsFiniteSet(Strip(size, s)) /\ Length(size, s) \in Nat
<1> DEFINE part == [j \in s |-> {j} \X (1..size[j])]
           parts == {{j} \X (1..size[j]) : j \in s}
<1>1. part \in Surjection(s, parts)
  BY DEF Surjection
<1>2. IsFiniteSet(parts)
  BY <1>1, FS_Surjection
<1>3. \A j \in s : IsFiniteSet({j} \X (1..size[j]))
  <2> TAKE j \in s
  <2>1. IsFiniteSet({j}) /\ size[j] \in Nat
    BY FS_Singleton
  <2>2. IsFiniteSet(1..size[j])
    BY <2>1, UpToIsFinite
  <2> QED BY <2>1, <2>2, FS_Product
<1>4. \A p \in parts : IsFiniteSet(p)
  BY <1>3
<1> HIDE DEF parts
<1>5. IsFiniteSet(UNION parts)
  BY <1>2, <1>4, FS_UNION
<1>6. IsFiniteSet(Strip(size, s))
  BY <1>5 DEF parts, Strip
<1> QED BY <1>6, FS_CardinalityType DEF Length

\* One more card makes a strip longer by its size.
LEMMA LengthGrows ==
  ASSUME NEW D, IsFiniteSet(D), NEW size \in [D -> Nat], NEW s \in SUBSET D, NEW x \in D \ s
  PROVE  Length(size, s \cup {x}) = Length(size, s) + size[x]
<1> DEFINE A == Strip(size, s)
           B == {x} \X (1..size[x])
<1>1. Strip(size, s \cup {x}) = A \cup B /\ A \cap B = {}
  BY DEF Strip
<1>2. IsFiniteSet(A) /\ Cardinality(A) \in Nat
  BY StripIsFinite, FS_Subset DEF Length
<1>3. IsFiniteSet(B) /\ Cardinality(B) = size[x]
  <2>1. /\ IsFiniteSet({x}) /\ Cardinality({x}) = 1
        /\ IsFiniteSet(1..size[x]) /\ Cardinality(1..size[x]) = size[x]
    BY FS_Singleton, UpToIsFinite
  <2>2. IsFiniteSet(B) /\ Cardinality(B) = Cardinality({x}) * Cardinality(1..size[x])
    BY <2>1, FS_Product
  <2> QED BY <2>1, <2>2
<1> HIDE DEF A, B
<1>4. Cardinality(A \cup B) = Cardinality(A) + Cardinality(B) - Cardinality(A \cap B)
  BY <1>2, <1>3, FS_Union
<1>5. Cardinality(A \cap B) = 0
  BY <1>1, FS_EmptySet
<1>6. Length(size, s) = Cardinality(A) /\ size[x] \in Nat
  BY DEF Length, A
<1>7. Length(size, s \cup {x}) = Cardinality(A \cup B)
  BY <1>1 DEF Length
<1> QED BY <1>2, <1>3, <1>4, <1>5, <1>6, <1>7

\* What is ahead of one card is at least what is ahead of another before it, and
\* that one.
LEMMA LengthIsMonotone ==
  ASSUME NEW D, IsFiniteSet(D), NEW size \in [D -> Nat],
         NEW s \in SUBSET D, NEW t \in SUBSET D, NEW x \in t, s \subseteq t, x \notin s
  PROVE  Length(size, s) + size[x] <= Length(size, t)
<1>1. Strip(size, s \cup {x}) \subseteq Strip(size, t)
  BY DEF Strip
<1>2. IsFiniteSet(Strip(size, t))
  BY StripIsFinite, FS_Subset
<1>3. Length(size, s \cup {x}) <= Length(size, t)
  BY <1>1, <1>2, FS_Subset DEF Length
<1> QED BY <1>3, LengthGrows

\* A sum over sets that takes their members one at a time, as the fold of Rankings
\* does: there is one, the length.
AddsUp(it, size, D) == \A s \in SUBSET D : it[s] = IF s = {} THEN 0 ELSE size[Some(s)] + it[Rest(s)]

LEMMA LengthsAddUp ==
  ASSUME NEW D, IsFiniteSet(D), NEW size \in [D -> Nat]
  PROVE  AddsUp([s \in SUBSET D |-> Length(size, s)], size, D)
<1>1. Length(size, {}) = 0
  BY FS_EmptySet DEF Length, Strip
<1>2. ASSUME NEW s \in SUBSET D, s # {}
      PROVE  Rest(s) \in SUBSET D /\ Length(size, s) = size[Some(s)] + Length(size, Rest(s))
  <2>1. Some(s) \in s /\ Some(s) \in D \ Rest(s) /\ Rest(s) \in SUBSET D /\ s = Rest(s) \cup {Some(s)}
    BY <1>2 DEF Some, Rest
  <2>2. Length(size, Rest(s)) \in Nat /\ size[Some(s)] \in Nat
    BY <2>1, StripIsFinite, FS_Subset
  <2> QED BY <2>1, <2>2, LengthGrows
<1> QED BY <1>1, <1>2 DEF AddsUp

LEMMA OneAddsUp ==
  ASSUME NEW D, IsFiniteSet(D), NEW size \in [D -> Nat], NEW sum, AddsUp(sum, size, D)
  PROVE  sum[D] = Length(size, D)
<1> DEFINE it == [s \in SUBSET D |-> Length(size, s)]
           Bad == {s \in SUBSET D : sum[s] # it[s]}
<1>1. AddsUp(it, size, D)
  BY LengthsAddUp
<1>2. it[D] = Length(size, D)
  OBVIOUS
<1> HIDE DEF it
<1>3. SUFFICES ASSUME Bad # {} PROVE FALSE
  BY <1>2
<1>4. PICK s \in Bad : \A t \in Bad : t \subseteq s => t = s
  <2>1. Bad \in SUBSET (SUBSET D)
    OBVIOUS
  <2> HIDE DEF Bad
  <2> QED BY <1>3, <2>1, Smallest
<1>5. s \in SUBSET D /\ s # {}
  BY <1>1 DEF AddsUp
<1>6. Rest(s) \in SUBSET D /\ Rest(s) \subseteq s /\ Rest(s) # s
  BY <1>5 DEF Rest, Some
<1>7. sum[Rest(s)] = it[Rest(s)]
  BY <1>4, <1>6
<1> QED BY <1>1, <1>4, <1>5, <1>7 DEF AddsUp

Widths(d) == [i \in DOMAIN d.cards |-> d.cards[i].w + 130]
Heights(d) == [i \in DOMAIN d.cards |-> d.cards[i].h + 34]

\* The sum that Rankings writes, of the widths.
LEMMA WidthsAddUp ==
  ASSUME NEW d, NEW s \in SUBSET DOMAIN d.cards, IsFiniteSet(s), Widths(d) \in [DOMAIN d.cards -> Nat]
  PROVE  MapThenSumSet(LAMBDA j : d.cards[j].w + 130, s) = Length(Widths(d), s)
<1> DEFINE Is(it) == it = [t \in SUBSET s |-> IF t = {} THEN 0 ELSE d.cards[Some(t)].w + 130 + it[Rest(t)]]
           sum == CHOOSE it : Is(it)
           size == [i \in s |-> d.cards[i].w + 130]
           lengths == [t \in SUBSET s |-> Length(size, t)]
<1>1. MapThenSumSet(LAMBDA j : d.cards[j].w + 130, s) = sum[s]
  BY DEF MapThenSumSet, MapThenFoldSet, Some, Rest
<1>2. size \in [s -> Nat] /\ \A j \in s : size[j] = Widths(d)[j]
  BY DEF Widths
<1>3. \A t \in SUBSET s : t # {} => size[Some(t)] = d.cards[Some(t)].w + 130
  BY DEF Some
<1>4. AddsUp(lengths, size, s)
  BY <1>2, LengthsAddUp
<1> HIDE DEF size
<1>5. Is(lengths)
  BY <1>3, <1>4 DEF AddsUp
<1>6. Is(sum)
  <2> HIDE DEF Is, lengths
  <2> QED BY <1>5
<1> HIDE DEF sum
<1>7. AddsUp(sum, size, s)
  BY <1>3, <1>6 DEF AddsUp
<1>8. sum[s] = Length(size, s)
  BY <1>2, <1>7, OneAddsUp
<1>9. Strip(size, s) = Strip(Widths(d), s)
  BY <1>2 DEF Strip
<1> QED BY <1>1, <1>8, <1>9 DEF Length

\* And of the heights.
LEMMA HeightsAddUp ==
  ASSUME NEW d, NEW s \in SUBSET DOMAIN d.cards, IsFiniteSet(s), Heights(d) \in [DOMAIN d.cards -> Nat]
  PROVE  MapThenSumSet(LAMBDA j : d.cards[j].h + 34, s) = Length(Heights(d), s)
<1> DEFINE Is(it) == it = [t \in SUBSET s |-> IF t = {} THEN 0 ELSE d.cards[Some(t)].h + 34 + it[Rest(t)]]
           sum == CHOOSE it : Is(it)
           size == [i \in s |-> d.cards[i].h + 34]
           lengths == [t \in SUBSET s |-> Length(size, t)]
<1>1. MapThenSumSet(LAMBDA j : d.cards[j].h + 34, s) = sum[s]
  BY DEF MapThenSumSet, MapThenFoldSet, Some, Rest
<1>2. size \in [s -> Nat] /\ \A j \in s : size[j] = Heights(d)[j]
  BY DEF Heights
<1>3. \A t \in SUBSET s : t # {} => size[Some(t)] = d.cards[Some(t)].h + 34
  BY DEF Some
<1>4. AddsUp(lengths, size, s)
  BY <1>2, LengthsAddUp
<1> HIDE DEF size
<1>5. Is(lengths)
  BY <1>3, <1>4 DEF AddsUp
<1>6. Is(sum)
  <2> HIDE DEF Is, lengths
  <2> QED BY <1>5
<1> HIDE DEF sum
<1>7. AddsUp(sum, size, s)
  BY <1>3, <1>6 DEF AddsUp
<1>8. sum[s] = Length(size, s)
  BY <1>2, <1>7, OneAddsUp
<1>9. Strip(size, s) = Strip(Heights(d), s)
  BY <1>2 DEF Strip
<1> QED BY <1>1, <1>8, <1>9 DEF Length

\* What a picture is known to be.
LEMMA PictureFacts ==
  ASSUME NEW d \in Pictures
  PROVE  /\ DOMAIN d.cards \subseteq Nat /\ IsFiniteSet(DOMAIN d.cards)
         /\ \A i \in DOMAIN d.cards : d.cards[i].w \in Nat /\ d.cards[i].h \in Nat
         /\ \A i, j \in DOMAIN d.cards : d.cards[i].id = d.cards[j].id => i = j
         /\ Touched(d) \subseteq DOMAIN d.cards
         /\ Widths(d) \in [DOMAIN d.cards -> Nat] /\ Heights(d) \in [DOMAIN d.cards -> Nat]
<1> DEFINE Card == [id : STRING, w : Nat, h : Nat, group : STRING]
<1>1. d.cards \in Seq(Card) /\ \A i, j \in DOMAIN d.cards : d.cards[i].id = d.cards[j].id => i = j
  BY CanvasAssumption
<1> HIDE DEF Card
<1>2. PICK n \in Nat : DOMAIN d.cards = 1..n
  BY <1>1
<1>3. \A i \in DOMAIN d.cards : d.cards[i].w \in Nat /\ d.cards[i].h \in Nat
  <2> TAKE i \in DOMAIN d.cards
  <2>1. d.cards[i] \in Card
    BY <1>1
  <2> QED BY <2>1 DEF Card
<1>4. Touched(d) \subseteq DOMAIN d.cards
  BY DEF Touched
<1>5. Widths(d) \in [DOMAIN d.cards -> Nat] /\ Heights(d) \in [DOMAIN d.cards -> Nat]
  BY <1>3 DEF Widths, Heights
<1> QED BY <1>1, <1>2, <1>3, <1>4, <1>5, UpToIsFinite

\* What is ahead of a card.
LEMMA AheadFacts ==
  ASSUME NEW d \in Pictures, NEW size \in [DOMAIN d.cards -> Nat], NEW i \in Touched(d), NEW j \in Touched(d)
  PROVE  /\ Before(d, i) \in SUBSET DOMAIN d.cards /\ IsFiniteSet(Before(d, i))
         /\ Length(size, Before(d, i)) \in Nat
         /\ j < i => Length(size, Before(d, j)) + size[j] <= Length(size, Before(d, i))
<1>1. /\ DOMAIN d.cards \subseteq Nat /\ IsFiniteSet(DOMAIN d.cards) /\ Touched(d) \subseteq DOMAIN d.cards
  BY PictureFacts
<1>2. Before(d, i) \in SUBSET DOMAIN d.cards /\ Before(d, j) \in SUBSET DOMAIN d.cards
  BY <1>1 DEF Before
<1>3. IsFiniteSet(Before(d, i)) /\ Length(size, Before(d, i)) \in Nat
  BY <1>1, <1>2, StripIsFinite, FS_Subset
<1>4. ASSUME j < i
      PROVE  Length(size, Before(d, j)) + size[j] <= Length(size, Before(d, i))
  <2>1. j \in Before(d, i) /\ j \notin Before(d, j) /\ Before(d, j) \subseteq Before(d, i)
    BY <1>1, <1>4 DEF Before
  <2> QED BY <1>1, <1>2, <2>1, LengthIsMonotone
<1> QED BY <1>2, <1>3, <1>4

\* Two cards one of which ends a gap before the other, by their corners and then by
\* their centres in half units.
LEMMA AheadOf ==
  ASSUME NEW a \in Nat, NEW b \in Nat, NEW wa \in Nat, NEW wb \in Nat, NEW gap \in Nat, a + wa + gap <= b
  PROVE  (2 * (60 + b) + wb) - (2 * (60 + a) + wa) >= wa + wb + 2 * gap
OBVIOUS

\* Between two ranks dagre leaves the gap that it is told to leave.
LEMMA RanksApart ==
  ASSUME NEW d \in Pictures, NEW ranked \in Rankings(d)
  PROVE  /\ DOMAIN ranked = Touched(d)
         /\ \A i \in Touched(d) : /\ ranked[i].x \in Nat /\ ranked[i].y \in Nat
                                  /\ d.cards[i].w <= ranked[i].x /\ d.cards[i].h <= ranked[i].y
         /\ \A i, j \in Touched(d) : i # j => Clear(d.cards, ranked, i, j, GapX, GapY)
<1> DEFINE W(i) == Length(Widths(d), Before(d, i))
           H(i) == Length(Heights(d), Before(d, i))
<1>1. /\ Touched(d) \subseteq DOMAIN d.cards /\ DOMAIN d.cards \subseteq Nat
      /\ \A i \in DOMAIN d.cards : d.cards[i].w \in Nat /\ d.cards[i].h \in Nat
      /\ Widths(d) \in [DOMAIN d.cards -> Nat] /\ Heights(d) \in [DOMAIN d.cards -> Nat]
  BY PictureFacts
<1>2. \A i \in Touched(d) :
        /\ MapThenSumSet(LAMBDA j : d.cards[j].w + 130, Before(d, i)) = W(i)
        /\ MapThenSumSet(LAMBDA j : d.cards[j].h + 34, Before(d, i)) = H(i)
        /\ W(i) \in Nat /\ H(i) \in Nat
  <2> TAKE i \in Touched(d)
  <2>1. Before(d, i) \in SUBSET DOMAIN d.cards /\ IsFiniteSet(Before(d, i)) /\ W(i) \in Nat /\ H(i) \in Nat
    BY <1>1, AheadFacts
  <2>2. MapThenSumSet(LAMBDA j : d.cards[j].w + 130, Before(d, i)) = W(i)
    BY <1>1, <2>1, WidthsAddUp
  <2>3. MapThenSumSet(LAMBDA j : d.cards[j].h + 34, Before(d, i)) = H(i)
    BY <1>1, <2>1, HeightsAddUp
  <2> QED BY <2>1, <2>2, <2>3
<1>3. \A i, j \in Touched(d) : j < i =>
        /\ W(j) + d.cards[j].w + 130 <= W(i)
        /\ H(j) + d.cards[j].h + 34 <= H(i)
  <2> TAKE i, j \in Touched(d)
  <2>1. j < i => W(j) + Widths(d)[j] <= W(i) /\ H(j) + Heights(d)[j] <= H(i)
    BY <1>1, AheadFacts
  <2>2. Widths(d)[j] = d.cards[j].w + 130 /\ Heights(d)[j] = d.cards[j].h + 34
    BY <1>1 DEF Widths, Heights
  <2>3. /\ d.cards[j].w \in Nat /\ d.cards[j].h \in Nat
        /\ W(j) \in Nat /\ W(i) \in Nat /\ H(j) \in Nat /\ H(i) \in Nat
    BY <1>1, <1>2
  <2>4. \A a, b, c \in Nat : a + (b + 130) <= c => a + b + 130 <= c
    OBVIOUS
  <2>5. \A a, b, c \in Nat : a + (b + 34) <= c => a + b + 34 <= c
    OBVIOUS
  <2> HIDE DEF W, H
  <2>6. j < i => W(j) + d.cards[j].w + 130 <= W(i)
    BY <2>1, <2>2, <2>3, <2>4
  <2>7. j < i => H(j) + d.cards[j].h + 34 <= H(i)
    BY <2>1, <2>2, <2>3, <2>5
  <2> QED BY <2>6, <2>7
<1>4. \/ ranked = [i \in Touched(d) |-> [x |-> 2 * (60 + W(i)) + d.cards[i].w, y |-> 120 + d.cards[i].h]]
      \/ ranked = [i \in Touched(d) |-> [x |-> 120 + d.cards[i].w, y |-> 2 * (60 + H(i)) + d.cards[i].h]]
  BY <1>2 DEF Rankings
<1> HIDE DEF W, H
<1>5. CASE ranked = [i \in Touched(d) |-> [x |-> 2 * (60 + W(i)) + d.cards[i].w, y |-> 120 + d.cards[i].h]]
  <2>1. DOMAIN ranked = Touched(d)
        /\ \A i \in Touched(d) : ranked[i].x = 2 * (60 + W(i)) + d.cards[i].w /\ ranked[i].y = 120 + d.cards[i].h
    BY <1>5
  <2>2. ASSUME NEW i \in Touched(d), NEW j \in Touched(d), j < i
        PROVE  ranked[i].x - ranked[j].x >= d.cards[i].w + d.cards[j].w + 2 * GapX
    <3>1. /\ d.cards[i].w \in Nat /\ d.cards[j].w \in Nat /\ W(i) \in Nat /\ W(j) \in Nat
          /\ W(j) + d.cards[j].w + 130 <= W(i)
      BY <1>1, <1>2, <1>3, <2>2
    <3>2. (2 * (60 + W(i)) + d.cards[i].w) - (2 * (60 + W(j)) + d.cards[j].w)
            >= d.cards[j].w + d.cards[i].w + 2 * 130
      BY <3>1, AheadOf
    <3>3. ranked[i].x - ranked[j].x >= d.cards[j].w + d.cards[i].w + 2 * 130
      BY <2>1, <3>2
    <3>4. \A r \in Int : r >= d.cards[j].w + d.cards[i].w + 2 * 130 => r >= d.cards[i].w + d.cards[j].w + 2 * GapX
      BY <3>1 DEF GapX
    <3>5. ranked[i].x - ranked[j].x \in Int
      BY <2>1, <3>1
    <3> QED BY <3>3, <3>4, <3>5
  <2>3. \A i \in Touched(d) : /\ ranked[i].x \in Nat /\ ranked[i].y \in Nat
                              /\ d.cards[i].w <= ranked[i].x /\ d.cards[i].h <= ranked[i].y
    <3> TAKE i \in Touched(d)
    <3>1. d.cards[i].w \in Nat /\ d.cards[i].h \in Nat /\ W(i) \in Nat /\ H(i) \in Nat
      BY <1>1, <1>2
    <3>2. \A a, b \in Nat : /\ 2 * (60 + a) + b \in Nat /\ 120 + b \in Nat
                            /\ b <= 2 * (60 + a) + b /\ b <= 120 + b
      OBVIOUS
    <3> QED BY <2>1, <3>1, <3>2
  <2>4. ASSUME NEW i \in Touched(d), NEW j \in Touched(d), i # j
        PROVE  Clear(d.cards, ranked, i, j, GapX, GapY)
    <3>1. i < j \/ j < i
      BY <1>1, <2>4
    <3>2. \/ ranked[i].x - ranked[j].x >= d.cards[i].w + d.cards[j].w + 2 * GapX
          \/ ranked[j].x - ranked[i].x >= d.cards[j].w + d.cards[i].w + 2 * GapX
      BY <2>2, <3>1
    <3>3. /\ ranked[i].x \in Nat /\ ranked[j].x \in Nat /\ d.cards[i].w \in Nat /\ d.cards[j].w \in Nat
      BY <1>1, <2>3
    <3>4. Distance(ranked[i].x, ranked[j].x) >= d.cards[i].w + d.cards[j].w + 2 * GapX
      BY <3>2, <3>3 DEF Distance, GapX
    <3> QED BY <3>4 DEF Clear
  <2> QED BY <2>1, <2>3, <2>4
<1>6. CASE ranked = [i \in Touched(d) |-> [x |-> 120 + d.cards[i].w, y |-> 2 * (60 + H(i)) + d.cards[i].h]]
  <2>1. DOMAIN ranked = Touched(d)
        /\ \A i \in Touched(d) : ranked[i].y = 2 * (60 + H(i)) + d.cards[i].h /\ ranked[i].x = 120 + d.cards[i].w
    BY <1>6
  <2>2. ASSUME NEW i \in Touched(d), NEW j \in Touched(d), j < i
        PROVE  ranked[i].y - ranked[j].y >= d.cards[i].h + d.cards[j].h + 2 * GapY
    <3>1. /\ d.cards[i].h \in Nat /\ d.cards[j].h \in Nat /\ H(i) \in Nat /\ H(j) \in Nat
          /\ H(j) + d.cards[j].h + 34 <= H(i)
      BY <1>1, <1>2, <1>3, <2>2
    <3>2. (2 * (60 + H(i)) + d.cards[i].h) - (2 * (60 + H(j)) + d.cards[j].h)
            >= d.cards[j].h + d.cards[i].h + 2 * 34
      BY <3>1, AheadOf
    <3>3. ranked[i].y - ranked[j].y >= d.cards[j].h + d.cards[i].h + 2 * 34
      BY <2>1, <3>2
    <3>4. \A r \in Int : r >= d.cards[j].h + d.cards[i].h + 2 * 34 => r >= d.cards[i].h + d.cards[j].h + 2 * GapY
      BY <3>1 DEF GapY
    <3>5. ranked[i].y - ranked[j].y \in Int
      BY <2>1, <3>1
    <3> QED BY <3>3, <3>4, <3>5
  <2>3. \A i \in Touched(d) : /\ ranked[i].x \in Nat /\ ranked[i].y \in Nat
                              /\ d.cards[i].w <= ranked[i].x /\ d.cards[i].h <= ranked[i].y
    <3> TAKE i \in Touched(d)
    <3>1. d.cards[i].w \in Nat /\ d.cards[i].h \in Nat /\ W(i) \in Nat /\ H(i) \in Nat
      BY <1>1, <1>2
    <3>2. \A a, b \in Nat : /\ 2 * (60 + a) + b \in Nat /\ 120 + b \in Nat
                            /\ b <= 2 * (60 + a) + b /\ b <= 120 + b
      OBVIOUS
    <3> QED BY <2>1, <3>1, <3>2
  <2>4. ASSUME NEW i \in Touched(d), NEW j \in Touched(d), i # j
        PROVE  Clear(d.cards, ranked, i, j, GapX, GapY)
    <3>1. i < j \/ j < i
      BY <1>1, <2>4
    <3>2. \/ ranked[i].y - ranked[j].y >= d.cards[i].h + d.cards[j].h + 2 * GapY
          \/ ranked[j].y - ranked[i].y >= d.cards[j].h + d.cards[i].h + 2 * GapY
      BY <2>2, <3>1
    <3>3. /\ ranked[i].y \in Nat /\ ranked[j].y \in Nat /\ d.cards[i].h \in Nat /\ d.cards[j].h \in Nat
      BY <1>1, <2>3
    <3>4. Distance(ranked[i].y, ranked[j].y) >= d.cards[i].h + d.cards[j].h + 2 * GapY
      BY <3>2, <3>3 DEF Distance, GapY
    <3> QED BY <3>4 DEF Clear
  <2> QED BY <2>1, <2>3, <2>4
<1> QED BY <1>4, <1>5, <1>6

\* The grid begins below every ranked card.
LEMMA CornerIsBelow ==
  ASSUME NEW d \in Pictures, NEW ranked \in Rankings(d)
  PROVE  LET corner == GridCorner(d, ranked)
         IN /\ corner.x \in Nat /\ corner.y \in Nat
            /\ \A i \in Touched(d) : ranked[i].y + d.cards[i].h + 2 * BlockGap <= corner.y
<1> DEFINE left == [i \in Touched(d) |-> ranked[i].x - d.cards[i].w]
           bottom == [i \in Touched(d) |-> ranked[i].y + d.cards[i].h]
<1>1. /\ DOMAIN ranked = Touched(d)
      /\ \A i \in Touched(d) : /\ ranked[i].x \in Nat /\ ranked[i].y \in Nat
                               /\ d.cards[i].w <= ranked[i].x /\ d.cards[i].h <= ranked[i].y
      /\ \A i \in Touched(d) : d.cards[i].w \in Nat /\ d.cards[i].h \in Nat
      /\ IsFiniteSet(Touched(d))
  BY RanksApart, PictureFacts, FS_Subset
<1>2. left \in [Touched(d) -> Nat] /\ bottom \in [Touched(d) -> Nat]
  BY <1>1
<1>3. CASE ranked = NoCards
  <2>1. Touched(d) = {}
    BY <1>1, <1>3 DEF NoCards
  <2> QED BY <1>3, <2>1 DEF GridCorner, Origin
<1>4. CASE ranked # NoCards
  <2>1. Touched(d) # {}
    BY <1>1, <1>4, RanksApart DEF NoCards, Rankings
  <2> DEFINE L == {left[i] : i \in Touched(d)}
             B == {bottom[i] : i \in Touched(d)}
  <2>2. L = {ranked[i].x - d.cards[i].w : i \in DOMAIN ranked}
        /\ B = {ranked[i].y + d.cards[i].h : i \in DOMAIN ranked}
    BY <1>1
  <2>3. GridCorner(d, ranked) = [x |-> Min(L), y |-> Max(B) + 2 * BlockGap]
    BY <1>4, <2>2 DEF GridCorner
  <2>4. Min(L) \in Nat
    <3>1. L \in SUBSET Nat /\ L # {}
      BY <1>2, <2>1
    <3> HIDE DEF L
    <3> QED BY <3>1, MinOfNaturals
  <2>5. Max(B) \in Nat /\ \A i \in Touched(d) : bottom[i] <= Max(B)
    <3> HIDE DEF bottom
    <3> QED BY <1>1, <1>2, <2>1, LargestSize
  <2> HIDE DEF L, B
  <2> QED BY <1>1, <2>3, <2>4, <2>5 DEF BlockGap
<1> QED BY <1>3, <1>4

-----------------------------------------------------------------------------
(* The answer of the worker. *)

\* Every card is in a block.
LEMMA EveryCardIsInABlock ==
  ASSUME NEW cards, IsCards(cards)
  PROVE  UNION {Members(cards, i) : i \in Firsts(cards)} = DOMAIN cards
<1>1. ASSUME NEW j \in DOMAIN cards
      PROVE  \E i \in Firsts(cards) : j \in Members(cards, i)
  <2>1. Members(cards, j) \in SUBSET Nat /\ j \in Members(cards, j)
    BY DEF IsCards, Members
  <2>2. PICK m \in Members(cards, j) : \A k \in Members(cards, j) : m <= k
    BY <2>1, Least
  <2>3. m \in DOMAIN cards /\ cards[m].group = cards[j].group
    BY <2>2 DEF Members
  <2>4. Members(cards, m) = Members(cards, j)
    BY <2>3 DEF Members
  <2> QED BY <2>1, <2>2, <2>3, <2>4 DEF Firsts
<1> QED BY <1>1 DEF Members

\* What the worker answers: a place for every card, and no two on each other.
IsPlacing(d, r) ==
  /\ r \in [DOMAIN d.cards -> [x : Int, y : Int]]
  /\ \A i, j \in DOMAIN d.cards : i # j => Clear(d.cards, r, i, j, GapX, GapY)

\* Moving two cards together changes nothing between them.
LEMMA ShiftKeepsDistance ==
  ASSUME NEW a \in Int, NEW b \in Int, NEW c \in Int, NEW p, NEW q, p = c + a, q = c + b
  PROVE  Distance(p, q) = Distance(a, b)
BY DEF Distance

\* The grid below the ranked cards: together they are a placing.
LEMMA ResultIsPlacing ==
  ASSUME NEW d \in Pictures, NEW ranked \in Rankings(d),
         NEW f, FlowInv(Orphans(d), {}, f),
         NEW corner, corner = GridCorner(d, ranked)
  PROVE  IsPlacing(d, [i \in DOMAIN d.cards |->
                         IF i \in DOMAIN ranked THEN ranked[i]
                         ELSE [x |-> corner.x + f.at[i].x, y |-> corner.y + f.at[i].y]])
<1> DEFINE r == [i \in DOMAIN d.cards |->
                   IF i \in DOMAIN ranked THEN ranked[i]
                   ELSE [x |-> corner.x + f.at[i].x, y |-> corner.y + f.at[i].y]]
           T == Touched(d)
           U == DOMAIN d.cards \ T
<1>1. /\ T \subseteq DOMAIN d.cards
      /\ \A i \in DOMAIN d.cards : d.cards[i].w \in Nat /\ d.cards[i].h \in Nat
  BY PictureFacts
<1>2. /\ DOMAIN ranked = T
      /\ \A i \in T : ranked[i].x \in Nat /\ ranked[i].y \in Nat
      /\ \A i, j \in T : i # j => Clear(d.cards, ranked, i, j, GapX, GapY)
  BY RanksApart
<1>3. /\ corner.x \in Nat /\ corner.y \in Nat
      /\ \A i \in T : ranked[i].y + d.cards[i].h + 2 * BlockGap <= corner.y
  BY CornerIsBelow
<1>4. /\ DOMAIN f.at = U /\ DOMAIN Orphans(d) = U
      /\ \A i \in U : Orphans(d)[i] = d.cards[i]
  <2>1. IsCards(Orphans(d))
    BY OrphansAreCards
  <2>2. DOMAIN f.at = UNION {Members(Orphans(d), i) : i \in Firsts(Orphans(d))}
    BY DEF FlowInv
  <2>3. DOMAIN f.at = DOMAIN Orphans(d)
    BY <2>1, <2>2, EveryCardIsInABlock
  <2>4. DOMAIN Orphans(d) = U /\ \A i \in U : Orphans(d)[i] = d.cards[i]
    BY DEF Orphans
  <2> QED BY <2>3, <2>4
<1>5. \A j \in U : f.at[j].x \in Nat /\ f.at[j].y \in Nat /\ d.cards[j].h <= f.at[j].y
  BY <1>4 DEF FlowInv
<1>6. \A i, j \in U : i # j => Clear(d.cards, f.at, i, j, GapX, GapY)
  <2> SUFFICES ASSUME NEW i \in U, NEW j \in U, i # j
               PROVE  Clear(d.cards, f.at, i, j, GapX, GapY)
    OBVIOUS
  <2>1. \/ Clear(Orphans(d), f.at, i, j, GapX, GapY)
        \/ Clear(Orphans(d), f.at, i, j, GapX + BlockGap, GapY + BlockGap)
    BY <1>4 DEF FlowInv, Apart
  <2>2. \/ Clear(d.cards, f.at, i, j, GapX, GapY)
        \/ Clear(d.cards, f.at, i, j, GapX + BlockGap, GapY + BlockGap)
    BY <2>1, <1>4 DEF Clear
  <2>3. /\ d.cards[i].w \in Nat /\ d.cards[j].w \in Nat /\ d.cards[i].h \in Nat /\ d.cards[j].h \in Nat
        /\ Distance(f.at[i].x, f.at[j].x) \in Int /\ Distance(f.at[i].y, f.at[j].y) \in Int
    BY <1>1, <1>5 DEF Distance
  <2>4. \A a, b \in Nat, c \in Int :
          /\ c >= a + b + 2 * (GapX + BlockGap) => c >= a + b + 2 * GapX
          /\ c >= a + b + 2 * (GapY + BlockGap) => c >= a + b + 2 * GapY
    BY DEF GapX, GapY, BlockGap
  <2> QED BY <2>2, <2>3, <2>4 DEF Clear
<1>7. /\ \A i \in T : r[i] = ranked[i]
      /\ \A i \in U : r[i].x = corner.x + f.at[i].x /\ r[i].y = corner.y + f.at[i].y
  BY <1>1, <1>2
<1>8. r \in [DOMAIN d.cards -> [x : Int, y : Int]]
  <2>1. ASSUME NEW i \in DOMAIN d.cards
        PROVE  r[i] \in [x : Int, y : Int]
    <3>1. CASE i \in T
      <4>1. ranked[i] = [x |-> ranked[i].x, y |-> ranked[i].y]
        <5>1. \/ ranked = [k \in T |->
                   [x |-> 2 * (60 + MapThenSumSet(LAMBDA j : d.cards[j].w + 130, Before(d, k))) + d.cards[k].w,
                    y |-> 120 + d.cards[k].h]]
              \/ ranked = [k \in T |->
                   [x |-> 120 + d.cards[k].w,
                    y |-> 2 * (60 + MapThenSumSet(LAMBDA j : d.cards[j].h + 34, Before(d, k))) + d.cards[k].h]]
          BY DEF Rankings
        <5> DEFINE A(k) == 2 * (60 + MapThenSumSet(LAMBDA j : d.cards[j].w + 130, Before(d, k))) + d.cards[k].w
                   B(k) == 2 * (60 + MapThenSumSet(LAMBDA j : d.cards[j].h + 34, Before(d, k))) + d.cards[k].h
        <5>2. \/ ranked = [k \in T |-> [x |-> A(k), y |-> 120 + d.cards[k].h]]
              \/ ranked = [k \in T |-> [x |-> 120 + d.cards[k].w, y |-> B(k)]]
          BY <5>1
        <5> HIDE DEF A, B
        <5> QED BY <3>1, <5>2
      <4> QED BY <1>2, <1>7, <3>1, <4>1
    <3>2. CASE i \in U
      BY <1>2, <1>3, <1>5, <3>2
    <3> QED BY <3>1, <3>2
  <2> QED BY <2>1
<1> HIDE DEF r
\* A ranked card and one of the grid.
<1>9. ASSUME NEW i \in T, NEW j \in U
      PROVE  Clear(d.cards, r, i, j, GapX, GapY) /\ Clear(d.cards, r, j, i, GapX, GapY)
  <2>1. /\ r[i].y \in Nat /\ r[j].y \in Nat /\ d.cards[i].h \in Nat /\ d.cards[j].h \in Nat
        /\ r[i].y + d.cards[i].h + 2 * BlockGap + d.cards[j].h <= r[j].y
    <3> DEFINE a == r[i].y
               c == d.cards[i].h
               e == d.cards[j].h
               g == f.at[j].y
    <3>1. a \in Nat /\ c \in Nat /\ e \in Nat /\ g \in Nat /\ corner.y \in Nat
      BY <1>1, <1>2, <1>3, <1>5, <1>7
    <3>2. a + c + 2 * BlockGap <= corner.y /\ e <= g /\ r[j].y = corner.y + g
      BY <1>3, <1>5, <1>7
    <3> HIDE DEF a, c, e, g
    <3>3. corner.y + g \in Nat /\ a + c + 2 * BlockGap + e <= corner.y + g
      BY <3>1, <3>2 DEF BlockGap
    <3> QED BY <3>1, <3>2, <3>3 DEF a, c, e, g
  <2>2. \A a, b, c, e \in Nat : a + c + 2 * BlockGap + e <= b =>
          Distance(a, b) >= c + e + 2 * GapY /\ Distance(b, a) >= e + c + 2 * GapY
    BY DEF Distance, GapY, BlockGap
  <2> QED BY <2>1, <2>2 DEF Clear
<1>10. ASSUME NEW i \in T, NEW j \in T, i # j
       PROVE  Clear(d.cards, r, i, j, GapX, GapY)
  BY <1>2, <1>7, <1>10 DEF Clear
<1>11. ASSUME NEW i \in U, NEW j \in U, i # j
       PROVE  Clear(d.cards, r, i, j, GapX, GapY)
  <2>1. /\ Distance(r[i].x, r[j].x) = Distance(f.at[i].x, f.at[j].x)
        /\ Distance(r[i].y, r[j].y) = Distance(f.at[i].y, f.at[j].y)
    <3>1. /\ f.at[i].x \in Int /\ f.at[i].y \in Int /\ f.at[j].x \in Int /\ f.at[j].y \in Int
          /\ corner.x \in Int /\ corner.y \in Int
      BY <1>3, <1>5
    <3>2. /\ r[i].x = corner.x + f.at[i].x /\ r[i].y = corner.y + f.at[i].y
          /\ r[j].x = corner.x + f.at[j].x /\ r[j].y = corner.y + f.at[j].y
      BY <1>7
    <3> QED BY <3>1, <3>2, ShiftKeepsDistance
  <2> QED BY <1>6, <1>11, <2>1 DEF Clear
<1>12. \A i, j \in DOMAIN d.cards : i # j => Clear(d.cards, r, i, j, GapX, GapY)
  BY <1>1, <1>9, <1>10, <1>11
<1>13. IsPlacing(d, r)
  BY <1>8, <1>12 DEF IsPlacing
<1> QED BY <1>13 DEF r

-----------------------------------------------------------------------------
(* The frame that a layout leaves. *)

\* What Max and Min return of a finite set of integers.
LEMMA EndsOfFinite ==
  ASSUME NEW S \in SUBSET Int, IsFiniteSet(S), S # {}
  PROVE  /\ Max(S) \in S /\ \A k \in S : k <= Max(S)
         /\ Min(S) \in S /\ \A k \in S : Min(S) <= k
<1>1. \E m \in S : \A k \in S : m >= k
  BY Greatest
<1>2. \E m \in S : \A k \in S : m <= k
  <2> DEFINE neg == [k \in S |-> -k]
             N == {-k : k \in S}
  <2>1. neg \in Surjection(S, N)
    BY DEF Surjection
  <2>2. IsFiniteSet(N)
    BY <2>1, FS_Surjection
  <2>3. N \in SUBSET Int /\ N # {}
    OBVIOUS
  <2>4. PICK n \in N : \A k \in N : k <= n
    <3> HIDE DEF N
    <3> QED BY <2>2, <2>3, Greatest
  <2>5. PICK m \in S : n = -m
    BY <2>4
  <2>6. \A k \in S : -k <= -m
    BY <2>4, <2>5
  <2> QED BY <2>6
<1>3. Max(S) \in S /\ \A k \in S : k <= Max(S)
  BY <1>1 DEF Max
<1>4. Min(S) \in S /\ \A k \in S : Min(S) <= k
  BY <1>2 DEF Min
<1> QED BY <1>3, <1>4

\* A span is a natural.
LEMMA SpanIsNatural ==
  ASSUME NEW D, IsFiniteSet(D), NEW c \in [D -> Int]
  PROVE  Span({c[i] : i \in D}) \in Nat
<1> DEFINE S == {c[i] : i \in D}
<1>1. c \in Surjection(D, S)
  BY DEF Surjection
<1>2. IsFiniteSet(S) /\ S \in SUBSET Int
  BY <1>1, FS_Surjection
<1> HIDE DEF S
<1>3. ASSUME S # {}
      PROVE  Max(S) - Min(S) \in Nat
  <2>1. Max(S) \in Int /\ Min(S) \in Int /\ Min(S) <= Max(S)
    BY <1>2, <1>3, EndsOfFinite
  <2>2. \A a, b \in Int : b <= a => a - b \in Nat
    OBVIOUS
  <2> QED BY <2>1, <2>2
<1>4. Span(S) \in Nat
  BY <1>3 DEF Span
<1> QED BY <1>4 DEF S

\* The largest of sizes, or 0 of none.
LEMMA WidestOf ==
  ASSUME NEW D, IsFiniteSet(D), NEW size \in [D -> Nat]
  PROVE  /\ Max({0} \cup {size[i] : i \in D}) \in Nat
         /\ Max({0} \cup {size[i] : i \in D}) \in {0} \cup {size[i] : i \in D}
<1> DEFINE S == {size[i] : i \in D}
           Z == {0} \cup S
<1>1. size \in Surjection(D, S)
  BY DEF Surjection
<1>2. IsFiniteSet(S)
  BY <1>1, FS_Surjection
<1>3. IsFiniteSet(S \cup {0}) /\ S \cup {0} = Z
  BY <1>2, FS_AddElement
<1>4. Z \in SUBSET Nat /\ Z # {}
  OBVIOUS
<1> HIDE DEF Z
<1>5. Max(Z) \in Z
  BY <1>3, <1>4, MaxOfFinite
<1>6. Max(Z) \in Nat
  BY <1>4, <1>5
<1> QED BY <1>5, <1>6 DEF Z

\* The sizes that a frame is made of.
LEMMA FrameSizes ==
  ASSUME NEW d \in Pictures, NEW places \in [Ids(d) -> [x : Int, y : Int]]
  PROVE  /\ SpanX(places) \in Nat /\ SpanY(places) \in Nat
         /\ WidestCard(d) \in {0} \cup {d.cards[i].w : i \in DOMAIN d.cards}
         /\ TallestCard(d) \in {0} \cup {d.cards[i].h : i \in DOMAIN d.cards}
         /\ WidestCard(d) \in Nat /\ TallestCard(d) \in Nat
<1> DEFINE D == DOMAIN d.cards
           id == [i \in D |-> d.cards[i].id]
<1>1. IsFiniteSet(D) /\ \A i \in D : d.cards[i].w \in Nat /\ d.cards[i].h \in Nat
  BY PictureFacts
<1>2. IsFiniteSet(Ids(d))
  <2>1. id \in Surjection(D, Ids(d))
    BY DEF Surjection, Ids
  <2> QED BY <1>1, <2>1, FS_Surjection
<1>3. SpanX(places) \in Nat
  <2> DEFINE c == [i \in Ids(d) |-> places[i].x]
  <2>1. c \in [Ids(d) -> Int] /\ {c[i] : i \in Ids(d)} = {places[i].x : i \in DOMAIN places}
    OBVIOUS
  <2> HIDE DEF c
  <2> QED BY <1>2, <2>1, SpanIsNatural DEF SpanX
<1>4. SpanY(places) \in Nat
  <2> DEFINE c == [i \in Ids(d) |-> places[i].y]
  <2>1. c \in [Ids(d) -> Int] /\ {c[i] : i \in Ids(d)} = {places[i].y : i \in DOMAIN places}
    OBVIOUS
  <2> HIDE DEF c
  <2> QED BY <1>2, <2>1, SpanIsNatural DEF SpanY
<1>5. WidestCard(d) \in Nat /\ WidestCard(d) \in {0} \cup {d.cards[i].w : i \in DOMAIN d.cards}
  <2> DEFINE c == [i \in D |-> d.cards[i].w]
  <2>1. c \in [D -> Nat] /\ {c[i] : i \in D} = {d.cards[i].w : i \in D}
    BY <1>1
  <2> HIDE DEF c
  <2>2. /\ Max({0} \cup {c[i] : i \in D}) \in Nat
        /\ Max({0} \cup {c[i] : i \in D}) \in {0} \cup {c[i] : i \in D}
    <3> HIDE DEF D
    <3> QED BY <1>1, <2>1, WidestOf
  <2> QED BY <2>1, <2>2 DEF WidestCard
<1>6. TallestCard(d) \in Nat /\ TallestCard(d) \in {0} \cup {d.cards[i].h : i \in DOMAIN d.cards}
  <2> DEFINE c == [i \in D |-> d.cards[i].h]
  <2>1. c \in [D -> Nat] /\ {c[i] : i \in D} = {d.cards[i].h : i \in D}
    BY <1>1
  <2> HIDE DEF c
  <2>2. /\ Max({0} \cup {c[i] : i \in D}) \in Nat
        /\ Max({0} \cup {c[i] : i \in D}) \in {0} \cup {c[i] : i \in D}
    <3> HIDE DEF D
    <3> QED BY <1>1, <2>1, WidestOf
  <2> QED BY <2>1, <2>2 DEF TallestCard
<1> QED BY <1>3, <1>4, <1>5, <1>6

\* Multiplication keeps the order.
LEMMA ProductGrows ==
  ASSUME NEW a \in Nat, NEW b \in Nat, NEW c \in Nat, NEW e \in Nat, a <= b, c <= e
  PROVE  a * c <= b * e
<1>1. PICK k \in Nat : b = a + k
  <2>1. b - a \in Nat
    OBVIOUS
  <2> QED BY <2>1
<1>2. PICK l \in Nat : e = c + l
  <2>1. e - c \in Nat
    OBVIOUS
  <2> QED BY <2>1
<1>3. b * e = a * c + a * l + k * c + k * l
  BY <1>1, <1>2
<1>4. a * c \in Nat /\ a * l \in Nat /\ k * c \in Nat /\ k * l \in Nat
  OBVIOUS
<1> QED BY <1>3, <1>4

\* A side of the cards with some extent: the padding more than makes up for the
\* rounding down.
LEMMA PaddedCovers ==
  ASSUME NEW span \in Nat, span > 0, NEW card \in Nat
  PROVE  /\ Padded(span, card) \in Nat
         /\ Padded(span, card) * span >= 100 * (span + 2 * card)
<1> DEFINE a == 106 * (span + 2 * card)
           q == a \div span
<1>1. a \in Nat
  OBVIOUS
<1>2. q \in Nat /\ a % span \in Nat /\ a % span < span /\ a = q * span + (a % span)
  <2> HIDE DEF a
  <2> QED BY <1>1, DivMod
<1>3. q * span \in Nat
  BY <1>2
<1>4. \A p, r \in Nat : r < span /\ a = p + r => p >= 100 * (span + 2 * card)
  OBVIOUS
<1>5. q * span >= 100 * (span + 2 * card)
  <2> HIDE DEF q
  <2> QED BY <1>2, <1>3, <1>4
<1>6. Padded(span, card) = q
  BY DEF Padded
<1> QED BY <1>2, <1>5, <1>6

\* A side along which the centres do not differ: there the frame is padded for the
\* other side, and is never smaller than the canvas unmagnified.
LEMMA FlatCovers ==
  ASSUME NEW span \in Nat, span > 0, NEW card \in Nat, NEW ratio \in Nat,
         106 * Viewport >= 107 * card, Viewport \in Nat,
         ratio >= 106, ratio >= (200 * Viewport) \div span
  PROVE  ratio * span >= 200 * card
<1> DEFINE a == 200 * Viewport
           q == a \div span
           R == ratio * span
<1>1. a \in Nat
  OBVIOUS
<1>2. q \in Nat /\ a % span \in Nat /\ a % span < span /\ a = q * span + (a % span)
  <2> HIDE DEF a
  <2> QED BY <1>1, DivMod
<1>3. q * span <= R /\ q * span \in Nat
  BY <1>2, ProductGrows
<1>4. 106 * span <= R /\ R \in Nat
  BY ProductGrows
<1>5. \A p, r, x \in Nat : r < span /\ a = p + r /\ p <= x /\ 106 * span <= x => x >= 200 * card
  OBVIOUS
<1> QED
  <2> HIDE DEF q, R, a
  <2>1. R >= 200 * card
    BY <1>2, <1>3, <1>4, <1>5
  <2> QED BY <2>1 DEF R

\* Along each side the frame has every card in it.
LEMMA SideCovers ==
  ASSUME NEW s \in Nat, NEW card \in Nat, NEW span \in Nat, NEW ratio \in Nat, span > 0, s <= span,
         Viewport \in Nat, 106 * Viewport >= 107 * card,
         ratio >= Padded(s, card), Viewport > 0 => ratio >= (200 * Viewport) \div span
  PROVE  ratio * span >= 100 * (s + 2 * card)
<1>1. CASE s > 0
  <2> DEFINE p == Padded(s, card)
  <2>1. p \in Nat /\ p * s >= 100 * (s + 2 * card)
    BY <1>1, PaddedCovers
  <2> HIDE DEF p
  <2>2. p * s <= ratio * span
    <3>1. p <= ratio
      BY DEF p
    <3> QED BY <2>1, <3>1, ProductGrows
  <2>3. p * s \in Nat /\ ratio * span \in Nat
    BY <2>1
  <2>4. 100 * (s + 2 * card) \in Nat
    OBVIOUS
  <2>5. \A a, b, c \in Nat : a >= c /\ a <= b => b >= c
    OBVIOUS
  <2> QED BY <2>1, <2>2, <2>3, <2>4, <2>5
<1>2. CASE s = 0 /\ Viewport > 0
  <2>1. ratio >= 106
    BY <1>2 DEF Padded
  <2>2. ratio >= (200 * Viewport) \div span
    BY <1>2
  <2>3. ratio * span >= 200 * card
    BY <2>1, <2>2, FlatCovers
  <2>4. 100 * (s + 2 * card) = 200 * card
    BY <1>2
  <2> QED BY <2>3, <2>4
<1>3. CASE s = 0 /\ Viewport = 0
  <2>1. card = 0
    BY <1>3
  <2>2. ratio * span \in Nat /\ 100 * (s + 2 * card) = 0
    BY <1>3, <2>1
  <2>3. \A a \in Nat : a >= 0
    OBVIOUS
  <2> QED BY <2>2, <2>3
<1> QED BY <1>1, <1>2, <1>3

\* Ratios are naturals.
LEMMA PaddedIsNatural ==
  ASSUME NEW s \in Nat, NEW card \in Nat
  PROVE  Padded(s, card) \in Nat
<1>1. CASE s > 0
  BY <1>1, PaddedCovers
<1>2. CASE ~ (s > 0)
  BY <1>2 DEF Padded
<1> QED BY <1>1, <1>2

LEMMA FrameIsNatural ==
  ASSUME NEW d \in Pictures, NEW places \in [Ids(d) -> [x : Int, y : Int]]
  PROVE  FitRatio(d, places) \in Nat
<1> DEFINE sx == SpanX(places)
           sy == SpanY(places)
           span == Larger(sx, sy)
           px == Padded(sx, WidestCard(d))
           py == Padded(sy, TallestCard(d))
<1>1. sx \in Nat /\ sy \in Nat /\ WidestCard(d) \in Nat /\ TallestCard(d) \in Nat
  BY FrameSizes
<1>2. px \in Nat /\ py \in Nat
  BY <1>1, PaddedIsNatural
<1>3. \A a, b \in Nat : Larger(a, b) \in Nat
  BY DEF Larger
<1>4. span \in Nat /\ Larger(px, py) \in Nat
  BY <1>1, <1>2, <1>3
<1>5. span > 0 => (200 * Viewport) \div span \in Nat
  <2>1. 200 * Viewport \in Nat
    BY CanvasAssumption
  <2> QED BY <1>4, <2>1, DivMod
<1> HIDE DEF px, py, span
<1>6. FitRatio(d, places) = IF span > 0 /\ Viewport > 0
                            THEN Larger(Larger(px, py), (200 * Viewport) \div span)
                            ELSE Larger(px, py)
  BY DEF FitRatio, span, px, py
<1> QED BY <1>3, <1>4, <1>5, <1>6

\* Where the canvas has room for any card, the frame of a layout shows all of them.
LEMMA FrameCovers ==
  ASSUME RoomForOne, NEW d \in Pictures, NEW places \in [Ids(d) -> [x : Int, y : Int]],
         Larger(SpanX(places), SpanY(places)) > 0
  PROVE  LET span == Larger(SpanX(places), SpanY(places))
             ratio == FitRatio(d, places)
         IN /\ ratio * span >= 100 * (SpanX(places) + 2 * WidestCard(d))
            /\ ratio * span >= 100 * (SpanY(places) + 2 * TallestCard(d))
<1> DEFINE sx == SpanX(places)
           sy == SpanY(places)
           span == Larger(sx, sy)
           w == WidestCard(d)
           h == TallestCard(d)
           ratio == FitRatio(d, places)
<1>1. sx \in Nat /\ sy \in Nat /\ w \in Nat /\ h \in Nat /\ ratio \in Nat
  BY FrameSizes, FrameIsNatural
<1>2. span \in Nat /\ span > 0 /\ sx <= span /\ sy <= span
  BY <1>1 DEF Larger
<1>3. Viewport \in Nat /\ 106 * Viewport >= 107 * w /\ 106 * Viewport >= 107 * h
  <2>1. Viewport \in Nat
    BY CanvasAssumption
  <2>2. w = 0 \/ \E i \in DOMAIN d.cards : w = d.cards[i].w
    BY FrameSizes
  <2>3. h = 0 \/ \E i \in DOMAIN d.cards : h = d.cards[i].h
    BY FrameSizes
  <2> HIDE DEF w, h
  <2>4. 106 * Viewport >= 107 * w
    BY <2>1, <2>2, RoomForOne DEF RoomForOne
  <2>5. 106 * Viewport >= 107 * h
    BY <2>1, <2>3, RoomForOne DEF RoomForOne
  <2> QED BY <2>1, <2>4, <2>5
<1>4. /\ ratio >= Padded(sx, w) /\ ratio >= Padded(sy, h)
      /\ Viewport > 0 => ratio >= (200 * Viewport) \div span
  <2> DEFINE px == Padded(sx, w)
             py == Padded(sy, h)
             q == (200 * Viewport) \div span
  <2>1. px \in Nat /\ py \in Nat
    BY <1>1, PaddedIsNatural
  <2>2. q \in Nat
    <3>1. 200 * Viewport \in Nat
      BY <1>3
    <3> HIDE DEF span
    <3> QED BY <1>2, <3>1, DivMod
  <2>3. ratio = IF span > 0 /\ Viewport > 0 THEN Larger(Larger(px, py), q) ELSE Larger(px, py)
    BY DEF FitRatio
  <2>4. \A a, b, c \in Nat : /\ Larger(a, b) >= a /\ Larger(a, b) >= b /\ Larger(Larger(a, b), c) >= c
                             /\ Larger(Larger(a, b), c) >= a /\ Larger(Larger(a, b), c) >= b
    BY DEF Larger
  <2> HIDE DEF px, py, q, ratio, span
  <2>5. ratio >= px /\ ratio >= py /\ (Viewport > 0 => ratio >= q)
    BY <1>2, <2>1, <2>2, <2>3, <2>4
  <2> QED BY <2>5 DEF px, py, q
<1> HIDE DEF sx, sy, w, h, span, ratio
<1>5. ratio * span >= 100 * (sx + 2 * w) /\ ratio * span >= 100 * (sy + 2 * h)
  BY <1>1, <1>2, <1>3, <1>4, SideCovers
<1> QED BY <1>5 DEF sx, sy, w, h, span, ratio

-----------------------------------------------------------------------------
(* The places of the cards. *)

\* The picture, its layout and its places: what each phase of the worker knows of
\* the picture on screen, and what a layout that has ended left behind.
PlacesInv ==
  /\ data \in Pictures
  /\ at \in [Ids(data) -> [x : Int, y : Int]]
  /\ lastFit \in Nat
  /\ worker.phase \in {"idle", "posted", "packing", "answered"}
  /\ worker.phase # "idle" => worker.job = data
  /\ worker.phase = "packing" => worker.cards = Orphans(data) /\ worker.ranked \in Rankings(data)
  /\ worker.phase # "packing" => worker.todo = {}
  /\ worker.phase = "answered" => IsPlacing(data, worker.result)
  /\ worker.phase = "idle" => lastFit = FitRatio(data, at)
  /\ PictureIsLaidOut

LEMMA PlacesInit == Init => PlacesInv
<1> SUFFICES ASSUME Init PROVE PlacesInv
  OBVIOUS
<1>1. /\ worker.phase = "posted" /\ worker.job = FirstPicture /\ worker.todo = {}
      /\ data = FirstPicture /\ lastFit = 0 /\ data \in Pictures
  BY CanvasAssumption DEF Init, Started
<1>2. at \in [Ids(data) -> [x : Int, y : Int]]
  BY DEF Init, Origin
<1> QED BY <1>1, <1>2 DEF PlacesInv, PictureIsLaidOut

\* A new picture: its layout is to come.
LEMMA DrawnPlaces ==
  ASSUME PlacesInv, NEW d \in Pictures, Draw(d), lastFit' = lastFit
  PROVE  PlacesInv'
<1>1. /\ worker'.phase = "posted" /\ worker'.job = data' /\ worker'.todo = {} /\ data' \in Pictures
  BY DEF Draw, Launch, Started
<1>2. at' \in [Ids(data') -> [x : Int, y : Int]]
  <2>1. at' = [id \in Ids(d) |-> IF id \in DOMAIN at THEN at[id] ELSE Origin] /\ data' = d
    BY DEF Draw
  <2>2. Origin \in [x : Int, y : Int] /\ \A id \in DOMAIN at : at[id] \in [x : Int, y : Int]
    BY DEF Origin, PlacesInv
  <2> QED BY <2>1, <2>2
<1> QED BY <1>1, <1>2 DEF PlacesInv, PictureIsLaidOut

\* The end of a layout: the places of the graph are those of the result, upside
\* down, and the frame is that of these places.
LEMMA LaidPlaces ==
  ASSUME PlacesInv, Laid
  PROVE  PlacesInv'
<1>1. /\ worker.phase = "answered" /\ worker.job = data /\ IsPlacing(data, worker.result)
      /\ data \in Pictures /\ DOMAIN at = Ids(data)
  BY DEF Laid, PlacesInv
<1>2. /\ at' = Placed(worker) /\ data' = data /\ worker' = Idle
      /\ lastFit' = FitRatio(data, at')
  BY <1>1 DEF Laid, Recorded
<1> DEFINE r == worker.result
           D == DOMAIN data.cards
<1>3. ASSUME NEW i \in D
      PROVE  at'[data.cards[i].id] = [x |-> r[i].x, y |-> -r[i].y]
  <2> DEFINE id == data.cards[i].id
             j == CHOOSE k \in D : data.cards[k].id = id
  <2>1. id \in Ids(data)
    BY DEF Ids
  <2>2. j \in D /\ data.cards[j].id = id
    OBVIOUS
  <2>3. j = i
    <3> HIDE DEF j
    <3> QED BY <1>1, <2>2, PictureFacts
  <2>4. Placed(worker)[id] = [x |-> r[j].x, y |-> -r[j].y]
    BY <1>1, <2>1 DEF Placed
  <2> QED BY <1>2, <2>3, <2>4
<1>4. \A i \in D : r[i] \in [x : Int, y : Int]
  BY <1>1 DEF IsPlacing
<1>5. at' \in [Ids(data) -> [x : Int, y : Int]]
  <2>1. at' = [id \in Ids(data) |-> at'[id]]
    BY <1>1, <1>2 DEF Placed
  <2>2. ASSUME NEW id \in Ids(data) PROVE at'[id] \in [x : Int, y : Int]
    <3>1. PICK i \in D : id = data.cards[i].id
      BY DEF Ids
    <3>2. r[i].x \in Int /\ r[i].y \in Int
      BY <1>4
    <3>3. -r[i].y \in Int
      <4>1. \A a \in Int : -a \in Int
        OBVIOUS
      <4> QED BY <3>2, <4>1
    <3>4. at'[id] = [x |-> r[i].x, y |-> -r[i].y]
      BY <1>3, <3>1
    <3> QED BY <3>2, <3>3, <3>4
  <2> HIDE DEF r, D
  <2> QED BY <2>1, <2>2
<1>6. worker'.phase = "idle" /\ worker'.todo = {}
  BY <1>2 DEF Idle, Started
<1>7. PictureIsLaidOut'
  <2> DEFINE place == [i \in D |-> at'[data.cards[i].id]]
  <2>1. SUFFICES ASSUME NEW i \in D, NEW j \in D, i # j
                 PROVE  Clear(data.cards, place, i, j, GapX, GapY)
    BY <1>2 DEF PictureIsLaidOut
  <2>2. /\ place[i].x = r[i].x /\ place[i].y = -r[i].y
        /\ place[j].x = r[j].x /\ place[j].y = -r[j].y
    <3>1. place[i] = at'[data.cards[i].id] /\ place[j] = at'[data.cards[j].id]
      OBVIOUS
    <3>2. /\ place[i] = [x |-> r[i].x, y |-> -r[i].y]
          /\ place[j] = [x |-> r[j].x, y |-> -r[j].y]
      BY <1>3, <3>1
    <3> HIDE DEF place, r
    <3> QED BY <3>2
  <2>3. r[i].y \in Int /\ r[j].y \in Int
    BY <1>4
  <2>4. \A a, b \in Int : Distance(-a, -b) = Distance(a, b)
    BY DEF Distance
  <2>5. Clear(data.cards, r, i, j, GapX, GapY)
    BY <1>1, <2>1 DEF IsPlacing
  <2> HIDE DEF place
  <2> QED BY <2>2, <2>3, <2>4, <2>5 DEF Clear
<1>8. lastFit' \in Nat
  BY <1>1, <1>2, <1>5, FrameIsNatural
<1> QED BY <1>1, <1>2, <1>5, <1>6, <1>7, <1>8 DEF PlacesInv

LEMMA PlacesStep ==
  ASSUME WorkerInv, PlacesInv, [Next]_vars
  PROVE  PlacesInv'
<1>1. ASSUME UNCHANGED <<data, at, lastFit>>, worker.phase \in {"posted", "packing"},
             worker'.phase \in {"packing", "answered"}, worker'.job = worker.job,
             worker'.phase = "packing" => /\ worker'.cards = Orphans(worker.job)
                                          /\ worker'.ranked \in Rankings(worker.job),
             worker'.phase # "packing" => worker'.todo = {} /\ IsPlacing(worker.job, worker'.result)
      PROVE  PlacesInv'
  <2>1. worker.job = data
    BY <1>1 DEF PlacesInv
  <2> QED BY <1>1, <2>1 DEF PlacesInv, PictureIsLaidOut
<1>2. CASE Rank
  <2>1. UNCHANGED <<data, at, lastFit>> /\ worker.phase = "posted"
    BY <1>2 DEF Rank, framing
  <2>2. PICK ranked \in Rankings(worker.job) :
          worker' = [worker EXCEPT !.phase = "packing", !.ranked = ranked,
                                   !.cards = Orphans(worker.job),
                                   !.blocks = Blocks(Orphans(worker.job)),
                                   !.todo = Firsts(Orphans(worker.job))]
    BY <1>2 DEF Rank
  <2>3. /\ worker'.phase = "packing" /\ worker'.cards = Orphans(worker.job)
        /\ worker'.ranked = ranked /\ worker'.job = worker.job
    BY <2>2 DEF WorkerInv, WorkerFields
  <2> QED BY <1>1, <2>1, <2>2, <2>3
<1>3. CASE Pack
  <2>1. UNCHANGED <<data, at, lastFit>> /\ worker.phase = "packing"
    BY <1>3 DEF Pack, framing
  <2>2. /\ worker'.phase = worker.phase /\ worker'.cards = worker.cards
        /\ worker'.ranked = worker.ranked /\ worker'.job = worker.job
    BY <1>3 DEF Pack, WorkerInv, WorkerFields
  <2>3. worker.cards = Orphans(worker.job) /\ worker.ranked \in Rankings(worker.job)
    BY <2>1 DEF PlacesInv
  <2> QED BY <1>1, <2>1, <2>2, <2>3
<1>4. CASE Post
  <2> DEFINE corner == GridCorner(worker.job, worker.ranked)
             result == [i \in DOMAIN worker.job.cards |->
                          IF i \in DOMAIN worker.ranked THEN worker.ranked[i]
                          ELSE [x |-> corner.x + worker.flow.at[i].x, y |-> corner.y + worker.flow.at[i].y]]
  <2>1. /\ UNCHANGED <<data, at, lastFit>> /\ worker.phase = "packing" /\ worker.todo = {}
        /\ worker' = [worker EXCEPT !.phase = "answered", !.result = result]
    BY <1>4 DEF Post, framing
  <2>2. /\ worker.cards = Orphans(worker.job) /\ worker.ranked \in Rankings(worker.job)
        /\ worker.job \in Pictures
    BY <2>1 DEF PlacesInv
  <2>3. FlowInv(Orphans(worker.job), {}, worker.flow)
    BY <2>1, <2>2 DEF WorkerInv
  <2>4. IsPlacing(worker.job, result)
    BY <2>2, <2>3, ResultIsPlacing
  <2> HIDE DEF result
  <2>5. /\ worker'.phase = "answered" /\ worker'.result = result
        /\ worker'.job = worker.job /\ worker'.todo = {}
    BY <2>1 DEF WorkerInv, WorkerFields
  <2> QED BY <1>1, <2>1, <2>4, <2>5
<1>5. CASE Laid
  BY <1>5, LaidPlaces
<1>6. CASE Push
  BY <1>6, DrawnPlaces DEF Push, framing
<1>7. CASE Answer
  BY <1>7, DrawnPlaces DEF Answer, framing
<1>8. CASE UNCHANGED <<data, at, worker, lastFit>>
  BY <1>8 DEF PlacesInv, PictureIsLaidOut
<1>9. CASE ChangeView
  <2>1. lastFit' = lastFit /\ ((\E d \in Pictures : Draw(d)) \/ UNCHANGED <<data, at, worker>>)
    BY <1>9 DEF ChangeView
  <2> QED BY <1>8, <2>1, DrawnPlaces
<1>10. CASE Zoom \/ PanTo \/ DoubleClick \/ Fit \/ Down \/ Drag \/ Up \/ \E id \in AnyNode : JumpTo(id)
  BY <1>8, <1>10 DEF Zoom, PanTo, DoubleClick, Fit, Down, Drag, Up, JumpTo, Event, framing
<1>11. CASE UNCHANGED vars
  BY <1>8, <1>11 DEF vars, framing
<1> QED
  BY <1>2, <1>3, <1>4, <1>5, <1>6, <1>7, <1>9, <1>10, <1>11 DEF Next

\* Whatever pictures come and end the layouts before them, once no layout is under
\* way every card of the picture has its place and no two lie on each other.
THEOREM EveryCardHasItsPlace == Spec => []PictureIsLaidOut
<1>1. PlacesInv => PictureIsLaidOut
  BY DEF PlacesInv
<1> QED BY <1>1, WorkerInit, WorkerStep, PlacesInit, PlacesStep, PTL DEF Spec

\* And where the canvas has room for any one card, what the fit button goes back to
\* shows all of them.
THEOREM LayoutAlwaysStands ==
  ASSUME RoomForOne
  PROVE  Spec => []LayoutStands
<1>1. PlacesInv => LayoutStands
  <2> SUFFICES ASSUME PlacesInv, worker.phase = "idle", Larger(SpanX(at), SpanY(at)) > 0
               PROVE  LET span == Larger(SpanX(at), SpanY(at))
                      IN /\ lastFit * span >= 100 * (SpanX(at) + 2 * WidestCard(data))
                         /\ lastFit * span >= 100 * (SpanY(at) + 2 * TallestCard(data))
    BY DEF PlacesInv, LayoutStands, FitShowsEveryCard
  <2> QED BY FrameCovers DEF PlacesInv
<1> QED BY <1>1, WorkerInit, WorkerStep, PlacesInit, PlacesStep, PTL DEF Spec

-----------------------------------------------------------------------------
(* Types. *)

\* What the viewer and the page change, with their bounds.
DeskInv ==
  /\ token \in {d.view : d \in Pictures}
  /\ awaiting \in BOOLEAN
  /\ userMoved \in BOOLEAN
  /\ fitted = << >> \/ fitted \in {<<Signature(d)>> : d \in Pictures}
  /\ camera \in [by : {"start", "fit", "viewer", "double", "node"}, ratio : Nat, views : 0..views]
  /\ focusId \in {"none"} \cup AnyNode
  /\ pressed \in {"no", "down", "dragged"}
  /\ views \in 0..MaxViews /\ pushes \in 0..MaxPushes /\ events \in 0..MaxEvents

LEMMA DeskInit == Init => DeskInv
<1> SUFFICES ASSUME Init PROVE DeskInv
  OBVIOUS
<1>1. FirstPicture \in Pictures /\ MaxViews \in Nat /\ MaxPushes \in Nat /\ MaxEvents \in Nat
  BY CanvasAssumption
<1>2. /\ token = FirstPicture.view /\ awaiting = FALSE /\ userMoved = FALSE /\ fitted = << >>
      /\ camera = [by |-> "start", ratio |-> 100, views |-> 0]
      /\ focusId = "none" /\ pressed = "no" /\ views = 0 /\ pushes = 0 /\ events = 0
  BY DEF Init
<1>3. /\ views \in 0..MaxViews /\ pushes \in 0..MaxPushes /\ events \in 0..MaxEvents /\ 0 \in 0..views
  BY <1>1, <1>2
<1>4. camera \in [by : {"start", "fit", "viewer", "double", "node"}, ratio : Nat, views : 0..views]
  BY <1>2, <1>3
<1>5. token \in {d.view : d \in Pictures}
  BY <1>1, <1>2
<1> QED BY <1>2, <1>3, <1>4, <1>5 DEF DeskInv

LEMMA DeskStep ==
  ASSUME PlacesInv, PlacesInv', DeskInv, [Next]_vars
  PROVE  DeskInv'
<1>0. MaxViews \in Nat /\ MaxPushes \in Nat /\ MaxEvents \in Nat /\ views \in Nat
  BY CanvasAssumption DEF DeskInv
<1>1. ASSUME NEW by \in {"start", "fit", "viewer", "double", "node"}, NEW ratio \in Nat,
             camera' = [by |-> by, ratio |-> ratio, views |-> views], views' = views
      PROVE  camera' \in [by : {"start", "fit", "viewer", "double", "node"}, ratio : Nat, views : 0..views']
  BY <1>0, <1>1
<1>2. CASE UNCHANGED <<token, awaiting, userMoved, fitted, camera, focusId, pressed, views, pushes, events>>
  BY <1>2 DEF DeskInv
<1>3. CASE Rank \/ Pack \/ Post \/ UNCHANGED vars
  BY <1>2, <1>3 DEF Rank, Pack, Post, vars, framing, viewer
<1>4. CASE Push
  BY <1>0, <1>4 DEF Push, framing, viewer, DeskInv
<1>5. CASE Answer
  BY <1>5 DEF Answer, framing, viewer, DeskInv
<1>6. CASE ChangeView
  <2>1. /\ views' = views + 1 /\ views < MaxViews /\ camera' = camera /\ token' \in {d.view : d \in Pictures}
        /\ awaiting' \in BOOLEAN /\ userMoved' = FALSE /\ fitted' = << >>
        /\ UNCHANGED <<focusId, pressed, events, pushes>>
    BY <1>6 DEF ChangeView, HandedBack, viewer, DeskInv
  <2>2. camera' \in [by : {"start", "fit", "viewer", "double", "node"}, ratio : Nat, views : 0..views']
    BY <1>0, <2>1 DEF DeskInv
  <2>3. views' \in 0..MaxViews
    BY <1>0, <2>1
  <2> QED BY <2>1, <2>2, <2>3 DEF DeskInv
<1>7. CASE Laid
  <2>1. /\ fitted' = <<Signature(worker.job)>> /\ worker.job \in Pictures
        /\ UNCHANGED <<token, awaiting, userMoved, focusId, pressed, events, views, pushes>>
    BY <1>7 DEF Laid, viewer, PlacesInv
  <2>2. camera' = camera \/ camera' = [by |-> "fit", ratio |-> lastFit', views |-> views]
    BY <1>7 DEF Laid, AimFit, Recorded
  <2>3. camera' \in [by : {"start", "fit", "viewer", "double", "node"}, ratio : Nat, views : 0..views']
    BY <1>1, <2>1, <2>2 DEF DeskInv, PlacesInv
  <2> QED BY <2>1, <2>3 DEF DeskInv
<1>8. ASSUME Event PROVE events' \in 0..MaxEvents /\ UNCHANGED <<token, awaiting, views, pushes>>
  BY <1>0, <1>8 DEF Event, DeskInv
<1>9. CASE Zoom \/ PanTo
  <2>1. /\ Event /\ userMoved' = TRUE /\ camera' = [by |-> "viewer", ratio |-> 0, views |-> views]
        /\ UNCHANGED <<fitted, focusId, pressed>>
    BY <1>9 DEF Zoom, PanTo, Aim
  <2> QED BY <1>1, <1>8, <2>1 DEF DeskInv
<1>10. CASE Fit
  <2>1. /\ Event /\ userMoved' = FALSE /\ UNCHANGED <<fitted, focusId, pressed>>
        /\ \/ camera' = [by |-> "fit", ratio |-> lastFit, views |-> views]
           \/ camera' = [by |-> "start", ratio |-> 100, views |-> views]
    BY <1>10 DEF Fit, AimFit
  <2>2. views' = views /\ lastFit \in Nat
    BY <1>8, <2>1 DEF PlacesInv
  <2>3. camera' \in [by : {"start", "fit", "viewer", "double", "node"}, ratio : Nat, views : 0..views']
    BY <1>1, <2>1, <2>2
  <2> QED BY <1>8, <2>1, <2>3 DEF DeskInv
<1>11. CASE Down
  BY <1>8, <1>11 DEF Down, framing, DeskInv
<1>12. CASE Drag
  <2>1. /\ Event /\ pressed' = "dragged" /\ camera' = [by |-> "viewer", ratio |-> 0, views |-> views]
        /\ UNCHANGED <<userMoved, fitted, focusId>>
    BY <1>12 DEF Drag, Aim
  <2> QED BY <1>1, <1>8, <2>1 DEF DeskInv
<1>13. CASE Up
  <2>1. /\ pressed' = "no" /\ userMoved' = (userMoved \/ pressed = "dragged")
        /\ UNCHANGED <<token, awaiting, views, pushes, fitted, focusId, events>>
        /\ camera' = camera \/ camera' = [by |-> "viewer", ratio |-> 0, views |-> views]
    BY <1>13 DEF Up, UpAnywhere, Aim
  <2>2. camera' \in [by : {"start", "fit", "viewer", "double", "node"}, ratio : Nat, views : 0..views']
    BY <1>1, <2>1 DEF DeskInv
  <2>3. userMoved' \in BOOLEAN
    BY <2>1, Zenon
  <2> QED BY <2>1, <2>2, <2>3 DEF DeskInv
<1>14. CASE \E id \in AnyNode : JumpTo(id)
  <2>1. PICK id \in AnyNode : JumpTo(id)
    BY <1>14
  <2>2. /\ Event /\ focusId' = id /\ userMoved' \in {TRUE, userMoved} /\ UNCHANGED <<fitted, pressed>>
        /\ camera' = camera \/ camera' = [by |-> "node", ratio |-> 0, views |-> views]
    BY <2>1 DEF JumpTo, Aim
  <2>3. camera' \in [by : {"start", "fit", "viewer", "double", "node"}, ratio : Nat, views : 0..views']
    BY <1>1, <1>8, <2>2 DEF DeskInv
  <2> QED BY <1>8, <2>2, <2>3 DEF DeskInv
<1>15. CASE DoubleClick
  <2>1. /\ Event /\ UNCHANGED <<userMoved, fitted, focusId, pressed>>
        /\ camera' \in {[by |-> "viewer", ratio |-> 0, views |-> views],
                       [by |-> "double", ratio |-> 0, views |-> views]}
    BY <1>15 DEF DoubleClick, Aim
  <2>2. camera' \in [by : {"start", "fit", "viewer", "double", "node"}, ratio : Nat, views : 0..views']
    BY <1>1, <1>8, <2>1
  <2> QED BY <1>8, <2>1, <2>2 DEF DeskInv
<1> QED
  BY <1>15, <1>3, <1>4, <1>5, <1>6, <1>7, <1>9, <1>10, <1>11, <1>12, <1>13, <1>14 DEF Next

\* Every variable keeps its type: places only for the cards of the picture, a worker
\* only for the picture, ratios that are naturals.
THEOREM TypeCorrect == Spec => []TypeOK
<1>1. WorkerInv /\ PlacesInv /\ DeskInv => TypeOK
  <2> SUFFICES ASSUME WorkerInv, PlacesInv, DeskInv PROVE TypeOK
    OBVIOUS
  <2>1. worker.todo \subseteq DOMAIN data.cards
    BY DEF WorkerInv, PlacesInv, FlowInv, Firsts, Orphans
  <2> QED BY <2>1 DEF PlacesInv, DeskInv, TypeOK
<1> QED BY <1>1, WorkerInit, WorkerStep, PlacesInit, PlacesStep, DeskInit, DeskStep, PTL DEF Spec

-----------------------------------------------------------------------------
(* The camera. *)

\* A camera that was aimed in this view, by a gesture that is over, is claimed.
CameraInv ==
  /\ views \in Nat /\ events \in Nat
  /\ camera.views \in Nat /\ camera.views <= views
  /\ (camera.by \in {"viewer", "node"} /\ camera.views = views /\ pressed # "dragged") => userMoved

LEMMA CameraInit == Init => CameraInv
BY DEF Init, CameraInv

LEMMA CameraStep ==
  ASSUME CameraInv, [Next]_vars
  PROVE  CameraInv'
<1>1. CASE Laid
  BY <1>1 DEF Laid, CameraInv, AimFit, viewer
<1>2. CASE ChangeView
  BY <1>2 DEF ChangeView, CameraInv, viewer
<1>3. CASE Zoom \/ PanTo
  BY <1>3 DEF Zoom, PanTo, Event, Aim, CameraInv
<1>4. CASE Fit
  BY <1>4 DEF Fit, Event, AimFit, CameraInv
<1>5. CASE Drag
  BY <1>5 DEF Drag, Event, Aim, CameraInv
<1>6. CASE Up
  <2>1. userMoved' = (userMoved \/ pressed = "dragged")
    BY <1>6 DEF Up, UpAnywhere
  <2>2. pressed = "dragged" \/ userMoved => userMoved'
    BY <2>1, Zenon
  <2>3. /\ pressed # "no" /\ pressed' = "no" /\ views' = views /\ events' = events
        /\ IF pressed = "dragged" THEN Aim("viewer") ELSE camera' = camera
    BY <1>6 DEF Up
  <2>4. CASE pressed = "dragged"
    BY <2>2, <2>3, <2>4 DEF Aim, CameraInv
  <2>5. CASE pressed # "dragged"
    BY <2>2, <2>3, <2>5 DEF CameraInv
  <2> QED BY <2>4, <2>5
<1>7. CASE \E id \in AnyNode : JumpTo(id)
  BY <1>7 DEF JumpTo, Event, Aim, CameraInv
<1>8. CASE Down
  BY <1>8 DEF Down, Event, framing, CameraInv
<1>10. CASE DoubleClick
  BY <1>10 DEF DoubleClick, Event, Aim, CameraInv
<1>9. CASE Rank \/ Pack \/ Post \/ Push \/ Answer \/ UNCHANGED vars
  BY <1>9 DEF Rank, Pack, Post, Push, Answer, vars, framing, viewer, CameraInv
<1> QED
  BY <1>1, <1>2, <1>3, <1>4, <1>5, <1>6, <1>7, <1>8, <1>9, <1>10 DEF Next

\* Within a view, nothing but the viewer moves a camera that the viewer has aimed by a
\* gesture that sets userMoved; a double click sets nothing, and is not among them.
THEOREM CameraStaysTheViewers == Spec => CameraIsTheViewers
<1> DEFINE Kept ==
      (/\ camera.by \in {"viewer", "node"}
       /\ camera.views = views'
       /\ pressed = "no"
       /\ events' = events)
      => camera' = camera
<1>1. ASSUME CameraInv, [Next]_vars PROVE [Kept]_vars
  <2>1. CASE Laid
    BY <1>1, <2>1 DEF Laid, CameraInv
  <2>2. CASE ChangeView
    BY <1>1, <2>2 DEF ChangeView, CameraInv
  <2>3. CASE Zoom \/ PanTo \/ DoubleClick \/ Fit \/ Drag \/ Down \/ \E id \in AnyNode : JumpTo(id)
    <3>1. events' = events + 1 /\ events \in Nat
      BY <1>1, <2>3 DEF Zoom, PanTo, DoubleClick, Fit, Drag, Down, JumpTo, Event, CameraInv
    <3> QED BY <3>1
  <2>4. CASE Up
    BY <2>4 DEF Up
  <2>5. CASE Rank \/ Pack \/ Post \/ Push \/ Answer \/ UNCHANGED vars
    BY <2>5 DEF Rank, Pack, Post, Push, Answer, vars, framing
  <2> QED BY <1>1, <2>1, <2>2, <2>3, <2>4, <2>5 DEF Next
<1> QED BY <1>1, CameraInit, CameraStep, PTL DEF Spec, CameraIsTheViewers

-----------------------------------------------------------------------------
(* The camera on a new view. *)

\* Cards have a size, so that no frame has the ratio 0, which stands for none.
LEMMA FrameIsARatio ==
  ASSUME NEW d \in Pictures, NEW places \in [Ids(d) -> [x : Int, y : Int]]
  PROVE  FitRatio(d, places) > 0
<1>1. ASSUME NEW s \in Nat, NEW card \in Nat
      PROVE  Padded(s, card) \in Nat /\ Padded(s, card) > 0
  <2>1. CASE s > 0
    <3> DEFINE p == Padded(s, card)
    <3>1. p \in Nat /\ p * s >= 100 * (s + 2 * card)
      BY <2>1, PaddedCovers
    <3>2. p * s >= 100
      <4>1. 100 * (s + 2 * card) >= 100
        BY <2>1
      <4>2. p * s \in Nat /\ 100 * (s + 2 * card) \in Nat
        BY <3>1
      <4> HIDE DEF p
      <4> QED BY <3>1, <4>1, <4>2
    <3>3. p # 0
      <4> HIDE DEF p
      <4> QED BY <3>2
    <3> QED BY <3>1, <3>3
  <2>2. CASE ~ (s > 0)
    BY <2>2 DEF Padded
  <2> QED BY <2>1, <2>2
<1> DEFINE sx == SpanX(places)
           sy == SpanY(places)
           span == Larger(sx, sy)
           px == Padded(sx, WidestCard(d))
           py == Padded(sy, TallestCard(d))
<1>2. sx \in Nat /\ sy \in Nat /\ WidestCard(d) \in Nat /\ TallestCard(d) \in Nat
  BY FrameSizes
<1>3. px \in Nat /\ px > 0 /\ py \in Nat
  BY <1>1, <1>2
<1>4. \A a, b \in Nat : Larger(a, b) \in Nat /\ Larger(a, b) >= a
  BY DEF Larger
<1>5. span \in Nat /\ Larger(px, py) \in Nat /\ Larger(px, py) > 0
  BY <1>2, <1>3, <1>4
<1>6. span > 0 => (200 * Viewport) \div span \in Nat
  <2>1. 200 * Viewport \in Nat
    BY CanvasAssumption
  <2> QED BY <1>5, <2>1, DivMod
<1> HIDE DEF px, py, span
<1>7. FitRatio(d, places) = IF span > 0 /\ Viewport > 0
                            THEN Larger(Larger(px, py), (200 * Viewport) \div span)
                            ELSE Larger(px, py)
  BY DEF FitRatio, span, px, py
<1> QED BY <1>4, <1>5, <1>6, <1>7

\* The camera was aimed in the view that is asked for.
Framed == camera.views = views /\ camera.by # "start"

\* The picture that was asked for is there and laid out, and the camera is aimed.
RestsFramed == worker.phase = "idle" /\ ~awaiting => Framed

\* A claim, and the memory of a layout, are of this view: a new view forgets both,
\* so that its first layout may not leave the camera alone.
FramingInv ==
  /\ userMoved => Framed
  /\ fitted # << >> => Framed /\ lastFit > 0
  /\ worker.phase = "idle" => lastFit > 0
  /\ RestsFramed

LEMMA FramingInit == Init => FramingInv
BY DEF Init, FramingInv, RestsFramed, Started

\* The end of a layout aims the camera, or finds it aimed in this view.
LEMMA LaidIsFramed ==
  ASSUME PlacesInv, FramingInv, Laid
  PROVE  FramingInv'
<1>1. /\ worker.job = data /\ data \in Pictures
      /\ lastFit' = FitRatio(data, at') /\ views' = views /\ userMoved' = userMoved
  BY DEF Laid, PlacesInv, Recorded
<1>2. lastFit' > 0
  BY <1>1, LaidPlaces, FrameIsARatio DEF PlacesInv, Laid
<1>3. CASE fitted = <<Signature(worker.job)>> \/ userMoved
  <2>1. Framed
    BY <1>3 DEF FramingInv
  <2>2. camera' = camera
    BY <1>3 DEF Laid
  <2> QED BY <1>1, <1>2, <2>1, <2>2 DEF FramingInv, RestsFramed, Framed
<1>4. CASE ~ (fitted = <<Signature(worker.job)>> \/ userMoved)
  <2>1. PICK ratio : camera' = [by |-> "fit", ratio |-> ratio, views |-> views]
    BY <1>4 DEF Laid, AimFit
  <2>2. Framed'
    BY <1>1, <2>1 DEF Framed
  <2> QED BY <1>2, <2>2 DEF FramingInv, RestsFramed
<1> QED BY <1>3, <1>4

LEMMA FramingStep ==
  ASSUME PlacesInv, FramingInv, [Next]_vars
  PROVE  FramingInv'
<1> USE DEF FramingInv, RestsFramed, Framed
<1>1. CASE UNCHANGED vars
  BY <1>1 DEF vars, viewer
<1>2. CASE Rank
  BY <1>2 DEF Rank, framing
<1>3. CASE Pack
  BY <1>3 DEF Pack, framing
<1>4. CASE Post
  BY <1>4 DEF Post, framing
<1>5. CASE Laid
  BY <1>5, LaidIsFramed
<1>6. CASE Push
  BY <1>6 DEF Push, Draw, Launch, Started, framing
<1>7. CASE ChangeView
  <2>1. userMoved' = FALSE /\ fitted' = << >> /\ lastFit' = lastFit
    BY <1>7 DEF ChangeView, HandedBack
  <2>2. worker'.phase = "posted" \/ (worker' = worker /\ awaiting' = TRUE)
    BY <1>7 DEF ChangeView, Draw, Launch, Started
  <2> QED BY <2>1, <2>2
<1>8. CASE Answer
  BY <1>8 DEF Answer, Draw, Launch, Started, framing
<1>9. CASE Zoom \/ PanTo
  BY <1>9 DEF Zoom, PanTo, Event, Aim
<1>10. CASE Fit
  <2>1. /\ userMoved' = FALSE /\ fitted' = fitted /\ lastFit' = lastFit
        /\ worker' = worker /\ awaiting' = awaiting /\ views' = views
    BY <1>10 DEF Fit, Event
  <2>2. CASE lastFit > 0
    BY <1>10, <2>1, <2>2 DEF Fit, AimFit
  <2>3. CASE ~ (lastFit > 0)
    BY <2>1, <2>3
  <2> QED BY <2>2, <2>3
<1>11. CASE Down
  BY <1>11 DEF Down, Event, framing
<1>12. CASE Drag
  BY <1>12 DEF Drag, Event, Aim
<1>13. CASE Up
  <2>1. /\ fitted' = fitted /\ lastFit' = lastFit /\ worker' = worker
        /\ awaiting' = awaiting /\ views' = views
        /\ IF pressed = "dragged" THEN Aim("viewer") ELSE camera' = camera
    BY <1>13 DEF Up
  <2>2. userMoved' = (userMoved \/ pressed = "dragged")
    BY <1>13 DEF Up, UpAnywhere
  <2>3. CASE pressed = "dragged"
    <3>1. Framed'
      BY <2>1, <2>3 DEF Aim
    <3> QED BY <2>1, <3>1
  <2>4. CASE pressed # "dragged"
    <3>1. userMoved' => userMoved
      BY <2>2, <2>4, Zenon
    <3> QED BY <2>1, <2>4, <3>1
  <2> QED BY <2>3, <2>4
<1>14. CASE \E id \in AnyNode : JumpTo(id)
  BY <1>14 DEF JumpTo, Event, Aim
<1>15. CASE DoubleClick
  BY <1>15 DEF DoubleClick, Event, Aim
<1> QED
  BY <1>1, <1>2, <1>3, <1>4, <1>5, <1>6, <1>7, <1>8, <1>9, <1>10, <1>11, <1>12, <1>13, <1>14, <1>15
     DEF Next

\* Of the view that is asked for, once its picture has come and is laid out, the
\* camera was aimed by its layout or by the viewer: never left where the former view
\* had it, nor where it was before anything was drawn.
THEOREM ViewRestsFramed == Spec => []RestsFramed
<1>1. FramingInv => RestsFramed
  BY DEF FramingInv
<1> QED BY <1>1, PlacesInit, PlacesStep, FramingInit, FramingStep, WorkerInit, WorkerStep, PTL DEF Spec

-----------------------------------------------------------------------------
(* The pills. *)

\* No pill covers the card, or its arrow's place beside it, or leaves the canvas on
\* the side where it is.
THEOREM PillsStandOff ==
  ASSUME NEW left \in Int, NEW right \in Int, NEW canvasW \in Nat, NEW unit \in Nat,
         NEW pillW \in Nat, NEW preferred \in Sides, NEW card,
         card = [left |-> left, right |-> right],
         NEW side, side = Pick(card, canvasW, unit, pillW, preferred), side # "none"
  PROVE  LET x == PillLeft(card, canvasW, unit, pillW, side)
         IN IF side = "left" THEN 6 * unit <= x /\ x + pillW + 16 * unit <= card.left
            ELSE card.right + 16 * unit <= x /\ x + pillW + 6 * unit <= canvasW
<1>1. side \in Sides /\ Room(card, canvasW, unit, pillW, side)
  BY DEF Pick, Sides, Other
<1>2. CASE side = "left"
  BY <1>1, <1>2 DEF Room, PillLeft, Greater
<1>3. CASE side = "right"
  BY <1>1, <1>3 DEF Room, PillLeft, Smaller
<1> QED BY <1>1, <1>2, <1>3 DEF Sides

\* The two pills of a card that is open both ways do not cover each other: they are
\* on different sides of it, or one is drawn Lift above the middle of the card and
\* the other as far below.
THEOREM PillsPart ==
  ASSUME NEW left \in Int, NEW right \in Int, left <= right, NEW canvasW \in Nat,
         NEW unit \in Nat, NEW pillW \in Nat, NEW pillH \in Nat, NEW card,
         card = [left |-> left, right |-> right],
         NEW in, in = Pick(card, canvasW, unit, pillW, "left"), in # "none",
         NEW out, out = Pick(card, canvasW, unit, pillW, "right"), out # "none"
  PROVE  \/ /\ in # out
            /\ \/ PillLeft(card, canvasW, unit, pillW, in) + pillW
                    <= PillLeft(card, canvasW, unit, pillW, out)
               \/ PillLeft(card, canvasW, unit, pillW, out) + pillW
                    <= PillLeft(card, canvasW, unit, pillW, in)
         \/ 2 * Lift(in, out, pillH) >= 100 * pillH
<1>1. CASE in = out
  BY <1>1 DEF Lift
<1>2. CASE in # out
  <2>1. in = "left" /\ out = "right"
    BY <1>2 DEF Pick, Other
  <2>2. PillLeft(card, canvasW, unit, pillW, in) + pillW + 16 * unit <= left
    BY <2>1, PillsStandOff DEF Sides
  <2>3. right + 16 * unit <= PillLeft(card, canvasW, unit, pillW, out)
    BY <2>1, PillsStandOff DEF Sides
  <2>4. PillLeft(card, canvasW, unit, pillW, in) \in Int
        /\ PillLeft(card, canvasW, unit, pillW, out) \in Int
    BY DEF PillLeft, Greater, Smaller
  <2> QED BY <1>2, <2>2, <2>3, <2>4
<1> QED BY <1>1, <1>2
=============================================================================
