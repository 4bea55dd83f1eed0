------------------------------ MODULE Packing ------------------------------
(***************************************************************************)
(* packOrphans of web/src/graph/layout.worker.ts: a grid of the cards that *)
(* no edge touches.  The cards of a namespace (their group) are a block of *)
(* equal cells, and the blocks flow into rows.                             *)
(*                                                                         *)
(* cards is a sequence of records with w, h and group.  A block is named   *)
(* by the position of the first of its cards, which is also the order of   *)
(* the blocks.  A flow is where the loop over the blocks stands; its at    *)
(* has the centres of the cards placed so far, in half units, from the     *)
(* corner of the grid.                                                     *)
(***************************************************************************)
EXTENDS Integers, Sequences, FiniteSets, FiniteSetsExt

GapX == 34
GapY == 34
BlockGap == 96

Larger(a, b) == IF a >= b THEN a ELSE b

Members(cards, i) == {j \in DOMAIN cards : cards[j].group = cards[i].group}

Firsts(cards) == {i \in DOMAIN cards : \A j \in Members(cards, i) : i <= j}

\* The place of a card in its block, from 0.
Index(cards, j) == Cardinality({k \in Members(cards, j) : k < j})

\* The columns that make n cells about 16 wide to 9 high: the square root of
\* 16 n h / 9 w, rounded, but from 1 to n.
Columns(n, w, h) == Max({1} \cup {c \in 1..n : 9 * w * (2 * c - 1) * (2 * c - 1) <= 64 * n * h})

Block(cards, i) ==
  LET mine == Members(cards, i)
      n == Cardinality(mine)
      cellW == Max({cards[j].w : j \in mine}) + GapX
      cellH == Max({cards[j].h : j \in mine}) + GapY
      cols == Columns(n, cellW, cellH)
  IN [cellW |-> cellW, cellH |-> cellH, cols |-> cols,
      width |-> cols * cellW, height |-> ((n + cols - 1) \div cols) * cellH]

Blocks(cards) == [i \in Firsts(cards) |-> Block(cards, i)]

\* A row is as wide as the widest block, or as the root of 16/9 of their area.
PassesRowLimit(blocks, x) ==
  /\ \A i \in DOMAIN blocks : x > blocks[i].width
  /\ 9 * x * x > 16 * MapThenSumSet(LAMBDA i : blocks[i].width * blocks[i].height, DOMAIN blocks)

NoCards == [i \in {} |-> [x |-> 0, y |-> 0]]
StartFlow == [x |-> 0, y |-> 0, rowHeight |-> 0, at |-> NoCards]

\* Where a block begins: in the row, or at the beginning of the next.
RowFor(blocks, f, i) ==
  IF f.x > 0 /\ PassesRowLimit(blocks, f.x + blocks[i].width)
  THEN [x |-> 0, y |-> f.y + f.rowHeight + BlockGap, rowHeight |-> 0]
  ELSE [x |-> f.x, y |-> f.y, rowHeight |-> f.rowHeight]

\* The centre of a card in a block that begins at row.
CellCentre(cards, b, row, j) ==
  [x |-> 2 * (row.x + (Index(cards, j) % b.cols) * b.cellW) + b.cellW,
   y |-> 2 * (row.y + (Index(cards, j) \div b.cols) * b.cellH) + b.cellH]

\* Wrong: the row is as high as the last of its blocks.
GrownLast(row, b) == b.height

Grown(row, b) == Larger(row.rowHeight, b.height)

\* One turn of the loop: wrap, place the cards of the block, move the cursor.
PlaceBlock(cards, blocks, f, i) ==
  LET row == RowFor(blocks, f, i)
      mine == Members(cards, i)
  IN [x |-> row.x + blocks[i].width + BlockGap,
      y |-> row.y,
      rowHeight |-> Grown(row, blocks[i]),
      at |-> [j \in DOMAIN f.at \cup mine |->
                IF j \in mine THEN CellCentre(cards, blocks[i], row, j) ELSE f.at[j]]]

-----------------------------------------------------------------------------
(* What the grid promises. *)

Distance(a, b) == IF a <= b THEN b - a ELSE a - b

\* Between two centres, in half units, there is room for both cards and d units.
Clear(cards, at, j, k, dx, dy) ==
  \/ Distance(at[j].x, at[k].x) >= cards[j].w + cards[k].w + 2 * dx
  \/ Distance(at[j].y, at[k].y) >= cards[j].h + cards[k].h + 2 * dy

\* Two cards are a gap apart, and those of two namespaces so far apart that the
\* boxes around the namespaces, which stand 22 units off their cards and 33 above
\* them (overlay.ts:801-811), are apart too.
Apart(cards, at) ==
  \A j, k \in DOMAIN at : j # k =>
    IF cards[j].group = cards[k].group
    THEN Clear(cards, at, j, k, GapX, GapY)
    ELSE Clear(cards, at, j, k, GapX + BlockGap, GapY + BlockGap)
=============================================================================
