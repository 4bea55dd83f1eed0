------------------------------ MODULE Exposure ------------------------------
(***************************************************************************)
(* drawExposure of web/src/graph/overlay.ts: the pills that say "anything" *)
(* beside the selected card, one for each direction that nothing isolates. *)
(* The card is on the screen with its left and right edge at card.left and *)
(* card.right, the canvas is from 0 to canvasW, and unit is a layout unit  *)
(* in pixels.  Pixels are integers here.  Pills are of one size.           *)
(***************************************************************************)
EXTENDS Integers

Sides == {"left", "right"}

Other(side) == IF side = "left" THEN "right" ELSE "left"

Smaller(a, b) == IF a <= b THEN a ELSE b
Greater(a, b) == IF a >= b THEN a ELSE b

\* Room for a pill and its arrow.
Room(card, canvasW, unit, pillW, side) ==
  IF side = "left" THEN card.left - 6 * unit >= pillW + 16 * unit
  ELSE canvasW - 6 * unit - card.right >= pillW + 16 * unit

\* The preferred side, the other, or "none".
Pick(card, canvasW, unit, pillW, preferred) ==
  IF Room(card, canvasW, unit, pillW, preferred) THEN preferred
  ELSE IF Room(card, canvasW, unit, pillW, Other(preferred)) THEN Other(preferred) ELSE "none"

\* Where a pill begins: off the card, but within the canvas.
PillLeft(card, canvasW, unit, pillW, side) ==
  IF side = "left" THEN Greater(6 * unit, card.left - 58 * unit - pillW)
  ELSE Smaller(card.right + 58 * unit, canvasW - 6 * unit - pillW)

\* How far from the middle of the card, in hundredths of a pixel: two pills on one
\* side part vertically.
Lift(inSide, outSide, pillH) == IF inSide # "none" /\ inSide = outSide THEN 72 * pillH ELSE 0
=============================================================================
