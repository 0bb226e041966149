------------------------------ MODULE Painting ------------------------------
(***************************************************************************)
(* What a scene looks like, and what changed between two of them           *)
(* (src/scene.rs).                                                         *)
(*                                                                         *)
(* A scene is a back-to-front list of quads.  Here a quad covers a set of  *)
(* screen cells and shows one picture in all of them; two quads are the    *)
(* same exactly when they would draw identically, which is what            *)
(* same_element decides in the code by comparing destination, opacity,     *)
(* transform and the texture's serial.                                     *)
(***************************************************************************)
EXTENDS Naturals, Sequences

CONSTANTS Cells,        \* the cells of the logical screen
          Pictures,     \* what a quad can show: a buffer at one content serial
          Background    \* what a cell no quad covers shows

Quad == [cells : SUBSET Cells, picture : Pictures]

\* The positions of a quad list whose quads cover a cell.
Covering(quads, cell) == {i \in DOMAIN quads : cell \in quads[i].cells}

\* The position of the quad seen in a cell: the topmost one covering it.
Seen(quads, cell) ==
  {i \in Covering(quads, cell) : \A j \in Covering(quads, cell) : j <= i}

\* What drawing the whole list back to front leaves in a cell.
PaintedCell(quads, cell) ==
  IF Seen(quads, cell) = {} THEN Background
  ELSE quads[CHOOSE i \in Seen(quads, cell) : TRUE].picture

Painted(quads) == [cell \in Cells |-> PaintedCell(quads, cell)]

(***************************************************************************)
(* Quads are matched by position, as the code does: a scene has no stable  *)
(* identity for its elements, so an insertion damages everything from that *)
(* point back.                                                             *)
(***************************************************************************)
SameElement(previous, current, i) ==
  /\ i \in DOMAIN previous
  /\ i \in DOMAIN current
  /\ previous[i] = current[i]

CellsAt(quads, i) == IF i \in DOMAIN quads THEN quads[i].cells ELSE {}

\* Mutant: an element that moved damages only where it landed.
DamageWhereLanded(previous, current) ==
  UNION { CellsAt(current, i) :
            i \in {j \in DOMAIN previous \cup DOMAIN current :
                     ~ SameElement(previous, current, j)} }

\* scene::output_damage: where each differing slot was and where it now is.
OutputDamage(previous, current) ==
  UNION { CellsAt(previous, i) \cup CellsAt(current, i) :
            i \in {j \in DOMAIN previous \cup DOMAIN current :
                     ~ SameElement(previous, current, j)} }

\* A backend that repaints only the damaged cells of what it had drawn.
Repainted(screen, quads, damage) ==
  [cell \in Cells |-> IF cell \in damage THEN PaintedCell(quads, cell)
                                         ELSE screen[cell]]
=============================================================================
