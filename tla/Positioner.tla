----------------------------- MODULE Positioner -----------------------------
(* Where a popup goes (src/protocol/xdg_positioner.rs), along one axis: the
   code settles each axis on its own.  The anchor and the gravity say where the
   client wants the popup, the adjustments what to do when that is outside the
   region it is to stay in.

   Coordinates are relative to the parent.  Saturating at the ends of i32 is
   left out: nothing on a screen is that far. *)
EXTENDS Integers

Adjustments == {"flip", "slide", "resize"}

\* Ends of a rectangle: -1 the near one, 1 the far one, 0 neither.
Ends == {-1, 0, 1}

\* parentWidth is the width the parent is about to have, 0 where the client
\* names none or withdraws it.
Positioner == [rect : Int, rectWidth : Nat, width : Nat, anchor : Ends,
               gravity : Ends, offset : Int, adjust : SUBSET Adjustments,
               parentWidth : Nat]

Region == [origin : Int, extent : Nat]

\* A popup's place, as get_popup and reposition send it.
Place == [x : Int, width : Nat]

anchor_point(pos, anchor) ==
  CASE anchor = -1 -> pos.rect
    [] anchor = 1  -> pos.rect + pos.rectWidth
    [] OTHER       -> pos.rect + pos.rectWidth \div 2

\* Gravity is the direction the popup extends in from the anchor point.
unconstrained(pos, anchor, gravity) ==
  pos.offset +
    CASE gravity = -1 -> anchor_point(pos, anchor) - pos.width
      [] gravity = 1  -> anchor_point(pos, anchor)
      [] OTHER        -> anchor_point(pos, anchor) - pos.width \div 2

fits(x, width, r) == x >= r.origin /\ x + width <= r.origin + r.extent

\* A popup too large for the region is pinned to its near end.
slide(x, width, r) ==
  LET limit == r.origin + r.extent - width
      low   == IF x > limit THEN limit ELSE x
  IN  IF low < r.origin THEN r.origin ELSE low

shrink(x, width, r) ==
  LET start == IF x < r.origin THEN r.origin ELSE x
      room  == r.origin + r.extent - start
      cut   == IF width > room THEN room ELSE width
  IN  [x |-> start, width |-> IF cut < 1 THEN 1 ELSE cut]

first_choice(pos) == unconstrained(pos, pos.anchor, pos.gravity)
flipped(pos) == unconstrained(pos, 0 - pos.anchor, 0 - pos.gravity)

\* Flipping is taken only where it helps.
AfterFlip(pos, r) ==
  IF /\ "flip" \in pos.adjust
     /\ ~fits(first_choice(pos), pos.width, r)
     /\ fits(flipped(pos), pos.width, r)
  THEN flipped(pos) ELSE first_choice(pos)

AfterSlide(pos, r) ==
  LET x == AfterFlip(pos, r) IN
  IF "slide" \in pos.adjust /\ ~fits(x, pos.width, r) THEN slide(x, pos.width, r) ELSE x

place(pos, r) ==
  LET x == AfterSlide(pos, r) IN
  IF "resize" \in pos.adjust /\ ~fits(x, pos.width, r)
  THEN shrink(x, pos.width, r) ELSE [x |-> x, width |-> pos.width]

-----------------------------------------------------------------------------
\* What a client may rely on.  A first choice that fits is taken as it is; a
\* flip that helps is taken; a popup that may slide is inside if it can be at
\* all; and one that may slide and be resized always is.
Kept(pos, r, p) ==
  /\ fits(first_choice(pos), pos.width, r) =>
       p = [x |-> first_choice(pos), width |-> pos.width]
  /\ \/ "flip" \in pos.adjust /\ fits(flipped(pos), pos.width, r)
     \/ "slide" \in pos.adjust /\ pos.width <= r.extent
     \/ {"slide", "resize"} \subseteq pos.adjust /\ r.extent > 0
     => fits(p.x, p.width, r)
=============================================================================
