----------------------------- MODULE MC_Contents -----------------------------
(* Contents, one part at a time: they have nothing in common, so a behaviour of *)
(* all of them is, for each, a behaviour of it.  `part' is the one that moves.  *)
EXTENDS Contents

CONSTANTS o1, o2, b1, b2, c1, c2, p1, p2, p3, w1, w2

\* Popups: a menu that flips where that helps and slides where it does not, kept
\* on screen; and a wide one of a window about to be narrower than the output,
\* which slides and then shrinks.
Menu(at, w, n, a, g, adjust, parent) ==
  [rect |-> at, rectWidth |-> w, width |-> n, anchor |-> a, gravity |-> g, offset |-> 0,
   adjust |-> adjust, parentWidth |-> parent]
TwoMenus ==
  {Menu(0, 1, 2, -1, -1, {"flip", "slide"}, 0), Menu(1, 1, 4, 0, 0, {"slide", "resize"}, 2)}

\* LayerPanels: a bar, a dock with a margin, and a backdrop that no zone pushes
\* aside, of its own width in the middle and as high as the output.
OneArea == {[w |-> 4, h |-> 3]}
Wish(size, anchor, zone, margin, layer) ==
  [size |-> size, anchor |-> anchor, zone |-> zone, margin |-> margin, layer |-> layer]
ThreeWishes ==
  {Wish(<<0, 1>>, {"left", "right", "top"}, 1, 0, 2),
   Wish(<<1, 0>>, {"top", "bottom", "left"}, 2, 1, 2),
   Wish(<<1, 0>>, {"top", "bottom"}, -1, 0, 0)}

VARIABLE part

Parts == {"pixels", "imports", "pools", "configures", "popups", "panels"}

Init == part \in Parts /\ InitContents

Next ==
  /\ UNCHANGED part
  /\ \/ part = "pixels" /\ PixelsStep
     \/ part = "imports" /\ ImportsStep
     \/ part = "pools" /\ PoolsStep
     \/ part = "configures" /\ ConfiguresStep
     \/ part = "popups" /\ PopupsStep
     \/ part = "panels" /\ PanelsStep

Spec == Init /\ [][Next]_<<part, contents>>
=============================================================================
