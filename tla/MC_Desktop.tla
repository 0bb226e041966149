------------------------------ MODULE MC_Desktop ------------------------------
(* Desktop, one part at a time: they have nothing in common, so a behaviour of  *)
(* all of them is, for each, a behaviour of it.  `part' is the one that moves.  *)
EXTENDS Desktop

CONSTANTS c1, c2, s1, d1, d2, k, p, m, q, w1, w2, w3, w4

\* WindowStates: one axis of an output, and size hints.  Two windows take turns
\* with the focus, the grab and the whole of an output one pixel wide; one window
\* is moved and resized across a wide output with a panel at its near edge.
Span(at, n) == [x |-> at, width |-> n]
Limit(least, most) == [min |-> least, max |-> most]

NarrowOutput == Span(0, 1)
NarrowUsable == Span(0, 1)
WideOutput == Span(0, 3)
WideUsable == Span(1, 2)
NoHints == {Limit(0, 0)}
SomeHints == {Limit(0, 0), Limit(2, 1)}

\* KeyboardDelivery and PointerDelivery: the first client has two surfaces, which
\* for the pointer are one window.
OwnerOfWindow == [w \in {w1, w2, w3} |-> IF w = w3 THEN c2 ELSE c1]
WindowOf == [w \in {w1, w2, w3} |-> IF w = w3 THEN w3 ELSE w1]
AltTab == {[modifiers |-> {"alt"}, key |-> "tab"]}

\* DataTransfer: the second client is a target, or a manager.  Both clients have
\* the clipboard in the drags, and the primary selection when they only select.
OwnerInDrags == [x \in {s1, d1, d2} |-> IF x = d2 THEN c2 ELSE c1]
OwnerInSelections == [x \in {p, k, q, m} |-> IF x \in {p, q} THEN c1 ELSE c2]

VARIABLE part

Parts == {"drag", "selecting", "one window", "two windows", "families", "keyboard", "pointer"}

Init == part \in Parts /\ InitDesktop

Next ==
  /\ UNCHANGED part
  /\ \/ part = "drag" /\ DraggingStep
     \/ part = "selecting" /\ SelectingStep
     \/ part = "one window" /\ OneWindowStep
     \/ part = "two windows" /\ TwoWindowsStep
     \/ part = "families" /\ FamiliesStep
     \/ part = "keyboard" /\ KeyboardStep
     \/ part = "pointer" /\ PointerStep

Spec == Init /\ [][Next]_<<part, desktop>>
=============================================================================
