------------------------- MODULE MC_KeyboardDelivery -------------------------
(* A small instance of KeyboardDelivery for TLC: two clients, one with two    *)
(* windows, and one bound key.                                                *)
EXTENDS KeyboardDelivery

CONSTANTS w1, w2, w3, c1, c2

OwnerOfWindow == [w \in {w1, w2, w3} |-> IF w = w3 THEN c2 ELSE c1]
Bound == {[modifiers |-> {"alt"}, key |-> "tab"]}
=============================================================================
