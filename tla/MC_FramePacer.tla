--------------------------- MODULE MC_FramePacer ---------------------------
(* Small instances of FramePacer for TLC. *)
EXTENDS FramePacer

CONSTANTS o1, o2, c1, c2, p, q

\* One window that may sit left, right or across, and a second one over it.
Left == [cells |-> {c1}, picture |-> p]
Across == [cells |-> {c1, c2}, picture |-> p]
Over == [cells |-> {c2}, picture |-> q]

MCLooks == { << >>, <<Left>>, <<Across>>, <<Over, Across>>, <<Across, Over>> }
FewLooks == { << >>, <<Left>>, <<Across, Over>> }
=============================================================================
