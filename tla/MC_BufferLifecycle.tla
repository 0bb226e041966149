------------------------- MODULE MC_BufferLifecycle -------------------------
(* Small instances of BufferLifecycle for TLC. *)
EXTENDS BufferLifecycle, TLC

CONSTANTS win, sub, b1, b2, b3

OneWindow == [s \in {sub} |-> win]
NoSubsurfaces == << >>
Symmetry == Permutations(BufferIds)
=============================================================================
