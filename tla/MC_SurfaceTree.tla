--------------------------- MODULE MC_SurfaceTree ---------------------------
(* Small instances of SurfaceTree for TLC. *)
EXTENDS SurfaceTree, TLC

CONSTANTS s1, s2, s3

AnySurfaces == SUBSET Surfaces
Symmetry == Permutations(Surfaces)
=============================================================================
