--------------------------- MODULE MC_DamageUpload ---------------------------
(* Small instances of DamageUpload for TLC. *)
EXTENDS DamageUpload

CONSTANTS o1, o2, b1, b2, c1, c2
=============================================================================
