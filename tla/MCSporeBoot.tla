----------------------------- MODULE MCSporeBoot -----------------------------
(* Instances of SporeBoot for TLC: two installations of one spore. *)
EXTENDS SporeBoot
CONSTANTS i1, i2, original, add, note, nobody, absent
=============================================================================
