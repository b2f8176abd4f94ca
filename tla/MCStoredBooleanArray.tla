------------------------- MODULE MCStoredBooleanArray -------------------------
(* Instances of StoredBooleanArray for TLC: a few bits in one or two slots.      *)
EXTENDS StoredBooleanArray
=============================================================================
