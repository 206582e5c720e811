---------------------------- MODULE MCSendQueue ----------------------------
(***************************************************************************)
(* A ring of three slots (two usable) and six frames: the ring wraps       *)
(* around, fills up, overflows, and is reset with frames still in it.      *)
(***************************************************************************)
EXTENDS SendQueue

==============================================================================
