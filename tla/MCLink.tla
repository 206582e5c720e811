------------------------------- MODULE MCLink -------------------------------
(***************************************************************************)
(* One server channel, which the phone's service takes and leaves, so that *)
(* the one the daemon has found may be gone.  Two callers for one slot     *)
(* of the control socket and two peers, the second of which asks while the *)
(* first is pending.                                                       *)
(***************************************************************************)
EXTENDS Operator

==============================================================================
