------------------------------ MODULE MCTether ------------------------------
(***************************************************************************)
(* Two ids for three users: a place for a TCP connection, which is taken   *)
(* twice, and two UDP ports, so that ids run out, come round and are used  *)
(* for the other kind of stream.  Queues of one frame are full often, and  *)
(* once the channel is lost or the drain drops a frame.                    *)
(***************************************************************************)
EXTENDS Tether

==============================================================================
