---------------------------- MODULE MCRfcommService ----------------------------
(***************************************************************************)
(* Two instances, the second made while the first is being destroyed; two  *)
(* sockets, for two instances or for one that listens twice; and three     *)
(* commands waiting, so that a start follows a stop to the same instance.  *)
(***************************************************************************)
EXTENDS RfcommService

==============================================================================
