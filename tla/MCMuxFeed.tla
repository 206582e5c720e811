----------------------------- MODULE MCMuxFeed -----------------------------
(***************************************************************************)
(* Headers of three bytes, payloads of none or two, in packets of one to   *)
(* five bytes: a packet ends inside a header, inside a payload, at their   *)
(* border, or holds parts of two frames.                                   *)
(***************************************************************************)
EXTENDS MuxFeed

==============================================================================
