---------------------------- MODULE MCMuxServer ----------------------------
(***************************************************************************)
(* Two streams, one after the other or, when the id is opened again early, *)
(* at a time.  Each begins with credit for one chunk and is granted a      *)
(* second one, also while the first is read.  The channel holds one frame, *)
(* so that every sender meets it full.                                     *)
(***************************************************************************)
EXTENDS MuxServer

==============================================================================
