----------------------------- MODULE OrderedPipe -----------------------------
(***************************************************************************)
(* What the daemon's transmit path promises to the mux layer: frames it    *)
(* accepts on an open channel leave in the order they were accepted, each  *)
(* at most once, and only on the channel they were accepted for.  Frames   *)
(* are numbered in the order the mux layer offers them; only one whose     *)
(* transmission the Bluetooth stack refuses for good may be skipped.       *)
(***************************************************************************)
EXTENDS Naturals, Sequences

VARIABLES
    up,       \* is a channel open?
    offered,  \* the number of the last frame the mux layer offered
    waiting,  \* frames accepted on this channel and not yet transmitted
    wire      \* frames transmitted on this channel

vars == <<up, offered, waiting, wire>>

Init ==
    /\ up = FALSE
    /\ offered = 0
    /\ waiting = <<>>
    /\ wire = <<>>

\* A channel opens empty, and the first frame offered on it is accepted,
\* transmitted at once, or refused.
Open ==
    /\ ~up
    /\ up' = TRUE
    /\ offered' = offered + 1
    /\ \/ waiting' = <<offered'>> /\ wire' = <<>>
       \/ waiting' = <<>> /\ wire' = <<offered'>>
       \/ waiting' = <<>> /\ wire' = <<>>

\* A frame overtakes none that is waiting.
Accept ==
    /\ up
    /\ offered' = offered + 1
    /\ \/ waiting' = Append(waiting, offered') /\ UNCHANGED wire
       \/ waiting = <<>> /\ wire' = Append(wire, offered') /\ UNCHANGED waiting
    /\ UNCHANGED up

Refuse ==
    /\ offered' = offered + 1
    /\ UNCHANGED <<up, waiting, wire>>

Transmit ==
    /\ waiting # <<>>
    /\ wire' = Append(wire, Head(waiting))
    /\ waiting' = Tail(waiting)
    /\ UNCHANGED <<up, offered>>

Discard ==
    /\ waiting # <<>>
    /\ waiting' = Tail(waiting)
    /\ UNCHANGED <<up, offered, wire>>

Close ==
    /\ up
    /\ up' = FALSE
    /\ waiting' = <<>>
    /\ wire' = <<>>
    /\ UNCHANGED offered

Next == Open \/ Accept \/ Refuse \/ Transmit \/ Discard \/ Close

Safety == Init /\ [][Next]_vars

==============================================================================
