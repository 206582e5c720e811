-------------------------------- MODULE Tether --------------------------------
(***************************************************************************)
(* The diverted streams from end to end: Divert, the channel, and the      *)
(* phone's tables (MuxServer.kt, TcpStream.kt, UdpStream.kt).  The phone   *)
(* is taken more coarsely than in MuxServer: a handler or a coroutine is   *)
(* one step, from the frame or the event it waits for to the next.         *)
(*                                                                         *)
(* The two directions of the channel are FIFO queues: `queue' of Divert    *)
(* to the phone, `back' from it.  A channel that is cut loses both, and    *)
(* the drain of the transmit queue drops a frame that the stack refuses    *)
(* for good.                                                               *)
(***************************************************************************)
EXTENDS Divert

CONSTANTS
    InitialWindow, \* chunks the daemon's HELLO lets a stream of the phone send
    BackCap,       \* frames between the phone and the daemon
    MaxLosses,     \* bound: times the channel or a frame in the drain is lost
    MaxConnects    \* bound: connections the applications make

ASSUME TetherAssumption ==
    /\ InitialWindow \in Nat \ {0} /\ BackCap \in Nat \ {0}
    /\ MaxLosses \in Nat /\ MaxConnects \in Nat

VARIABLES
    phone,   \* the stream the phone has under each id
    back,    \* frames the phone sent and the daemon has not read
    losses,  \* times the channel was lost or the drain dropped a frame
    made,    \* connections made
    stale,   \* history: ids in use since an earlier channel
    unopened, \* history: ids whose TCP_OPEN was dropped
    unbound, \* history: ids whose UDP_BIND was refused or dropped
    untold   \* history: TCP ids of whose release the phone was not told

phoneVars == <<phone, back>>
histories == <<stale, unopened, unbound, untold>>
daemonVars == <<divertVars, losses, made, histories>>
tetherVars == <<divertVars, phone, back, losses, made, histories>>

\* A TCP stream is connecting, open, or shut (the daemon has finished writing).
Stream == [at : {"none", "connecting", "open", "shut", "udp"},
           credit : 0 .. InitialWindow]
Nothing == [at |-> "none", credit |-> 0]
OnPhone(id) == phone[id].at # "none"
Pumps(id) == phone[id].at \in {"open", "shut"}

BackFrame == [type : {"ACK_OK", "ACK_ERR", "DATA", "CLOSE_WR", "RST", "BIND_OK",
                      "BIND_ERR", "PACKET", "UDP_CLOSE"}, sid : Ids]

TetherTypeOK ==
    /\ TypeOK
    /\ phone \in [Ids -> Stream]
    /\ back \in Seq(BackFrame) /\ Len(back) <= BackCap /\ Len(queue) <= QueueCap
    /\ losses \in 0 .. MaxLosses /\ made \in 0 .. MaxConnects
    /\ stale \subseteq Ids /\ unopened \subseteq Ids
    /\ unbound \subseteq Ids /\ untold \subseteq Ids

TetherInit ==
    /\ Init
    /\ phone = [id \in Ids |-> Nothing]
    /\ back = <<>>
    /\ losses = 0 /\ made = 0
    /\ stale = {} /\ unopened = {} /\ unbound = {} /\ untold = {}

------------------------------------------------------------------------------
\* An id comes up again after 65535 others: nothing of its last tenant is on
\* its way by then.
InFlight(id) ==
    \/ \E i \in 1 .. Len(queue) : queue[i].sid = id
    \/ \E i \in 1 .. Len(back) : back[i].sid = id
Live(id) == IsTcp(id) \/ IsUdp(id)
Begun == {id \in Ids : ~Live(id) /\ Live(id)'}
Spaced == \A id \in Begun : ~InFlight(id)

\* The history of a step of the daemon.
Sent(type, id) ==
    \E i \in Len(queue) + 1 .. Len(queue') : queue'[i] = F(type, id)
Witness ==
    /\ stale' = {id \in stale : Live(id)'}
    /\ unopened' = {id \in unopened : IsTcp(id)'}
    /\ unbound' = {id \in unbound : IsUdp(id)'}
         \cup {id \in Begun : IsUdp(id)' /\ ~Sent("BIND", id)}
    /\ untold' = {id \in untold : OnPhone(id) \/ InFlight(id)}
         \cup {id \in Ids : IsTcp(id) /\ ~IsTcp(id)' /\ ~Sent("RST", id)
                              /\ ~Sent("CLOSE_WR", id)}

\* What a step of the daemon leaves alone, and its history.
Aside == Witness /\ UNCHANGED <<phoneVars, losses>>

Made == IF \E c \in Conns : app[c].at # "backlog" /\ app'[c].at = "backlog"
        THEN made < MaxConnects /\ made' = made + 1
        ELSE UNCHANGED made

Daemon == Local /\ Spaced /\ Aside /\ Made

\* The daemon reads a frame of the phone.
Dispatch(f) ==
    \/ f.type = "ACK_OK" /\ PeerOpenAck(f.sid, TRUE)
    \/ f.type = "ACK_ERR" /\ PeerOpenAck(f.sid, FALSE)
    \/ f.type = "DATA" /\ PeerData(f.sid)
    \/ f.type = "CLOSE_WR" /\ PeerCloseWr(f.sid)
    \/ f.type = "RST" /\ PeerRst(f.sid)
    \/ f.type = "BIND_ERR" /\ PeerBindAck(f.sid, FALSE)
    \/ f.type = "UDP_CLOSE" /\ PeerUdpClose(f.sid)

\* A frame without a stream of its kind, and one that changes nothing.
Ignored(f) ==
    \/ f.type \in {"BIND_OK", "PACKET"}
    \/ f.type \in {"ACK_OK", "ACK_ERR", "DATA", "CLOSE_WR", "RST"} /\ ~IsTcp(f.sid)
    \/ f.type \in {"BIND_ERR", "UDP_CLOSE"} /\ ~IsUdp(f.sid)

DaemonReads ==
    /\ back # <<>>
    /\ back' = Tail(back)
    /\ Dispatch(Head(back)) \/ (Ignored(Head(back)) /\ UNCHANGED divertVars)
    /\ Witness
    /\ UNCHANGED <<phone, losses, made>>

------------------------------------------------------------------------------
\* The phone.
Reply(type, id) ==
    /\ Len(back) < BackCap
    /\ back' = Append(back, [type |-> type, sid |-> id])

Becomes(id, place) == phone' = [phone EXCEPT ![id].at = place]
Gone(id) == phone' = [phone EXCEPT ![id] = Nothing]

\* handleTcpOpen
HandleOpen(id) ==
    \/ /\ OnPhone(id)
       /\ Reply("ACK_ERR", id)
       /\ UNCHANGED phone
    \/ /\ ~OnPhone(id)
       /\ phone' = [phone EXCEPT ![id] =
            [at |-> "connecting", credit |-> InitialWindow]]
       /\ UNCHANGED back

\* handleTcpData; a write that fails ends the stream.
HandleData(id) ==
    \/ /\ phone[id].at \in {"connecting", "open", "shut"}
       /\ Reply("RST", id) /\ Gone(id)
    \/ phone[id].at = "open" /\ UNCHANGED phoneVars
    \/ phone[id].at \in {"none", "udp"} /\ Reply("RST", id) /\ UNCHANGED phone

HandleCloseWr(id) ==
    /\ UNCHANGED back
    /\ IF phone[id].at = "open" THEN Becomes(id, "shut") ELSE UNCHANGED phone

\* Mistake: a stream that is shut is out of reach of a reset.
HandleRstOpen(id) ==
    /\ UNCHANGED back
    /\ IF phone[id].at = "open" THEN Gone(id) ELSE UNCHANGED phone

HandleRst(id) ==
    /\ UNCHANGED back
    /\ IF phone[id].at \in {"connecting", "open", "shut"}
       THEN Gone(id) ELSE UNCHANGED phone

\* Mistake: a bind is answered but not entered in the table.
HandleBindUnlisted(id) ==
    /\ Reply(IF OnPhone(id) THEN "BIND_ERR" ELSE "BIND_OK", id)
    /\ UNCHANGED phone

\* handleUdpBind
HandleBind(id) ==
    \/ OnPhone(id) /\ Reply("BIND_ERR", id) /\ UNCHANGED phone
    \/ ~OnPhone(id) /\ Reply("BIND_OK", id) /\ Becomes(id, "udp")

PhoneReads ==
    LET f == Head(queue)
    IN  /\ up /\ Transmit
        /\ \/ f.type = "OPEN" /\ HandleOpen(f.sid)
           \/ f.type = "DATA" /\ HandleData(f.sid)
           \/ f.type = "CLOSE_WR" /\ HandleCloseWr(f.sid)
           \/ f.type = "RST" /\ HandleRst(f.sid)
           \/ f.type = "BIND" /\ HandleBind(f.sid)
           \/ f.type = "PACKET" /\ UNCHANGED phoneVars
        /\ UNCHANGED <<losses, made, histories>>

PhoneConnects(id) ==
    /\ phone[id].at = "connecting"
    /\ \/ Becomes(id, "open") /\ Reply("ACK_OK", id)
       \/ Gone(id) /\ Reply("ACK_ERR", id)

\* Mistake: the pump does not wait for credit.
MayForwardFreely(id) == Pumps(id)

\* waitForCredit
MayForward(id) == Pumps(id) /\ phone[id].credit > 0

\* pumpReadLoop: a read takes credit; the end of the remote stream and an
\* error end the stream.
PhoneForwards(id) ==
    /\ MayForward(id)
    /\ \/ /\ phone' = [phone EXCEPT ![id].credit = @ - 1]
          /\ Reply("DATA", id)
       \/ Gone(id) /\ Reply("CLOSE_WR", id)
       \/ Gone(id) /\ Reply("RST", id)

\* UdpStream: a datagram comes back, or the stream is idle for too long.
PhoneUdp(id) ==
    /\ phone[id].at = "udp"
    /\ \/ Reply("PACKET", id) /\ UNCHANGED phone
       \/ Gone(id) /\ Reply("UDP_CLOSE", id)

PhoneStream(id) ==
    /\ PhoneConnects(id) \/ PhoneForwards(id) \/ PhoneUdp(id)
    /\ UNCHANGED daemonVars

------------------------------------------------------------------------------
\* The channel.  Its loss ends the phone's MuxServer, whose shutdown closes all
\* streams; the next one begins with empty tables.
ChannelUp ==
    /\ ChannelOpened
    /\ UNCHANGED <<phoneVars, losses, made, histories>>

\* The drain drops the frame at the head.  A stream that is live when the frame
\* that begins it is dropped is never begun; one that is reset stays with the
\* phone.  A TCP_CLOSE_WR leaves no trace, for it is sent again, and data is lost
\* without a word.
Dropped ==
    LET lost(type) == {id \in Ids : Head(queue) = F(type, id)}
    IN  /\ losses < MaxLosses
        /\ up /\ Transmit
        /\ losses' = losses + 1
        /\ unopened' = unopened \cup {id \in lost("OPEN") : IsTcp(id)}
        /\ unbound' = unbound \cup {id \in lost("BIND") : IsUdp(id)}
        /\ untold' = untold \cup lost("RST")
        /\ UNCHANGED <<phoneVars, made, stale>>

Cut ==
    /\ losses < MaxLosses
    /\ ChannelClosed
    /\ losses' = losses + 1
    /\ phone' = [id \in Ids |-> Nothing]
    /\ back' = <<>>
    /\ stale' = {id \in Ids : Live(id)}
    /\ UNCHANGED <<made, unopened, unbound, untold>>

TetherNext ==
    \/ Daemon \/ DaemonReads \/ PhoneReads
    \/ \E id \in Ids : PhoneStream(id)
    \/ ChannelUp \/ Dropped \/ Cut

TetherSpec == TetherInit /\ [][TetherNext]_tetherVars

\* The daemon reads what arrives and sweeps its streams, and a frame it offers
\* again and again finds room at some time; a frame at the head of the transmit
\* queue is sent, but for those that are lost; the phone reads what arrives,
\* its connects end and its writer writes; the daemon connects again.
Fairness ==
    /\ WF_tetherVars(DaemonReads) /\ SF_tetherVars(PhoneReads)
    /\ WF_tetherVars(ChannelUp)
    /\ \A id \in Ids :
         /\ SF_tetherVars(PhoneConnects(id) /\ UNCHANGED daemonVars)
         /\ SF_tetherVars(DrainTcp(id) /\ Aside /\ UNCHANGED made /\ queue' # queue)

FairTether == TetherSpec /\ Fairness

------------------------------------------------------------------------------
(***************************************************************************)
(* Properties                                                              *)
(***************************************************************************)

\* Nothing is on its way and no connect is under way.
Quiet ==
    /\ up /\ queue = <<>> /\ back = <<>>
    /\ \A id \in Ids : phone[id].at # "connecting"

\* When nothing is on its way, a stream of this channel that the daemon keeps
\* is still with the phone, or the phone has told that its end is reached: no
\* application waits on a stream that nobody serves.  Excepted is the stream
\* whose TCP_OPEN the drain dropped: it is never answered, and nothing asks again.
NoStrandedStream ==
    Quiet => \A id \in Ids :
        IsTcp(id) /\ id \notin stale \cup unopened => Pumps(id) \/ tcp[id].remoteEnd

\* And a TCP stream that the phone keeps is one of the daemon's, unless the frame
\* that told of its end was refused by the mux or dropped by the drain.
NoOrphan ==
    Quiet => \A id \in Ids : Pumps(id) => IsTcp(id) \/ id \in untold

\* The UDP stream of a port is with the phone when nothing is on its way, so
\* that the next datagram is forwarded.  Excepted are the cases the daemon does
\* not repair: a UDP_BIND that was refused by the mux or dropped by the drain,
\* and a stream that is older than the channel.  A mapping that the phone closes
\* is removed (cb_udp_close), although divert.c:58-60 says that it persists.
MappingReaches ==
    Quiet => \A p \in Ports :
        LET id == udp_port_to_stream[p]
        IN  id # 0 /\ id \notin unbound \cup stale => phone[id].at = "udp"

\* PROTOCOL.md:298: all streams die with the channel, and 301: the network is
\* back after a moment.  So a port's datagrams reach the phone again.
MappingRecovers ==
    Quiet => \A p \in Ports :
        LET id == udp_port_to_stream[p]
        IN  id # 0 /\ id \notin unbound => phone[id].at = "udp"

\* PROTOCOL.md:238: the receiver returns credit as it writes the data out.  So
\* a stream of the phone may go on when nothing is on its way.
CreditReturned ==
    Quiet => \A id \in Ids : IsTcp(id) /\ Pumps(id) => phone[id].credit > 0

\* The connect is answered, and the end of what the application writes reaches the
\* phone, if the channel lives and the TCP_OPEN was not dropped.  That is so
\* although the daemon ignores whether the mux took the TCP_CLOSE_WR, and is not
\* told when the drain drops it: a stream that is half closed is swept, and its
\* end sent, again (handle_tcp_fd).  Data that is dropped on the way is lost.
EndReachesPhone ==
    \A id \in Ids :
        (IsTcp(id) /\ app[tcp[id].conn].fin)
            ~> (~IsTcp(id) \/ phone[id].at = "shut" \/ tcp[id].remoteEnd
                  \/ id \in stale \cup unopened)

==============================================================================
