-------------------------------- MODULE Divert --------------------------------
(***************************************************************************)
(* The daemon's end of diverted connections and of UDP (panctl/divert.c):  *)
(* TCP connections that pf diverts to a local socket, UDP datagrams from   *)
(* the tun device or the divert socket, and the stream ids they share.     *)
(* Every handler runs to its end on the run loop.                          *)
(*                                                                         *)
(* External: the local applications and their sockets (`app'), and the     *)
(* stack under the transmit queue.  What applications write is counted in  *)
(* reads of the daemon.                                                    *)
(***************************************************************************)
EXTENDS Naturals, Sequences

CONSTANTS
    MAX_ID,    \* the largest stream id (0xFFFF)
    Conns,     \* TCP connections of local applications
    NoConn,
    Ports,     \* UDP source ports of local applications
    NoPort,
    MaxUnread, \* bound: reads' worth of data an application is ahead
    QueueCap   \* frames the transmit queue holds

ASSUME IdAssumption == MAX_ID \in Nat \ {0}
ASSUME NullAssumption == NoConn \notin Conns /\ NoPort \notin Ports
ASSUME BoundAssumption == MaxUnread \in Nat /\ QueueCap \in Nat \ {0}

VARIABLES
    tcp,                \* d->tcp: the TCP stream of each id
    udp,                \* d->udp: the local port of the UDP stream of each id
    udp_port_to_stream, \* the id of each source port, 0 for none
    next_stream_id,     \* where the search for a free id begins
    app,                \* the applications' ends
    up,                 \* g_rfcomm_cid # 0
    queue               \* g_send_q: frames taken by the mux, not yet on the channel

divertVars == <<tcp, udp, udp_port_to_stream, next_stream_id, app, up, queue>>

Ids == 1 .. MAX_ID

FreeTcp == [conn |-> NoConn, acked |-> FALSE, localEnd |-> FALSE, remoteEnd |-> FALSE]
TcpStream == [conn : Conns \cup {NoConn}, acked : BOOLEAN,
              localEnd : BOOLEAN, remoteEnd : BOOLEAN]
IsTcp(id) == tcp[id].conn # NoConn
IsUdp(id) == udp[id] # NoPort

Frame == [type : {"OPEN", "DATA", "CLOSE_WR", "RST", "BIND", "PACKET"}, sid : Ids]
F(type, id) == [type |-> type, sid |-> id]

App == [at : {"none", "backlog", "held", "closed"}, unread : 0 .. MaxUnread,
        fin : BOOLEAN, broken : BOOLEAN]
NoApp == [at |-> "none", unread |-> 0, fin |-> FALSE, broken |-> FALSE]
Closed == [NoApp EXCEPT !.at = "closed"]

TypeOK ==
    /\ tcp \in [Ids -> TcpStream]
    /\ udp \in [Ids -> Ports \cup {NoPort}]
    /\ udp_port_to_stream \in [Ports -> 0 .. MAX_ID]
    /\ next_stream_id \in 1 .. MAX_ID + 1
    /\ app \in [Conns -> App]
    /\ up \in BOOLEAN
    /\ queue \in Seq(Frame)

Init ==
    /\ tcp = [id \in Ids |-> FreeTcp]
    /\ udp = [id \in Ids |-> NoPort]
    /\ udp_port_to_stream = [p \in Ports |-> 0]
    /\ next_stream_id = 1
    /\ app = [c \in Conns |-> NoApp]
    /\ up = FALSE
    /\ queue = <<>>

------------------------------------------------------------------------------
\* What becomes of queue q when a frame is offered: it may be refused at any
\* time, and is when there is no channel or no room.
After(q, f) == IF up /\ Len(q) < QueueCap THEN {q, Append(q, f)} ELSE {q}

Offer(f) == queue' \in After(queue, f)

\* Mistake: an id is not looked up among the UDP streams.
UnusedTcpOnly(id) == id # 0 /\ ~IsTcp(id)

Unused(id) == id # 0 /\ ~IsTcp(id) /\ ~IsUdp(id)

\* alloc_stream_id: the i-th id it looks at.
Candidate(i) == (next_stream_id + i) % (MAX_ID + 1)

Allocates(id) ==
    /\ \E i \in 0 .. MAX_ID - 1 :
         /\ id = Candidate(i)
         /\ Unused(Candidate(i))
         /\ \A j \in 0 .. i - 1 : ~Unused(Candidate(j))
    /\ next_stream_id' = id + 1

Exhausted ==
    /\ \A i \in 0 .. MAX_ID - 1 : ~Unused(Candidate(i))
    /\ UNCHANGED next_stream_id

\* Mistake: the socket of a freed stream is left open.
FreeKeepingSocket(id) == tcp' = [tcp EXCEPT ![id] = FreeTcp] /\ UNCHANGED app

\* tcp_stream_free, which closes the socket.
TcpFree(id) ==
    /\ tcp' = [tcp EXCEPT ![id] = FreeTcp]
    /\ app' = [app EXCEPT ![tcp[id].conn] = Closed]

\* udp_stream_free
UdpFree(id) ==
    /\ udp' = [udp EXCEPT ![id] = NoPort]
    /\ udp_port_to_stream' = [p \in Ports |->
         IF p = udp[id] /\ udp_port_to_stream[p] = id THEN 0 ELSE udp_port_to_stream[p]]

udpVars == <<udp, udp_port_to_stream, next_stream_id>>
tcpVars == <<tcp, app>>

------------------------------------------------------------------------------
\* The applications.
AppConnects(c) ==
    /\ app[c].at \in {"none", "closed"}
    /\ app' = [app EXCEPT ![c].at = "backlog"]
    /\ UNCHANGED <<tcp, udpVars, up, queue>>

Open(c) == app[c].at \in {"backlog", "held"} /\ ~app[c].fin /\ ~app[c].broken

AppWrites(c) ==
    /\ Open(c) /\ app[c].unread < MaxUnread
    /\ app' = [app EXCEPT ![c].unread = @ + 1]
    /\ UNCHANGED <<tcp, udpVars, up, queue>>

AppFinishes(c) ==
    /\ Open(c)
    /\ app' = [app EXCEPT ![c].fin = TRUE]
    /\ UNCHANGED <<tcp, udpVars, up, queue>>

AppBreaks(c) ==
    /\ Open(c)
    /\ app' = [app EXCEPT ![c].broken = TRUE, ![c].unread = 0]
    /\ UNCHANGED <<tcp, udpVars, up, queue>>

\* One round of handle_tcp_accept.  A refused TCP_OPEN ends the stream; without
\* an id there is none.
Accept(c) ==
    /\ app[c].at = "backlog"
    /\ \/ \E id \in Ids :
            /\ Allocates(id)
            /\ \/ /\ queue' \in After(queue, F("OPEN", id)) \ {queue}
                  /\ tcp' = [tcp EXCEPT ![id] = [FreeTcp EXCEPT !.conn = c]]
                  /\ app' = [app EXCEPT ![c].at = "held"]
               \/ /\ app' = [app EXCEPT ![c] = Closed]
                  /\ UNCHANGED <<tcp, queue>>
       \/ /\ Exhausted
          /\ app' = [app EXCEPT ![c] = Closed]
          /\ UNCHANGED <<tcp, queue>>
    /\ UNCHANGED <<udp, udp_port_to_stream, up>>

\* The end of what the application writes; the result of the send is ignored.
ReadEnd(id) ==
    /\ IF tcp[id].remoteEnd
       THEN TcpFree(id)
       ELSE /\ tcp' = [tcp EXCEPT ![id].localEnd = TRUE]
            /\ app' = [app EXCEPT ![tcp[id].conn].unread = 0]
    /\ UNCHANGED <<udpVars, up>>

\* Mistake: a stream whose local end was sent is not swept again.
SweptOnce(id) == IsTcp(id) /\ tcp[id].acked /\ ~tcp[id].localEnd

Swept(id) == IsTcp(id) /\ tcp[id].acked

\* handle_tcp_fd, for one stream of divert_drain_active_tcp: n reads are
\* forwarded; then the next is refused, the socket errs, ends, or would block.
\* A stream whose local end was sent is read, and its end sent, again.
DrainTcp(id) ==
    LET a == app[tcp[id].conn]
    IN  /\ Swept(id)
        /\ \E n \in 0 .. a.unread :
             LET sent == queue \o [i \in 1 .. n |-> F("DATA", id)]
             IN  /\ n > 0 => up /\ Len(sent) <= QueueCap
                 /\ \/ /\ n < a.unread \/ a.broken
                       /\ queue' \in After(sent, F("RST", id))
                       /\ TcpFree(id)
                       /\ UNCHANGED <<udpVars, up>>
                    \/ /\ n = a.unread /\ ~a.broken /\ a.fin
                       /\ queue' \in After(sent, F("CLOSE_WR", id))
                       /\ ReadEnd(id)
                    \/ /\ n = a.unread /\ ~a.broken /\ ~a.fin
                       /\ queue' = sent
                       /\ app' = [app EXCEPT ![tcp[id].conn].unread = 0]
                       /\ UNCHANGED <<tcp, udpVars, up>>

Known(p) == udp_port_to_stream[p] # 0 /\ IsUdp(udp_port_to_stream[p])

\* One packet of handle_udp_fd: handle_outbound_udp_packet for a datagram from
\* source port p.  The results of the sends are ignored.  Without an id, or
\* without memory for the stream it was taken for, the datagram is lost.
OutboundUdp(p) ==
    /\ \/ /\ Known(p)
          /\ Offer(F("PACKET", udp_port_to_stream[p]))
          /\ UNCHANGED udpVars
       \/ /\ ~Known(p)
          /\ \E id \in Ids :
               /\ Allocates(id)
               /\ udp' = [udp EXCEPT ![id] = p]
               /\ udp_port_to_stream' = [udp_port_to_stream EXCEPT ![p] = id]
               /\ \E q \in After(queue, F("BIND", id)) :
                    queue' \in After(q, F("PACKET", id))
       \/ /\ ~Known(p)
          /\ Exhausted \/ \E id \in Ids : Allocates(id)
          /\ UNCHANGED <<udp, udp_port_to_stream, queue>>
    /\ UNCHANGED <<tcpVars, up>>

------------------------------------------------------------------------------
\* Frames of the phone, which only an open channel delivers.

\* Mistake: the status of the answer is not looked at.
PeerOpenAckAny(id, ok) ==
    /\ up /\ IsTcp(id)
    /\ tcp' = [tcp EXCEPT ![id].acked = TRUE]
    /\ UNCHANGED <<app, udpVars, up, queue>>

PeerOpenAck(id, ok) ==
    /\ up /\ IsTcp(id)
    /\ IF ok THEN tcp' = [tcp EXCEPT ![id].acked = TRUE] /\ UNCHANGED app
             ELSE TcpFree(id)
    /\ UNCHANGED <<udpVars, up, queue>>

\* cb_tcp_data: a write that fails, be it because the socket is full, resets
\* the stream.
PeerData(id) ==
    /\ up /\ IsTcp(id)
    /\ \/ /\ ~tcp[id].remoteEnd /\ ~app[tcp[id].conn].broken
          /\ UNCHANGED <<tcpVars, queue>>
       \/ Offer(F("RST", id)) /\ TcpFree(id)
    /\ UNCHANGED <<udpVars, up>>

\* Mistake: the stream waits for a local end that has been sent.
PeerCloseWrWaiting(id) ==
    /\ up /\ IsTcp(id)
    /\ tcp' = [tcp EXCEPT ![id].remoteEnd = TRUE]
    /\ UNCHANGED <<app, udpVars, up, queue>>

PeerCloseWr(id) ==
    /\ up /\ IsTcp(id)
    /\ IF tcp[id].localEnd
       THEN TcpFree(id)
       ELSE tcp' = [tcp EXCEPT ![id].remoteEnd = TRUE] /\ UNCHANGED app
    /\ UNCHANGED <<udpVars, up, queue>>

PeerRst(id) ==
    /\ up /\ IsTcp(id)
    /\ TcpFree(id)
    /\ UNCHANGED <<udpVars, up, queue>>

\* cb_udp_bind_ack; bind_acked is set and never looked at.
PeerBindAck(id, ok) ==
    /\ up /\ IsUdp(id) /\ ~ok
    /\ UdpFree(id)
    /\ UNCHANGED <<tcpVars, next_stream_id, up, queue>>

PeerUdpClose(id) ==
    /\ up /\ IsUdp(id)
    /\ UdpFree(id)
    /\ UNCHANGED <<tcpVars, next_stream_id, up, queue>>

------------------------------------------------------------------------------
ChannelOpened ==
    /\ ~up
    /\ up' = TRUE
    /\ UNCHANGED <<tcpVars, udpVars, queue>>

\* RFCOMM_EVENT_CHANNEL_CLOSED empties the queue and leaves the streams alone.
ChannelClosed ==
    /\ up
    /\ up' = FALSE
    /\ queue' = <<>>
    /\ UNCHANGED <<tcpVars, udpVars>>

\* send_q_drain: the frame at the head leaves the queue, sent or, if the stack
\* refuses it for good, dropped.  Whoever wrote it was told that it was taken.
Transmit ==
    /\ queue # <<>>
    /\ queue' = Tail(queue)
    /\ UNCHANGED <<tcpVars, udpVars, up>>

Peer(id) ==
    \/ \E ok \in BOOLEAN : PeerOpenAck(id, ok) \/ PeerBindAck(id, ok)
    \/ PeerData(id) \/ PeerCloseWr(id) \/ PeerRst(id) \/ PeerUdpClose(id)

Local ==
    \/ \E c \in Conns :
         \/ AppConnects(c) \/ AppWrites(c) \/ AppFinishes(c) \/ AppBreaks(c)
         \/ Accept(c)
    \/ \E p \in Ports : OutboundUdp(p)
    \/ \E id \in Ids : DrainTcp(id)

Next ==
    \/ Local
    \/ \E id \in Ids : Peer(id)
    \/ ChannelOpened \/ ChannelClosed \/ Transmit

Spec == Init /\ [][Next]_divertVars

------------------------------------------------------------------------------
(***************************************************************************)
(* Properties                                                              *)
(***************************************************************************)

\* The two stream tables and the reverse map of ports agree: an id has one
\* use, the entry of a port leads to a stream of this port, and every UDP
\* stream is the one its port leads to, so none is out of reach of the next
\* datagram and none is kept twice (alloc_stream_id, udp_stream_free,
\* handle_outbound_udp_packet).
TablesAgree ==
    /\ \A id \in Ids : ~(IsTcp(id) /\ IsUdp(id))
    /\ \A p \in Ports : udp_port_to_stream[p] # 0 =>
         udp[udp_port_to_stream[p]] = p
    /\ \A id \in Ids : IsUdp(id) => udp_port_to_stream[udp[id]] = id

\* An accepted socket belongs to one stream and is closed with it: no descriptor
\* leaks and none is closed under another stream (tcp_stream_free on every path).
SocketsAgree ==
    /\ \A i, j \in Ids : IsTcp(i) /\ tcp[i].conn = tcp[j].conn => i = j
    /\ \A c \in Conns :
         app[c].at = "held" <=> \E id \in Ids : tcp[id].conn = c

\* A stream whose two directions have ended is gone, whichever ended first
\* (handle_tcp_fd, cb_tcp_close_wr).
ReleasedAtBothEnds ==
    \A id \in Ids : ~(tcp[id].localEnd /\ tcp[id].remoteEnd)

==============================================================================
