---------------------------- MODULE DivertProofs ----------------------------
(***************************************************************************)
(* Proofs about Divert, for any number of stream ids, connections and      *)
(* ports.  Together with the types each of TablesAgree, SocketsAgree and   *)
(* ReleasedAtBothEnds is inductive as it stands.                           *)
(***************************************************************************)
EXTENDS Divert, TLAPS

\* A free entry, a closed application and a frame have their types.
LEMMA RecordTypes ==
    /\ FreeTcp \in TcpStream /\ FreeTcp.conn = NoConn
    /\ ~FreeTcp.localEnd /\ ~FreeTcp.remoteEnd
    /\ Closed \in App /\ NoApp \in App /\ Closed.at = "closed"
    /\ \A id \in Ids, type \in {"OPEN", "DATA", "CLOSE_WR", "RST", "BIND", "PACKET"} :
         F(type, id) \in Frame
<1>1. FreeTcp \in TcpStream /\ FreeTcp.conn = NoConn
      /\ ~FreeTcp.localEnd /\ ~FreeTcp.remoteEnd
  BY DEF FreeTcp, TcpStream
<1>2. 0 \in 0 .. MaxUnread
  BY BoundAssumption
<1>3. NoApp \in App
  BY <1>2 DEF NoApp, App
<1>4. Closed \in App /\ Closed.at = "closed"
  BY <1>3 DEF Closed, App
<1>5. \A id \in Ids, type \in {"OPEN", "DATA", "CLOSE_WR", "RST", "BIND", "PACKET"} :
         F(type, id) \in Frame
  BY DEF F, Frame
<1>6. QED
  BY <1>1, <1>3, <1>4, <1>5

\* The queue holds frames after an offer.
LEMMA AfterType ==
    ASSUME NEW q \in Seq(Frame), NEW f \in Frame
    PROVE  After(q, f) \subseteq Seq(Frame)
  BY DEF After

\* alloc_stream_id returns an id that no stream has.
LEMMA AllocatesFree ==
    ASSUME NEW id \in Ids, Allocates(id)
    PROVE  ~IsTcp(id) /\ ~IsUdp(id) /\ next_stream_id' \in 1 .. MAX_ID + 1
  BY IdAssumption DEF Allocates, Unused, Ids

\* An application that holds a stream's socket is one of the applications.
LEMMA HeldConn ==
    ASSUME TypeOK, NEW id \in Ids, IsTcp(id)
    PROVE  tcp[id] \in TcpStream /\ tcp[id].conn \in Conns
  BY DEF TypeOK, TcpStream, IsTcp

\* Freeing a stream keeps the types.
LEMMA TcpFreeType ==
    ASSUME TypeOK, NEW id \in Ids, IsTcp(id), TcpFree(id)
    PROVE  tcp' \in [Ids -> TcpStream] /\ app' \in [Conns -> App]
  BY HeldConn, RecordTypes DEF TypeOK, TcpFree

LEMMA UdpFreeType ==
    ASSUME TypeOK, NEW id \in Ids, UdpFree(id)
    PROVE  /\ udp' \in [Ids -> Ports \cup {NoPort}]
           /\ udp_port_to_stream' \in [Ports -> 0 .. MAX_ID]
  BY IdAssumption DEF TypeOK, UdpFree

------------------------------------------------------------------------------
\* The steps of the applications and of the daemon keep the types.
LEMMA TypeAccept ==
    ASSUME TypeOK, NEW c \in Conns, Accept(c)
    PROVE  TypeOK'
<1>1. \A id \in Ids : [FreeTcp EXCEPT !.conn = c] \in TcpStream
  BY DEF FreeTcp, TcpStream
<1>2. [app[c] EXCEPT !.at = "held"] \in App
  BY DEF TypeOK, App
<1>3. CASE \E id \in Ids : Allocates(id)
             /\ \/ /\ queue' \in After(queue, F("OPEN", id)) \ {queue}
                   /\ tcp' = [tcp EXCEPT ![id] = [FreeTcp EXCEPT !.conn = c]]
                   /\ app' = [app EXCEPT ![c].at = "held"]
                \/ /\ app' = [app EXCEPT ![c] = Closed]
                   /\ UNCHANGED <<tcp, queue>>
  <2>1. PICK id \in Ids : Allocates(id)
             /\ \/ /\ queue' \in After(queue, F("OPEN", id)) \ {queue}
                   /\ tcp' = [tcp EXCEPT ![id] = [FreeTcp EXCEPT !.conn = c]]
                   /\ app' = [app EXCEPT ![c].at = "held"]
                \/ /\ app' = [app EXCEPT ![c] = Closed]
                   /\ UNCHANGED <<tcp, queue>>
    BY <1>3
  <2>2. After(queue, F("OPEN", id)) \subseteq Seq(Frame)
    BY AfterType, RecordTypes DEF TypeOK
  <2>3. next_stream_id' \in 1 .. MAX_ID + 1
    BY <2>1, AllocatesFree
  <2>4. queue' \in Seq(Frame) /\ tcp' \in [Ids -> TcpStream]
    BY <1>1, <2>1, <2>2 DEF TypeOK
  <2>5. app' \in [Conns -> App]
    BY <1>2, <2>1, RecordTypes DEF TypeOK
  <2>6. QED
    BY <2>3, <2>4, <2>5 DEF Accept, TypeOK
<1>4. CASE Exhausted /\ app' = [app EXCEPT ![c] = Closed] /\ UNCHANGED <<tcp, queue>>
  BY <1>4, RecordTypes DEF Exhausted, Accept, TypeOK
<1>5. QED
  BY <1>3, <1>4 DEF Accept

LEMMA TypeDrain ==
    ASSUME TypeOK, NEW id \in Ids, DrainTcp(id)
    PROVE  TypeOK'
<1> DEFINE a == app[tcp[id].conn]
           sent(n) == queue \o [i \in 1 .. n |-> F("DATA", id)]
<1>1. IsTcp(id) /\ tcp[id].conn \in Conns
  BY HeldConn DEF DrainTcp, Swept
<1>2. PICK n \in 0 .. a.unread :
        \/ /\ queue' \in After(sent(n), F("RST", id))
           /\ TcpFree(id)
           /\ UNCHANGED <<udpVars, up>>
        \/ /\ queue' \in After(sent(n), F("CLOSE_WR", id))
           /\ ReadEnd(id)
        \/ /\ queue' = sent(n)
           /\ app' = [app EXCEPT ![tcp[id].conn].unread = 0]
           /\ UNCHANGED <<tcp, udpVars, up>>
  BY DEF DrainTcp
<1>3. n \in Nat
  <2>1. a \in App
    BY <1>1 DEF TypeOK
  <2>2. a.unread \in 0 .. MaxUnread
    BY <2>1 DEF App
  <2>3. QED
    BY <2>2, BoundAssumption
<1>4. sent(n) \in Seq(Frame)
  <2>1. [i \in 1 .. n |-> F("DATA", id)] \in Seq(Frame)
    BY <1>3, RecordTypes
  <2>2. QED
    BY <2>1 DEF TypeOK
<1>5. After(sent(n), F("RST", id)) \subseteq Seq(Frame)
      /\ After(sent(n), F("CLOSE_WR", id)) \subseteq Seq(Frame)
  BY <1>4, AfterType, RecordTypes
<1> HIDE DEF sent
<1>6. queue' \in Seq(Frame)
  BY <1>2, <1>4, <1>5
<1>7. [a EXCEPT !.unread = 0] \in App /\ [tcp[id] EXCEPT !.localEnd = TRUE] \in TcpStream
  <2>1. 0 \in 0 .. MaxUnread
    BY BoundAssumption
  <2>2. a \in App /\ tcp[id] \in TcpStream
    BY <1>1 DEF TypeOK
  <2>3. [a EXCEPT !.unread = 0] \in App
    BY <2>1, <2>2 DEF App
  <2>4. [tcp[id] EXCEPT !.localEnd = TRUE] \in TcpStream
    BY <2>2 DEF TcpStream
  <2>5. QED
    BY <2>3, <2>4
<1>8. app' \in [Conns -> App] /\ tcp' \in [Ids -> TcpStream]
  <2>1. CASE TcpFree(id)
    BY <1>1, <2>1, TcpFreeType
  <2>2. CASE /\ tcp' = [tcp EXCEPT ![id].localEnd = TRUE]
             /\ app' = [app EXCEPT ![tcp[id].conn].unread = 0]
    BY <1>7, <2>2 DEF TypeOK
  <2>3. CASE app' = [app EXCEPT ![tcp[id].conn].unread = 0] /\ UNCHANGED tcp
    BY <1>7, <2>3 DEF TypeOK
  <2>4. QED
    BY <1>2, <2>1, <2>2, <2>3 DEF ReadEnd
<1>9. UNCHANGED <<udpVars, up>>
  BY <1>2 DEF ReadEnd
<1>10. QED
  BY <1>6, <1>8, <1>9 DEF TypeOK, udpVars

LEMMA TypeUdp ==
    ASSUME TypeOK, NEW p \in Ports, OutboundUdp(p)
    PROVE  TypeOK'
<1>1. CASE Known(p) /\ Offer(F("PACKET", udp_port_to_stream[p])) /\ UNCHANGED udpVars
  <2>1. udp_port_to_stream[p] \in Ids
    BY <1>1, IdAssumption DEF Known, Ids, TypeOK
  <2>2. After(queue, F("PACKET", udp_port_to_stream[p])) \subseteq Seq(Frame)
    BY <2>1, AfterType, RecordTypes DEF TypeOK
  <2>3. QED
    BY <1>1, <2>2 DEF Offer, OutboundUdp, TypeOK, udpVars, tcpVars
<1>2. CASE \E id \in Ids :
             /\ Allocates(id)
             /\ udp' = [udp EXCEPT ![id] = p]
             /\ udp_port_to_stream' = [udp_port_to_stream EXCEPT ![p] = id]
             /\ \E q \in After(queue, F("BIND", id)) :
                  queue' \in After(q, F("PACKET", id))
  <2>1. PICK id \in Ids :
             /\ Allocates(id)
             /\ udp' = [udp EXCEPT ![id] = p]
             /\ udp_port_to_stream' = [udp_port_to_stream EXCEPT ![p] = id]
             /\ \E q \in After(queue, F("BIND", id)) :
                  queue' \in After(q, F("PACKET", id))
    BY <1>2
  <2>2. queue' \in Seq(Frame)
    <3>1. PICK q \in After(queue, F("BIND", id)) : queue' \in After(q, F("PACKET", id))
      BY <2>1
    <3>2. q \in Seq(Frame)
      BY AfterType, RecordTypes DEF TypeOK
    <3>3. QED
      BY <3>1, <3>2, AfterType, RecordTypes
  <2>3. next_stream_id' \in 1 .. MAX_ID + 1
    BY <2>1, AllocatesFree
  <2>4. /\ udp' \in [Ids -> Ports \cup {NoPort}]
        /\ udp_port_to_stream' \in [Ports -> 0 .. MAX_ID]
    BY <2>1, IdAssumption DEF TypeOK, Ids
  <2>5. QED
    BY <2>2, <2>3, <2>4 DEF OutboundUdp, TypeOK, tcpVars
<1>3. CASE /\ Exhausted \/ \E id \in Ids : Allocates(id)
           /\ UNCHANGED <<udp, udp_port_to_stream, queue>>
  <2>1. next_stream_id' \in 1 .. MAX_ID + 1
    BY <1>3, AllocatesFree DEF Exhausted, TypeOK
  <2>2. QED
    BY <1>3, <2>1 DEF OutboundUdp, TypeOK, tcpVars
<1>4. QED
  BY <1>1, <1>2, <1>3 DEF OutboundUdp

LEMMA TypePeer ==
    ASSUME TypeOK, NEW id \in Ids, Peer(id)
    PROVE  TypeOK'
<1>1. ASSUME NEW ok \in BOOLEAN, PeerOpenAck(id, ok)
      PROVE  TypeOK'
  <2>1. [tcp[id] EXCEPT !.acked = TRUE] \in TcpStream
    BY DEF TypeOK, TcpStream
  <2>2. tcp' \in [Ids -> TcpStream] /\ app' \in [Conns -> App]
    BY <1>1, <2>1, TcpFreeType DEF PeerOpenAck, TypeOK
  <2>3. QED
    BY <1>1, <2>2 DEF PeerOpenAck, TypeOK, udpVars
<1>2. ASSUME NEW ok \in BOOLEAN, PeerBindAck(id, ok)
      PROVE  TypeOK'
  BY <1>2, UdpFreeType DEF PeerBindAck, TypeOK, tcpVars
<1>3. CASE PeerData(id)
  <2>1. CASE UNCHANGED <<tcpVars, queue>>
    BY <1>3, <2>1 DEF PeerData, TypeOK, tcpVars, udpVars
  <2>2. CASE Offer(F("RST", id)) /\ TcpFree(id)
    <3>1. queue' \in Seq(Frame)
      BY <2>2, AfterType, RecordTypes DEF Offer, TypeOK
    <3>2. tcp' \in [Ids -> TcpStream] /\ app' \in [Conns -> App]
      BY <1>3, <2>2, TcpFreeType DEF PeerData
    <3>3. QED
      BY <1>3, <3>1, <3>2 DEF PeerData, TypeOK, udpVars
  <2>3. QED
    BY <1>3, <2>1, <2>2 DEF PeerData
<1>4. CASE PeerCloseWr(id)
  <2>1. [tcp[id] EXCEPT !.remoteEnd = TRUE] \in TcpStream
    BY DEF TypeOK, TcpStream
  <2>2. tcp' \in [Ids -> TcpStream] /\ app' \in [Conns -> App]
    BY <1>4, <2>1, TcpFreeType DEF PeerCloseWr, TypeOK
  <2>3. QED
    BY <1>4, <2>2 DEF PeerCloseWr, TypeOK, udpVars
<1>5. CASE PeerRst(id)
  BY <1>5, TcpFreeType DEF PeerRst, TypeOK, udpVars
<1>6. CASE PeerUdpClose(id)
  BY <1>6, UdpFreeType DEF PeerUdpClose, TypeOK, tcpVars
<1>7. QED
  BY <1>1, <1>2, <1>3, <1>4, <1>5, <1>6 DEF Peer

LEMMA TypeApp ==
    ASSUME TypeOK, NEW c \in Conns,
           AppConnects(c) \/ AppWrites(c) \/ AppFinishes(c) \/ AppBreaks(c)
    PROVE  TypeOK'
<1>1. app[c] \in App
  BY DEF TypeOK
<1>2. app' \in [Conns -> App]
  <2>1. CASE AppConnects(c)
    <3>1. [app[c] EXCEPT !.at = "backlog"] \in App
      BY <1>1 DEF App
    <3>2. QED
      BY <2>1, <3>1 DEF AppConnects, TypeOK
  <2>2. CASE AppWrites(c)
    <3>1. [app[c] EXCEPT !.unread = @ + 1] \in App
      BY <1>1, <2>2, BoundAssumption DEF App, AppWrites
    <3>2. QED
      BY <2>2, <3>1 DEF AppWrites, TypeOK
  <2>3. CASE AppFinishes(c)
    <3>1. [app[c] EXCEPT !.fin = TRUE] \in App
      BY <1>1 DEF App
    <3>2. QED
      BY <2>3, <3>1 DEF AppFinishes, TypeOK
  <2>4. CASE AppBreaks(c)
    <3>1. [app[c] EXCEPT !.broken = TRUE, !.unread = 0] \in App
      <4>1. 0 \in 0 .. MaxUnread
        BY BoundAssumption
      <4>2. QED
        BY <1>1, <4>1 DEF App
    <3>2. QED
      BY <2>4, <3>1 DEF AppBreaks, TypeOK
  <2>5. QED
    BY <2>1, <2>2, <2>3, <2>4
<1>3. UNCHANGED <<tcp, udpVars, up, queue>>
  BY DEF AppConnects, AppWrites, AppFinishes, AppBreaks
<1>4. QED
  BY <1>2, <1>3 DEF TypeOK, udpVars

\* The types of Divert hold initially.
LEMMA TypeInit == Init => TypeOK
<1> SUFFICES ASSUME Init PROVE TypeOK
  OBVIOUS
<1>1. <<>> \in Seq(Frame)
  OBVIOUS
<1>2. 0 \in 0 .. MAX_ID /\ 1 \in 1 .. MAX_ID + 1
  BY IdAssumption
<1>3. tcp \in [Ids -> TcpStream] /\ app \in [Conns -> App]
  BY RecordTypes DEF Init
<1>4. /\ udp \in [Ids -> Ports \cup {NoPort}]
      /\ udp_port_to_stream \in [Ports -> 0 .. MAX_ID]
  BY <1>2 DEF Init
<1>5. QED
  BY <1>1, <1>2, <1>3, <1>4 DEF Init, TypeOK

\* Every step of Divert keeps the types.
LEMMA TypeStep == TypeOK /\ [Next]_divertVars => TypeOK'
<1> SUFFICES ASSUME TypeOK, [Next]_divertVars PROVE TypeOK'
  OBVIOUS
<1>1. ASSUME NEW c \in Conns,
             AppConnects(c) \/ AppWrites(c) \/ AppFinishes(c) \/ AppBreaks(c)
      PROVE  TypeOK'
  BY <1>1, TypeApp
<1>2. ASSUME NEW c \in Conns, Accept(c) PROVE TypeOK'
  BY <1>2, TypeAccept
<1>3. ASSUME NEW p \in Ports, OutboundUdp(p) PROVE TypeOK'
  BY <1>3, TypeUdp
<1>4. ASSUME NEW id \in Ids, DrainTcp(id) PROVE TypeOK'
  BY <1>4, TypeDrain
<1>5. ASSUME NEW id \in Ids, Peer(id) PROVE TypeOK'
  BY <1>5, TypePeer
<1>6. CASE ChannelOpened
  BY <1>6 DEF ChannelOpened, TypeOK, tcpVars, udpVars
<1>7. CASE ChannelClosed
  <2>1. <<>> \in Seq(Frame)
    OBVIOUS
  <2>2. QED
    BY <1>7, <2>1 DEF ChannelClosed, TypeOK, tcpVars, udpVars
<1>8. CASE Transmit
  <2>1. Tail(queue) \in Seq(Frame)
    BY <1>8 DEF Transmit, TypeOK
  <2>2. QED
    BY <1>8, <2>1 DEF Transmit, TypeOK, tcpVars, udpVars
<1>9. CASE UNCHANGED divertVars
  BY <1>9 DEF divertVars, TypeOK
<1>10. QED
  BY <1>1, <1>2, <1>3, <1>4, <1>5, <1>6, <1>7, <1>8, <1>9 DEF Next, Local

\* The types hold for any number of ids, connections and ports.
THEOREM TypeCorrect == Spec => []TypeOK
<1>1. QED
  BY TypeInit, TypeStep, PTL DEF Spec

------------------------------------------------------------------------------
\* A stream that goes leaves the other ids as they are.
LEMMA TcpFreeUse ==
    ASSUME TypeOK, NEW id \in Ids, TcpFree(id)
    PROVE  \A i \in Ids : IsTcp(i)' => IsTcp(i)
  BY RecordTypes DEF TypeOK, TcpFree, IsTcp

\* A UDP stream that goes takes the entry of its port with it.
LEMMA UdpFreeTables ==
    ASSUME TypeOK, TablesAgree, NEW id \in Ids, IsUdp(id), UdpFree(id),
           \A i \in Ids : IsTcp(i)' => IsTcp(i)
    PROVE  TablesAgree'
<1>1. \A i \in Ids : udp'[i] = IF i = id THEN NoPort ELSE udp[i]
  BY DEF UdpFree, TypeOK
<1>2. udp[id] \in Ports /\ udp_port_to_stream[udp[id]] = id
  BY DEF TablesAgree, TypeOK, IsUdp
<1>3. \A p \in Ports :
        udp_port_to_stream'[p] = IF p = udp[id] THEN 0 ELSE udp_port_to_stream[p]
  BY <1>2 DEF UdpFree
<1>4. \A i \in Ids : ~(IsTcp(i)' /\ IsUdp(i)')
  BY <1>1 DEF TablesAgree, IsUdp
<1>5. ASSUME NEW p \in Ports, udp_port_to_stream'[p] # 0
      PROVE  udp'[udp_port_to_stream'[p]] = p
  <2>1. p # udp[id] /\ udp_port_to_stream'[p] = udp_port_to_stream[p]
    BY <1>3, <1>5
  <2>2. udp_port_to_stream[p] \in Ids
    BY <1>5, <2>1, IdAssumption DEF TypeOK, Ids
  <2>3. udp[udp_port_to_stream[p]] = p
    BY <1>5, <2>1 DEF TablesAgree
  <2>4. QED
    BY <1>1, <2>1, <2>2, <2>3
<1>6. ASSUME NEW i \in Ids, IsUdp(i)'
      PROVE  udp_port_to_stream'[udp'[i]] = i
  <2>1. i # id /\ udp'[i] = udp[i] /\ IsUdp(i)
    BY <1>1, <1>6 DEF IsUdp
  <2>2. udp[i] \in Ports /\ udp_port_to_stream[udp[i]] = i
    BY <2>1 DEF TablesAgree, TypeOK, IsUdp
  <2>3. QED
    BY <1>2, <1>3, <2>1, <2>2
<1>7. QED
  BY <1>4, <1>5, <1>6 DEF TablesAgree

\* A datagram of a port without a stream gets one, which no other port has.
LEMMA OutboundTables ==
    ASSUME TypeOK, TablesAgree, NEW p \in Ports, NEW id \in Ids,
           ~Known(p), Allocates(id), UNCHANGED tcp,
           udp' = [udp EXCEPT ![id] = p],
           udp_port_to_stream' = [udp_port_to_stream EXCEPT ![p] = id]
    PROVE  TablesAgree'
<1>1. ~IsTcp(id) /\ ~IsUdp(id)
  BY AllocatesFree
<1>2. udp_port_to_stream[p] = 0
  BY NullAssumption DEF Known, TablesAgree, IsUdp
<1>3. /\ \A i \in Ids : udp'[i] = IF i = id THEN p ELSE udp[i]
      /\ \A r \in Ports :
           udp_port_to_stream'[r] = IF r = p THEN id ELSE udp_port_to_stream[r]
  BY DEF TypeOK
<1>4. \A i \in Ids : ~(IsTcp(i)' /\ IsUdp(i)')
  BY <1>1, <1>3 DEF TablesAgree, IsUdp, IsTcp
<1>5. ASSUME NEW r \in Ports, udp_port_to_stream'[r] # 0
      PROVE  udp'[udp_port_to_stream'[r]] = r
  <2>1. CASE r = p
    BY <1>3, <2>1
  <2>2. CASE r # p
    <3>1. udp_port_to_stream[r] \in Ids /\ udp[udp_port_to_stream[r]] = r
      BY <1>3, <1>5, <2>2, IdAssumption DEF TablesAgree, TypeOK, Ids
    <3>2. udp_port_to_stream[r] # id
      BY <1>1, <3>1, NullAssumption DEF IsUdp
    <3>3. QED
      BY <1>3, <2>2, <3>1, <3>2
  <2>3. QED
    BY <2>1, <2>2
<1>6. ASSUME NEW i \in Ids, IsUdp(i)'
      PROVE  udp_port_to_stream'[udp'[i]] = i
  <2>1. CASE i = id
    BY <1>3, <2>1
  <2>2. CASE i # id
    <3>1. udp'[i] = udp[i] /\ udp[i] \in Ports /\ udp_port_to_stream[udp[i]] = i
      BY <1>3, <1>6, <2>2 DEF TablesAgree, TypeOK, IsUdp
    <3>2. udp[i] # p
      BY <1>2, <3>1, IdAssumption DEF Ids
    <3>3. QED
      BY <1>3, <3>1, <3>2
  <2>3. QED
    BY <2>1, <2>2
<1>7. QED
  BY <1>4, <1>5, <1>6 DEF TablesAgree

\* A step that leaves the UDP tables alone and begins no TCP stream.
LEMMA TablesKept ==
    ASSUME TablesAgree, UNCHANGED <<udp, udp_port_to_stream>>,
           \A i \in Ids : IsTcp(i)' => IsTcp(i)
    PROVE  TablesAgree'
  BY DEF TablesAgree, IsUdp

LEMMA TablesAccept ==
    ASSUME TypeOK, TablesAgree, NEW c \in Conns, Accept(c)
    PROVE  TablesAgree'
<1>1. CASE UNCHANGED tcp
  BY <1>1, TablesKept DEF Accept, IsTcp
<1>2. CASE \E id \in Ids : /\ Allocates(id)
                           /\ tcp' = [tcp EXCEPT ![id] = [FreeTcp EXCEPT !.conn = c]]
  <2>1. PICK id \in Ids : /\ Allocates(id)
                         /\ tcp' = [tcp EXCEPT ![id] = [FreeTcp EXCEPT !.conn = c]]
    BY <1>2
  <2>2. ~IsUdp(id)
    BY <2>1, AllocatesFree
  <2>3. \A i \in Ids : i # id => (IsTcp(i)' => IsTcp(i))
    BY <2>1 DEF TypeOK, IsTcp
  <2>4. UNCHANGED <<udp, udp_port_to_stream>>
    BY DEF Accept
  <2>5. QED
    BY <2>2, <2>3, <2>4 DEF TablesAgree, IsUdp
<1>3. QED
  BY <1>1, <1>2 DEF Accept

LEMMA TablesPeer ==
    ASSUME TypeOK, TablesAgree, NEW id \in Ids, Peer(id)
    PROVE  TablesAgree'
<1>1. ASSUME NEW ok \in BOOLEAN, PeerOpenAck(id, ok)
      PROVE  TablesAgree'
  <2>1. \A i \in Ids : IsTcp(i)' => IsTcp(i)
    BY <1>1, TcpFreeUse DEF PeerOpenAck, TypeOK, IsTcp
  <2>2. QED
    BY <1>1, <2>1, TablesKept DEF PeerOpenAck, udpVars
<1>2. ASSUME NEW ok \in BOOLEAN, PeerBindAck(id, ok)
      PROVE  TablesAgree'
  BY <1>2, UdpFreeTables DEF PeerBindAck, tcpVars, IsTcp
<1>3. CASE PeerData(id)
  <2>1. \A i \in Ids : IsTcp(i)' => IsTcp(i)
    BY <1>3, TcpFreeUse DEF PeerData, tcpVars, IsTcp
  <2>2. QED
    BY <1>3, <2>1, TablesKept DEF PeerData, udpVars
<1>4. CASE PeerCloseWr(id)
  <2>1. \A i \in Ids : IsTcp(i)' => IsTcp(i)
    BY <1>4, TcpFreeUse DEF PeerCloseWr, TypeOK, IsTcp
  <2>2. QED
    BY <1>4, <2>1, TablesKept DEF PeerCloseWr, udpVars
<1>5. CASE PeerRst(id)
  BY <1>5, TcpFreeUse, TablesKept DEF PeerRst, udpVars
<1>6. CASE PeerUdpClose(id)
  BY <1>6, UdpFreeTables DEF PeerUdpClose, tcpVars, IsTcp
<1>7. QED
  BY <1>1, <1>2, <1>3, <1>4, <1>5, <1>6 DEF Peer

\* Every step keeps the tables in agreement.
LEMMA TablesStep == TypeOK /\ TablesAgree /\ [Next]_divertVars => TablesAgree'
<1> SUFFICES ASSUME TypeOK, TablesAgree, [Next]_divertVars PROVE TablesAgree'
  OBVIOUS
<1>1. ASSUME NEW c \in Conns,
             AppConnects(c) \/ AppWrites(c) \/ AppFinishes(c) \/ AppBreaks(c)
      PROVE  TablesAgree'
  <2>1. UNCHANGED <<tcp, udpVars>>
    BY <1>1 DEF AppConnects, AppWrites, AppFinishes, AppBreaks
  <2>2. QED
    BY <2>1, TablesKept DEF IsTcp, udpVars
<1>2. ASSUME NEW c \in Conns, Accept(c) PROVE TablesAgree'
  BY <1>2, TablesAccept
<1>3. ASSUME NEW p \in Ports, OutboundUdp(p) PROVE TablesAgree'
  <2>1. CASE UNCHANGED <<udp, udp_port_to_stream>>
    BY <1>3, <2>1, TablesKept DEF OutboundUdp, tcpVars, IsTcp
  <2>2. CASE ~Known(p) /\ \E id \in Ids :
               /\ Allocates(id)
               /\ udp' = [udp EXCEPT ![id] = p]
               /\ udp_port_to_stream' = [udp_port_to_stream EXCEPT ![p] = id]
    BY <1>3, <2>2, OutboundTables DEF OutboundUdp, tcpVars
  <2>3. QED
    BY <1>3, <2>1, <2>2 DEF OutboundUdp, udpVars
<1>4. ASSUME NEW id \in Ids, DrainTcp(id) PROVE TablesAgree'
  <2>1. \/ TcpFree(id)
        \/ tcp' = [tcp EXCEPT ![id].localEnd = TRUE]
        \/ UNCHANGED tcp
    BY <1>4 DEF DrainTcp, ReadEnd
  <2>2. \A i \in Ids : IsTcp(i)' => IsTcp(i)
    <3>1. CASE TcpFree(id)
      BY <3>1, TcpFreeUse
    <3>2. CASE tcp' = [tcp EXCEPT ![id].localEnd = TRUE]
      <4>1. tcp[id] \in TcpStream
        BY DEF TypeOK
      <4>2. \A i \in Ids : tcp'[i].conn = tcp[i].conn
        BY <3>2, <4>1 DEF TypeOK, TcpStream
      <4>3. QED
        BY <4>2 DEF IsTcp
    <3>3. CASE UNCHANGED tcp
      BY <3>3 DEF IsTcp
    <3>4. QED
      BY <2>1, <3>1, <3>2, <3>3
  <2>3. UNCHANGED <<udp, udp_port_to_stream>>
    BY <1>4 DEF DrainTcp, ReadEnd, udpVars
  <2>4. QED
    BY <2>2, <2>3, TablesKept
<1>5. ASSUME NEW id \in Ids, Peer(id) PROVE TablesAgree'
  BY <1>5, TablesPeer
<1>6. CASE ChannelOpened \/ ChannelClosed \/ Transmit
  BY <1>6, TablesKept DEF ChannelOpened, ChannelClosed, Transmit, tcpVars, udpVars, IsTcp
<1>7. CASE UNCHANGED divertVars
  BY <1>7, TablesKept DEF divertVars, IsTcp
<1>8. QED
  BY <1>1, <1>2, <1>3, <1>4, <1>5, <1>6, <1>7 DEF Next, Local

\* An id has one use, and the map of ports and the UDP streams are each other's
\* inverse, for any number of ids and ports (alloc_stream_id,
\* handle_outbound_udp_packet, udp_stream_free).
THEOREM TablesAlwaysAgree == Spec => []TablesAgree
<1>1. Init => TablesAgree
  BY RecordTypes DEF Init, TablesAgree, IsTcp, IsUdp
<1>2. QED
  BY <1>1, TypeInit, TypeStep, TablesStep, PTL DEF Spec

------------------------------------------------------------------------------
\* A freed stream leaves the sockets of the others to them.
LEMMA TcpFreeSockets ==
    ASSUME TypeOK, SocketsAgree, NEW id \in Ids, IsTcp(id), TcpFree(id)
    PROVE  SocketsAgree'
<1>1. tcp[id].conn \in Conns
  BY HeldConn
<1>2. \A i \in Ids : tcp'[i].conn = IF i = id THEN NoConn ELSE tcp[i].conn
  BY RecordTypes DEF TcpFree, TypeOK
<1>3. \A c \in Conns : app'[c] = IF c = tcp[id].conn THEN Closed ELSE app[c]
  BY <1>1 DEF TcpFree, TypeOK
<1>4. ASSUME NEW i \in Ids, NEW j \in Ids, IsTcp(i)', tcp'[i].conn = tcp'[j].conn
      PROVE  i = j
  <2>1. i # id /\ j # id /\ IsTcp(i) /\ tcp[i].conn = tcp[j].conn
    BY <1>2, <1>4 DEF IsTcp
  <2>2. QED
    BY <2>1 DEF SocketsAgree
<1>5. ASSUME NEW c \in Conns
      PROVE  app'[c].at = "held" <=> \E i \in Ids : tcp'[i].conn = c
  <2>1. CASE c = tcp[id].conn
    <3>1. app'[c].at # "held"
      BY <1>3, <2>1, RecordTypes
    <3>2. \A i \in Ids : i # id => tcp[i].conn # c
      BY <2>1 DEF SocketsAgree
    <3>3. \A i \in Ids : tcp'[i].conn # c
      BY <1>2, <3>2, NullAssumption
    <3>4. QED
      BY <3>1, <3>3
  <2>2. CASE c # tcp[id].conn
    <3>1. app'[c] = app[c]
      BY <1>3, <2>2
    <3>2. \A i \in Ids : tcp'[i].conn = c <=> tcp[i].conn = c
      BY <1>2, <2>2, NullAssumption
    <3>3. QED
      BY <3>1, <3>2 DEF SocketsAgree
  <2>3. QED
    BY <2>1, <2>2
<1>6. QED
  BY <1>4, <1>5 DEF SocketsAgree

\* A step in which no stream and no application changes hands.
LEMMA SocketsKept ==
    ASSUME SocketsAgree,
           \A i \in Ids : tcp'[i].conn = tcp[i].conn,
           \A c \in Conns : app'[c].at = "held" <=> app[c].at = "held"
    PROVE  SocketsAgree'
<1>1. ASSUME NEW i \in Ids, NEW j \in Ids, IsTcp(i)', tcp'[i].conn = tcp'[j].conn
      PROVE  i = j
  BY <1>1 DEF SocketsAgree, IsTcp
<1>2. ASSUME NEW c \in Conns
      PROVE  app'[c].at = "held" <=> \E i \in Ids : tcp'[i].conn = c
  BY DEF SocketsAgree
<1>3. QED
  BY <1>1, <1>2 DEF SocketsAgree

LEMMA SocketsAccept ==
    ASSUME TypeOK, SocketsAgree, NEW c \in Conns, Accept(c)
    PROVE  SocketsAgree'
<1>1. app[c].at = "backlog" /\ app[c] \in App
  BY DEF Accept, TypeOK
<1>2. \A i \in Ids : tcp[i].conn # c
  BY <1>1 DEF SocketsAgree
<1>3. CASE app' = [app EXCEPT ![c] = Closed] /\ UNCHANGED tcp
  <2>1. \A k \in Conns : app'[k] = IF k = c THEN Closed ELSE app[k]
    BY <1>3 DEF TypeOK
  <2>2. QED
    BY <1>1, <1>3, <2>1, RecordTypes, SocketsKept
<1>4. CASE \E id \in Ids : /\ Allocates(id)
                           /\ tcp' = [tcp EXCEPT ![id] = [FreeTcp EXCEPT !.conn = c]]
                           /\ app' = [app EXCEPT ![c].at = "held"]
  <2>1. PICK id \in Ids : /\ Allocates(id)
                         /\ tcp' = [tcp EXCEPT ![id] = [FreeTcp EXCEPT !.conn = c]]
                         /\ app' = [app EXCEPT ![c].at = "held"]
    BY <1>4
  <2>2. tcp[id].conn = NoConn
    BY <2>1, AllocatesFree DEF IsTcp
  <2>3. \A i \in Ids : tcp'[i].conn = IF i = id THEN c ELSE tcp[i].conn
    BY <2>1 DEF FreeTcp, TypeOK
  <2>4. \A k \in Conns : app'[k].at = IF k = c THEN "held" ELSE app[k].at
    BY <1>1, <2>1 DEF TypeOK, App
  <2>5. ASSUME NEW i \in Ids, NEW j \in Ids, IsTcp(i)', tcp'[i].conn = tcp'[j].conn
        PROVE  i = j
    BY <1>2, <2>3, <2>5 DEF SocketsAgree, IsTcp
  <2>6. ASSUME NEW k \in Conns
        PROVE  app'[k].at = "held" <=> \E i \in Ids : tcp'[i].conn = k
    <3>1. CASE k = c
      BY <2>3, <2>4, <3>1
    <3>2. CASE k # c
      <4>1. \A i \in Ids : tcp'[i].conn = k <=> tcp[i].conn = k
        BY <2>2, <2>3, <3>2, NullAssumption
      <4>2. QED
        BY <2>4, <3>2, <4>1 DEF SocketsAgree
    <3>3. QED
      BY <3>1, <3>2
  <2>7. QED
    BY <2>5, <2>6 DEF SocketsAgree
<1>5. QED
  BY <1>3, <1>4 DEF Accept

LEMMA SocketsPeer ==
    ASSUME TypeOK, SocketsAgree, NEW id \in Ids, Peer(id)
    PROVE  SocketsAgree'
<1> tcp[id] \in TcpStream
  BY DEF TypeOK
<1>1. CASE IsTcp(id) /\ TcpFree(id)
  BY <1>1, TcpFreeSockets
<1>2. CASE /\ \/ tcp' = [tcp EXCEPT ![id].acked = TRUE]
              \/ tcp' = [tcp EXCEPT ![id].remoteEnd = TRUE]
              \/ UNCHANGED tcp
           /\ UNCHANGED app
  <2>1. \A i \in Ids : tcp'[i].conn = tcp[i].conn
    BY <1>2 DEF TypeOK, TcpStream
  <2>2. QED
    BY <1>2, <2>1, SocketsKept
<1>3. QED
  BY <1>1, <1>2 DEF Peer, PeerOpenAck, PeerBindAck, PeerData, PeerCloseWr, PeerRst,
                    PeerUdpClose, tcpVars

\* Every step keeps the sockets in agreement.
LEMMA SocketsStep == TypeOK /\ SocketsAgree /\ [Next]_divertVars => SocketsAgree'
<1> SUFFICES ASSUME TypeOK, SocketsAgree, [Next]_divertVars PROVE SocketsAgree'
  OBVIOUS
<1>1. ASSUME NEW c \in Conns,
             AppConnects(c) \/ AppWrites(c) \/ AppFinishes(c) \/ AppBreaks(c)
      PROVE  SocketsAgree'
  <2>1. app[c] \in App
    BY DEF TypeOK
  <2>2. \A k \in Conns : app'[k].at = "held" <=> app[k].at = "held"
    <3>1. CASE AppConnects(c)
      BY <2>1, <3>1 DEF AppConnects, TypeOK, App
    <3>2. CASE AppWrites(c) \/ AppFinishes(c) \/ AppBreaks(c)
      <4>1. \/ app' = [app EXCEPT ![c].unread = @ + 1]
            \/ app' = [app EXCEPT ![c].fin = TRUE]
            \/ app' = [app EXCEPT ![c].broken = TRUE, ![c].unread = 0]
        BY <3>2 DEF AppWrites, AppFinishes, AppBreaks
      <4>2. \A k \in Conns : app'[k].at = app[k].at
        <5>1. CASE app' = [app EXCEPT ![c].unread = @ + 1]
          BY <2>1, <5>1 DEF TypeOK, App
        <5>2. CASE app' = [app EXCEPT ![c].fin = TRUE]
          BY <2>1, <5>2 DEF TypeOK, App
        <5>3. CASE app' = [app EXCEPT ![c].broken = TRUE, ![c].unread = 0]
          BY <2>1, <5>3 DEF TypeOK, App
        <5>4. QED
          BY <4>1, <5>1, <5>2, <5>3
      <4>3. QED
        BY <4>2
    <3>3. QED
      BY <1>1, <3>1, <3>2
  <2>3. UNCHANGED tcp
    BY <1>1 DEF AppConnects, AppWrites, AppFinishes, AppBreaks
  <2>4. QED
    BY <2>2, <2>3, SocketsKept
<1>2. ASSUME NEW c \in Conns, Accept(c) PROVE SocketsAgree'
  BY <1>2, SocketsAccept
<1>3. ASSUME NEW id \in Ids, DrainTcp(id) PROVE SocketsAgree'
  <2>1. IsTcp(id) /\ tcp[id] \in TcpStream /\ tcp[id].conn \in Conns
    BY <1>3, HeldConn DEF DrainTcp, Swept
  <2>2. CASE TcpFree(id)
    BY <2>1, <2>2, TcpFreeSockets
  <2>3. CASE /\ tcp' = [tcp EXCEPT ![id].localEnd = TRUE] \/ UNCHANGED tcp
             /\ app' = [app EXCEPT ![tcp[id].conn].unread = 0]
    <3>1. \A i \in Ids : tcp'[i].conn = tcp[i].conn
      BY <2>1, <2>3 DEF TypeOK, TcpStream
    <3>2. app[tcp[id].conn] \in App
      BY <2>1 DEF TypeOK
    <3>3. \A c \in Conns : app'[c].at = app[c].at
      BY <2>3, <3>2 DEF TypeOK, App
    <3>4. QED
      BY <3>1, <3>3, SocketsKept
  <2>4. QED
    BY <1>3, <2>2, <2>3 DEF DrainTcp, ReadEnd
<1>4. ASSUME NEW id \in Ids, Peer(id) PROVE SocketsAgree'
  BY <1>4, SocketsPeer
<1>5. CASE UNCHANGED <<tcp, app>>
  BY <1>5, SocketsKept
<1>6. QED
  BY <1>1, <1>2, <1>3, <1>4, <1>5
     DEF Next, Local, OutboundUdp, ChannelOpened, ChannelClosed, Transmit, tcpVars,
         divertVars

\* Every accepted socket is that of one stream and is closed with it, on every
\* path that frees a stream.
THEOREM SocketsAlwaysAgree == Spec => []SocketsAgree
<1>1. Init => SocketsAgree
  BY RecordTypes, NullAssumption DEF Init, SocketsAgree, IsTcp, NoApp
<1>2. QED
  BY <1>1, TypeInit, TypeStep, SocketsStep, PTL DEF Spec

------------------------------------------------------------------------------
\* A step of divert frees a stream, sets one of its ends when the other is not
\* set, or leaves both as they are.
LEMMA ReleaseStep ==
    TypeOK /\ ReleasedAtBothEnds /\ [Next]_divertVars => ReleasedAtBothEnds'
<1> SUFFICES ASSUME TypeOK, ReleasedAtBothEnds, [Next]_divertVars
             PROVE  ReleasedAtBothEnds'
  OBVIOUS
<1>1. ASSUME NEW id \in Ids, TcpFree(id) PROVE ReleasedAtBothEnds'
  BY <1>1, RecordTypes DEF TcpFree, TypeOK, ReleasedAtBothEnds
<1>2. ASSUME NEW id \in Ids, NEW c \in Conns,
             tcp' = [tcp EXCEPT ![id] = [FreeTcp EXCEPT !.conn = c]]
      PROVE  ReleasedAtBothEnds'
  BY <1>2 DEF FreeTcp, TypeOK, ReleasedAtBothEnds
<1>3. ASSUME NEW id \in Ids,
             \/ ~tcp[id].remoteEnd /\ tcp' = [tcp EXCEPT ![id].localEnd = TRUE]
             \/ ~tcp[id].localEnd /\ tcp' = [tcp EXCEPT ![id].remoteEnd = TRUE]
             \/ tcp' = [tcp EXCEPT ![id].acked = TRUE]
      PROVE  ReleasedAtBothEnds'
  <2>1. tcp[id] \in TcpStream
    BY DEF TypeOK
  <2>2. QED
    BY <1>3, <2>1 DEF TypeOK, TcpStream, ReleasedAtBothEnds
<1>4. CASE UNCHANGED tcp
  BY <1>4 DEF ReleasedAtBothEnds
<1>5. ASSUME NEW c \in Conns, Accept(c) PROVE ReleasedAtBothEnds'
  BY <1>2, <1>4, <1>5 DEF Accept
<1>6. ASSUME NEW id \in Ids, DrainTcp(id) PROVE ReleasedAtBothEnds'
  BY <1>1, <1>3, <1>4, <1>6 DEF DrainTcp, ReadEnd
<1>7. ASSUME NEW id \in Ids, Peer(id) PROVE ReleasedAtBothEnds'
  BY <1>1, <1>3, <1>4, <1>7
     DEF Peer, PeerOpenAck, PeerBindAck, PeerData, PeerCloseWr, PeerRst,
         PeerUdpClose, tcpVars
<1>8. QED
  BY <1>4, <1>5, <1>6, <1>7
     DEF Next, Local, AppConnects, AppWrites, AppFinishes, AppBreaks, OutboundUdp,
         ChannelOpened, ChannelClosed, Transmit, tcpVars, divertVars

\* A stream whose two directions have ended is gone, whichever ended first.
THEOREM BothEndsRelease == Spec => []ReleasedAtBothEnds
<1>1. Init => ReleasedAtBothEnds
  BY RecordTypes DEF Init, ReleasedAtBothEnds
<1>2. QED
  BY <1>1, TypeInit, TypeStep, ReleaseStep, PTL DEF Spec

==============================================================================
