---------------------------- MODULE TetherProofs ----------------------------
(***************************************************************************)
(* Proofs about Tether, for queues of any capacity and any number of ids,  *)
(* connections, ports and losses.  Tether implements Divert: the phone and *)
(* the channel add nothing to what the daemon may meet, so that what is    *)
(* proved of Divert holds of the whole.  And when nothing is in flight the *)
(* two ends agree about the streams, which takes an invariant about the    *)
(* frames that were.                                                       *)
(***************************************************************************)
EXTENDS Tether, DivertProofs

\* The part of the types on which the others rest: the daemon's own, and that
\* both directions of the channel carry frames.
Carries ==
    /\ TypeOK
    /\ back \in Seq(BackFrame)

\* Where a step of the whole leaves the daemon: it takes a step of its own or
\* none.
LEMMA DispatchIsPeer ==
    ASSUME NEW f \in BackFrame, Dispatch(f)
    PROVE  \E id \in Ids : Peer(id)
<1>1. f.sid \in Ids
  BY DEF BackFrame
<1>2. Peer(f.sid)
  BY DEF Dispatch, Peer
<1>3. QED
  BY <1>1, <1>2

LEMMA HeadAndTail ==
    ASSUME NEW S, NEW q \in Seq(S), q # <<>>
    PROVE  Head(q) \in S /\ Tail(q) \in Seq(S)
  OBVIOUS

LEMMA TetherStep == Carries /\ [TetherNext]_tetherVars => [Next]_divertVars
<1> SUFFICES ASSUME Carries, [TetherNext]_tetherVars PROVE [Next]_divertVars
  OBVIOUS
<1>1. CASE Daemon
  BY <1>1 DEF Daemon, Next
<1>2. CASE DaemonReads
  <2>1. Head(back) \in BackFrame
    BY <1>2, HeadAndTail DEF DaemonReads, Carries
  <2>2. CASE Dispatch(Head(back))
    BY <2>1, <2>2, DispatchIsPeer DEF Next
  <2>3. CASE UNCHANGED divertVars
    BY <2>3
  <2>4. QED
    BY <1>2, <2>2, <2>3 DEF DaemonReads
<1>3. CASE PhoneReads
  BY <1>3 DEF PhoneReads, Next
<1>4. ASSUME NEW id \in Ids, PhoneStream(id) PROVE UNCHANGED divertVars
  BY <1>4 DEF PhoneStream, daemonVars
<1>5. CASE ChannelUp
  BY <1>5 DEF ChannelUp, Next
<1>6. CASE Dropped \/ Cut
  BY <1>6 DEF Dropped, Cut, Next
<1>7. CASE UNCHANGED tetherVars
  BY <1>7 DEF tetherVars
<1>8. QED
  BY <1>1, <1>2, <1>3, <1>4, <1>5, <1>6, <1>7 DEF TetherNext

\* A reply of the phone is a frame.
LEMMA ReplyType ==
    ASSUME back \in Seq(BackFrame), NEW id \in Ids,
           NEW type \in {"ACK_OK", "ACK_ERR", "DATA", "CLOSE_WR", "RST", "BIND_OK",
                         "BIND_ERR", "PACKET", "UDP_CLOSE"},
           Reply(type, id)
    PROVE  back' \in Seq(BackFrame)
<1>1. [type |-> type, sid |-> id] \in BackFrame
  BY DEF BackFrame
<1>2. QED
  BY <1>1 DEF Reply

LEMMA CarriesStep == Carries /\ [TetherNext]_tetherVars => Carries'
<1> SUFFICES ASSUME Carries, [TetherNext]_tetherVars PROVE Carries'
  OBVIOUS
<1>1. TypeOK'
  BY TetherStep, TypeStep DEF Carries
<1>2. back \in Seq(BackFrame)
  BY DEF Carries
<1>3. back' \in Seq(BackFrame)
  <2>1. CASE Daemon
    BY <1>2, <2>1 DEF Daemon, Aside, phoneVars
  <2>2. CASE DaemonReads
    BY <1>2, <2>2, HeadAndTail DEF DaemonReads
  <2>3. CASE PhoneReads
    <3>1. Head(queue) \in Frame
      BY <2>3, HeadAndTail DEF PhoneReads, Transmit, Carries, TypeOK
    <3>2. Head(queue).sid \in Ids
      BY <3>1 DEF Frame
    <3>3. QED
      BY <1>2, <2>3, <3>2, ReplyType
         DEF PhoneReads, HandleOpen, HandleData, HandleCloseWr, HandleRst,
             HandleBind, phoneVars
  <2>4. ASSUME NEW id \in Ids, PhoneStream(id) PROVE back' \in Seq(BackFrame)
    BY <1>2, <2>4, ReplyType
       DEF PhoneStream, PhoneConnects, PhoneForwards, PhoneUdp
  <2>5. CASE Cut
    <3>1. <<>> \in Seq(BackFrame)
      OBVIOUS
    <3>2. QED
      BY <2>5, <3>1 DEF Cut
  <2>6. CASE ChannelUp \/ Dropped \/ UNCHANGED tetherVars
    BY <1>2, <2>6 DEF ChannelUp, Dropped, tetherVars, phoneVars
  <2>7. QED
    BY <2>1, <2>2, <2>3, <2>4, <2>5, <2>6 DEF TetherNext
<1>4. QED
  BY <1>1, <1>3 DEF Carries

LEMMA CarriesInit == TetherInit => Carries
<1>1. <<>> \in Seq(BackFrame)
  OBVIOUS
<1>2. QED
  BY <1>1, TypeInit DEF TetherInit, Carries

\* With the phone and the channel around it, the daemon does what Divert allows
\* and nothing else.
THEOREM TetherImplementsDivert == TetherSpec => Spec
<1>1. TetherInit => Init
  BY DEF TetherInit
<1>2. QED
  BY <1>1, CarriesInit, CarriesStep, TetherStep, PTL DEF TetherSpec, Spec

\* So the tables and the sockets agree, and a stream with two ends is gone,
\* whatever the phone sends and whenever the channel is lost.
THEOREM TablesAgreeEndToEnd ==
    TetherSpec => [](TablesAgree /\ SocketsAgree /\ ReleasedAtBothEnds)
  BY TetherImplementsDivert, TablesAlwaysAgree, SocketsAlwaysAgree, BothEndsRelease, PTL

------------------------------------------------------------------------------
(***************************************************************************)
(* Frames in a queue.                                                      *)
(***************************************************************************)
\* A frame of this type and id is in the queue.
On(q, type, id) == \E i \in 1 .. Len(q) : q[i] = F(type, id)

LEMMA FrameParts ==
    ASSUME NEW type, NEW id
    PROVE  /\ F(type, id).type = type /\ F(type, id).sid = id
           /\ [type |-> type, sid |-> id] = F(type, id)
           /\ \A t, j : F(type, id) = F(t, j) => type = t /\ id = j
  <1>1. /\ F(type, id).type = type /\ F(type, id).sid = id
        /\ [type |-> type, sid |-> id] = F(type, id)
    BY DEF F
  <1>2. \A t, j : F(t, j).type = t /\ F(t, j).sid = j
    BY DEF F
  <1>3. QED
    BY <1>1, <1>2

\* A frame is what its type and its id say.
LEMMA FrameIs ==
    /\ \A f \in Frame : f = F(f.type, f.sid) /\ f.sid \in Ids
    /\ \A f \in BackFrame : f = F(f.type, f.sid) /\ f.sid \in Ids
  BY DEF F, Frame, BackFrame

LEMMA OnAppend ==
    ASSUME NEW S, NEW q \in Seq(S), NEW f \in S, NEW type, NEW id
    PROVE  On(Append(q, f), type, id) <=> On(q, type, id) \/ f = F(type, id)
<1>1. /\ Len(Append(q, f)) = Len(q) + 1 /\ Len(q) \in Nat
      /\ Append(q, f)[Len(q) + 1] = f
      /\ \A i \in 1 .. Len(q) : Append(q, f)[i] = q[i]
      /\ \A i \in 1 .. Len(q) + 1 : i \in 1 .. Len(q) \/ i = Len(q) + 1
      /\ \A i \in 1 .. Len(q) : i \in 1 .. Len(q) + 1
      /\ Len(q) + 1 \in 1 .. Len(q) + 1
  OBVIOUS
<1>2. QED
  BY <1>1 DEF On

LEMMA OnTail ==
    ASSUME NEW S, NEW q \in Seq(S), q # <<>>, NEW type, NEW id
    PROVE  /\ On(Tail(q), type, id) => On(q, type, id)
           /\ On(q, type, id) => On(Tail(q), type, id) \/ Head(q) = F(type, id)
           /\ Head(q) = F(type, id) => On(q, type, id)
<1>1. /\ Len(Tail(q)) = Len(q) - 1 /\ Len(q) \in Nat /\ Len(q) > 0
      /\ Head(q) = q[1]
      /\ \A i \in 1 .. Len(q) - 1 : Tail(q)[i] = q[i + 1] /\ i + 1 \in 1 .. Len(q)
      /\ \A i \in 1 .. Len(q) : i = 1 \/ (i - 1 \in 1 .. Len(q) - 1 /\ Tail(q)[i - 1] = q[i])
      /\ 1 \in 1 .. Len(q)
  OBVIOUS
<1>2. QED
  BY <1>1 DEF On

LEMMA OnEmpty == \A type, id : ~On(<<>>, type, id)
  BY DEF On

------------------------------------------------------------------------------
(***************************************************************************)
(* What a step of the daemon may do to the queue.                          *)
(***************************************************************************)
\* A frame that is offered goes to the end of the queue, which has room for it,
\* or nowhere.
LEMMA AfterIs ==
    ASSUME NEW q \in Seq(Frame), NEW f \in Frame, NEW r \in After(q, f)
    PROVE  r = q \/ (r = Append(q, f) /\ up /\ Len(q) < QueueCap)
  BY DEF After

Grows(q, r) == Len(q) <= Len(r) /\ \A i \in 1 .. Len(q) : r[i] = q[i]
Added(q, r) == Len(q) + 1 .. Len(r)
Fits(q) == Len(q) <= QueueCap

LEMMA GrowsByOne ==
    ASSUME NEW q \in Seq(Frame), NEW f \in Frame, NEW r \in After(q, f)
    PROVE  /\ r \in Seq(Frame) /\ Grows(q, r) /\ (Fits(q) => Fits(r))
           /\ \A i \in Added(q, r) : i = Len(q) + 1 /\ r[i] = f /\ r = Append(q, f)
<1>1. CASE r = q
  BY <1>1 DEF Grows, Added, Fits
<1>2. CASE r = Append(q, f) /\ Len(q) < QueueCap
  <2>1. /\ r \in Seq(Frame) /\ Len(r) = Len(q) + 1 /\ Len(q) \in Nat
        /\ r[Len(q) + 1] = f /\ \A i \in 1 .. Len(q) : r[i] = q[i]
    BY <1>2
  <2>2. \A i \in Len(q) + 1 .. Len(q) + 1 : i = Len(q) + 1
    BY <2>1
  <2>3. QED
    BY <1>2, <2>1, <2>2, BoundAssumption DEF Grows, Added, Fits
<1>3. QED
  BY <1>1, <1>2, AfterIs

\* Two frames in a row.
LEMMA GrowsTwice ==
    ASSUME NEW q \in Seq(Frame), NEW r \in Seq(Frame), NEW s \in Seq(Frame),
           Grows(q, r), Grows(r, s)
    PROVE  /\ Grows(q, s)
           /\ \A i \in Added(q, s) : i \in Added(r, s) \/ (i \in Added(q, r) /\ s[i] = r[i])
  BY DEF Grows, Added

\* The reads that are forwarded.
LEMMA GrowsByReads ==
    ASSUME NEW q \in Seq(Frame), NEW n \in Nat, NEW f \in Frame,
           n > 0 => Len(q \o [i \in 1 .. n |-> f]) <= QueueCap
    PROVE  /\ q \o [i \in 1 .. n |-> f] \in Seq(Frame)
           /\ Grows(q, q \o [i \in 1 .. n |-> f])
           /\ Fits(q) => Fits(q \o [i \in 1 .. n |-> f])
           /\ \A i \in Added(q, q \o [j \in 1 .. n |-> f]) :
                (q \o [j \in 1 .. n |-> f])[i] = f
<1> DEFINE t == [i \in 1 .. n |-> f]
<1>1. t \in Seq(Frame) /\ Len(t) = n /\ \A i \in 1 .. n : t[i] = f
  OBVIOUS
<1> HIDE DEF t
<1>2. /\ q \o t \in Seq(Frame) /\ Len(q \o t) = Len(q) + n /\ Len(q) \in Nat
      /\ \A i \in 1 .. Len(q) : (q \o t)[i] = q[i]
  BY <1>1
<1>3. \A i \in Len(q) + 1 .. Len(q) + n : (q \o t)[i] = t[i - Len(q)] /\ i - Len(q) \in 1 .. n
  BY <1>1, <1>2
<1>4. n = 0 => Len(q \o t) = Len(q)
  BY <1>2
<1>5. n > 0 => Len(q \o t) <= QueueCap
  BY DEF t
<1>6. n = 0 \/ n > 0
  OBVIOUS
<1>7. Grows(q, q \o t) /\ (Fits(q) => Fits(q \o t))
      /\ \A i \in Added(q, q \o t) : (q \o t)[i] = f
  BY <1>1, <1>2, <1>3, <1>4, <1>5, <1>6 DEF Grows, Added, Fits
<1>8. QED
  BY <1>2, <1>7 DEF t

\* The frames a visit of stream id adds: reads, and at most one other at the end.
LEMMA DrainAdds ==
    ASSUME TypeOK, NEW id \in Ids, DrainTcp(id)
    PROVE  /\ Grows(queue, queue') /\ queue' \in Seq(Frame)
           /\ Fits(queue) => Fits(queue')
           /\ \A i \in Added(queue, queue') :
                \/ queue'[i] = F("DATA", id)
                \/ queue'[i] = F("RST", id) /\ TcpFree(id)
                \/ queue'[i] = F("CLOSE_WR", id) /\ ReadEnd(id)
<1> DEFINE a == app[tcp[id].conn]
           sent(n) == queue \o [i \in 1 .. n |-> F("DATA", id)]
<1>1. IsTcp(id) /\ tcp[id].conn \in Conns /\ queue \in Seq(Frame)
  BY HeldConn DEF DrainTcp, Swept, TypeOK
<1>2. PICK n \in 0 .. a.unread :
        /\ n > 0 => Len(sent(n)) <= QueueCap
        /\ \/ queue' \in After(sent(n), F("RST", id)) /\ TcpFree(id)
           \/ queue' \in After(sent(n), F("CLOSE_WR", id)) /\ ReadEnd(id)
           \/ queue' = sent(n)
  BY DEF DrainTcp
<1>3. n \in Nat
  <2>1. a \in App
    BY <1>1 DEF TypeOK
  <2>2. a.unread \in 0 .. MaxUnread
    BY <2>1 DEF App
  <2>3. QED
    BY <2>2, BoundAssumption
<1>4. F("DATA", id) \in Frame /\ F("RST", id) \in Frame /\ F("CLOSE_WR", id) \in Frame
  BY RecordTypes
<1>5. /\ sent(n) \in Seq(Frame) /\ Grows(queue, sent(n))
      /\ Fits(queue) => Fits(sent(n))
      /\ \A i \in Added(queue, sent(n)) : sent(n)[i] = F("DATA", id)
  BY <1>1, <1>2, <1>3, <1>4, GrowsByReads
<1> DEFINE r == sent(n)
<1> HIDE DEF r, sent
<1>6. r \in Seq(Frame) /\ Grows(queue, r) /\ (Fits(queue) => Fits(r))
      /\ \A i \in Added(queue, r) : r[i] = F("DATA", id)
  BY <1>5 DEF r
<1>7. \/ queue' \in After(r, F("RST", id)) /\ TcpFree(id)
      \/ queue' \in After(r, F("CLOSE_WR", id)) /\ ReadEnd(id)
      \/ queue' = r
  BY <1>2 DEF r
<1>8. ASSUME NEW f \in Frame, queue' \in After(r, f)
      PROVE  /\ Grows(queue, queue') /\ queue' \in Seq(Frame)
             /\ Fits(queue) => Fits(queue')
             /\ \A i \in Added(queue, queue') : queue'[i] = F("DATA", id) \/ queue'[i] = f
  <2>1. /\ queue' \in Seq(Frame) /\ Grows(r, queue') /\ (Fits(r) => Fits(queue'))
        /\ \A i \in Added(r, queue') : queue'[i] = f
    BY <1>6, <1>8, GrowsByOne
  <2>2. /\ Grows(queue, queue')
        /\ \A i \in Added(queue, queue') :
             i \in Added(r, queue') \/ (i \in Added(queue, r) /\ queue'[i] = r[i])
    BY <1>1, <1>6, <2>1, GrowsTwice
  <2>3. QED
    BY <1>6, <2>1, <2>2
<1>9. CASE queue' = r
  BY <1>6, <1>9
<1>10. QED
  BY <1>4, <1>7, <1>8, <1>9

\* What the rest of the system sees of a step of the daemon.  A stream begins with
\* the frame that tells of it, first of all that this step sends; a reset is the
\* last word on an id; and a stream that is given up with a TCP_CLOSE_WR is one
\* whose other end was reached, or it is reset too.
Effect ==
    /\ queue' \in Seq(Frame) /\ Grows(queue, queue') /\ (Fits(queue) => Fits(queue'))
    /\ \A i \in Added(queue, queue'), id \in Ids :
         /\ queue'[i] \in {F("OPEN", id), F("BIND", id)} =>
              i = Len(queue) + 1 /\ id \in Begun
         /\ queue'[i] = F("OPEN", id) => IsTcp(id)'
         /\ queue'[i] = F("RST", id) => ~Live(id)'
    /\ \A id \in Ids :
         /\ IsTcp(id)' /\ ~IsTcp(id) =>
              id \in Begun /\ Sent("OPEN", id) /\ ~tcp'[id].remoteEnd
         /\ IsUdp(id)' /\ ~IsUdp(id) => id \in Begun
         /\ IsTcp(id) /\ ~IsTcp(id)' =>
              Sent("RST", id) \/ ~Sent("CLOSE_WR", id) \/ tcp[id].remoteEnd

EndsKept == \A id \in Ids :
    IsTcp(id) /\ IsTcp(id)' => tcp'[id].remoteEnd = tcp[id].remoteEnd

\* A step that leaves the queue alone and begins nothing.
LEMMA QuietEffect ==
    ASSUME TypeOK, UNCHANGED queue,
           \A id \in Ids : (IsTcp(id)' => IsTcp(id)) /\ (IsUdp(id)' => IsUdp(id))
    PROVE  Effect
<1>1. queue \in Seq(Frame) /\ Len(queue) \in Nat
  BY DEF TypeOK
<1>2. \A i : i \notin Len(queue) + 1 .. Len(queue)
  BY <1>1
<1>3. QED
  BY <1>1, <1>2 DEF Effect, Grows, Added, Sent

\* A step that resets stream id, or loses the frame that would.
LEMMA ResetEffect ==
    ASSUME TypeOK, TablesAgree, NEW id \in Ids, IsTcp(id), TcpFree(id),
           Offer(F("RST", id)), UNCHANGED udp
    PROVE  Effect /\ EndsKept
<1>1. F("RST", id) \in Frame
  BY RecordTypes
<1>2. /\ queue' \in Seq(Frame) /\ Grows(queue, queue') /\ (Fits(queue) => Fits(queue'))
      /\ \A i \in Added(queue, queue') : queue'[i] = F("RST", id)
  BY <1>1, GrowsByOne DEF Offer, TypeOK
<1>3. /\ ~IsTcp(id)' /\ \A j \in Ids : IsTcp(j)' => IsTcp(j)
      /\ \A j \in Ids : j # id => tcp'[j] = tcp[j]
  BY RecordTypes DEF TcpFree, TypeOK, IsTcp
<1>4. ~IsUdp(id) /\ \A j \in Ids : IsUdp(j)' = IsUdp(j)
  BY DEF TablesAgree, IsUdp
<1>5. \A j \in Ids : ~Sent("CLOSE_WR", j)
  BY <1>2, FrameParts DEF Sent, Added
<1>6. EndsKept
  BY <1>3 DEF EndsKept
<1>7. \A i \in Added(queue, queue'), j \in Ids :
        /\ queue'[i] \notin {F("OPEN", j), F("BIND", j)}
        /\ queue'[i] = F("RST", j) => ~Live(j)'
  BY <1>2, <1>3, <1>4, FrameParts DEF Live
<1>8. QED
  BY <1>2, <1>3, <1>4, <1>5, <1>6, <1>7 DEF Effect

LEMMA FreeUse ==
    ASSUME TypeOK, NEW id \in Ids, TcpFree(id)
    PROVE  /\ ~IsTcp(id)' /\ \A j \in Ids : IsTcp(j)' => IsTcp(j)
           /\ \A j \in Ids : j # id => tcp'[j] = tcp[j]
  BY RecordTypes DEF TcpFree, TypeOK, IsTcp

LEMMA AcceptEffect ==
    ASSUME TypeOK, NEW c \in Conns, Accept(c)
    PROVE  Effect /\ EndsKept
<1>1. UNCHANGED udp
  BY DEF Accept
<1>2. CASE UNCHANGED <<tcp, queue>>
  BY <1>1, <1>2, QuietEffect DEF IsTcp, IsUdp, EndsKept
<1>3. ASSUME NEW id \in Ids, Allocates(id),
             queue' \in After(queue, F("OPEN", id)) \ {queue},
             tcp' = [tcp EXCEPT ![id] = [FreeTcp EXCEPT !.conn = c]]
      PROVE  Effect /\ EndsKept
  <2> DEFINE f == F("OPEN", id)
  <2>1. f \in Frame
    BY RecordTypes
  <2>2. /\ queue' \in Seq(Frame) /\ Grows(queue, queue') /\ (Fits(queue) => Fits(queue'))
        /\ \A i \in Added(queue, queue') : i = Len(queue) + 1 /\ queue'[i] = f
        /\ queue' = Append(queue, f)
    <3>1. queue \in Seq(Frame)
      BY DEF TypeOK
    <3>2. queue' \in After(queue, f) /\ queue' # queue
      BY <1>3
    <3>3. queue' = Append(queue, f)
      BY <2>1, <3>1, <3>2, AfterIs
    <3>4. QED
      BY <2>1, <3>1, <3>2, <3>3, GrowsByOne
  <2>3. Sent("OPEN", id)
    <3>1. queue \in Seq(Frame) /\ Len(queue) \in Nat
      BY DEF TypeOK
    <3>2. Len(queue') = Len(queue) + 1 /\ queue'[Len(queue) + 1] = f
      BY <2>1, <2>2, <3>1
    <3>3. Len(queue) + 1 \in Len(queue) + 1 .. Len(queue')
      BY <3>1, <3>2
    <3>4. QED
      BY <3>2, <3>3 DEF Sent
  <2>4. ~IsTcp(id) /\ ~IsUdp(id)
    BY <1>3, AllocatesFree
  <2>5. /\ tcp'[id].conn = c /\ ~tcp'[id].remoteEnd
        /\ \A j \in Ids : j # id => tcp'[j] = tcp[j]
    BY <1>3 DEF TypeOK, FreeTcp
  <2>6. IsTcp(id)' /\ \A j \in Ids : j # id => IsTcp(j)' = IsTcp(j)
    BY <2>5, NullAssumption DEF IsTcp
  <2>7. \A j \in Ids : IsUdp(j)' = IsUdp(j)
    BY <1>1 DEF IsUdp
  <2>8. id \in Begun
    BY <2>4, <2>6 DEF Begun, Live
  <2>9. EndsKept
    BY <2>4, <2>5 DEF EndsKept
  <2>10. \A i \in Added(queue, queue'), j \in Ids :
           /\ queue'[i] \in {F("OPEN", j), F("BIND", j)} => j = id
           /\ queue'[i] # F("RST", j)
    BY <2>2, FrameParts
  <2> HIDE DEF f
  <2>11. QED
    BY <2>2, <2>3, <2>4, <2>5, <2>6, <2>7, <2>8, <2>9, <2>10 DEF Effect
<1>4. QED
  BY <1>2, <1>3 DEF Accept

LEMMA DrainEffect ==
    ASSUME TypeOK, TablesAgree, NEW id \in Ids, DrainTcp(id)
    PROVE  Effect /\ EndsKept
<1>1. /\ Grows(queue, queue') /\ queue' \in Seq(Frame) /\ (Fits(queue) => Fits(queue'))
      /\ \A i \in Added(queue, queue') :
           \/ queue'[i] = F("DATA", id)
           \/ queue'[i] = F("RST", id) /\ TcpFree(id)
           \/ queue'[i] = F("CLOSE_WR", id) /\ ReadEnd(id)
  BY DrainAdds
<1>2. /\ UNCHANGED udp /\ IsTcp(id)
      /\ \/ TcpFree(id)
         \/ tcp' = [tcp EXCEPT ![id].localEnd = TRUE]
         \/ UNCHANGED tcp
  BY DEF DrainTcp, ReadEnd, Swept, udpVars
<1>3. ~IsUdp(id) /\ \A j \in Ids : IsUdp(j)' = IsUdp(j)
  BY <1>2 DEF TablesAgree, IsUdp
<1>4. /\ \A j \in Ids : IsTcp(j)' => IsTcp(j)
      /\ \A j \in Ids : j # id => tcp'[j] = tcp[j]
      /\ IsTcp(id)' => tcp'[id].remoteEnd = tcp[id].remoteEnd
  <2>1. CASE TcpFree(id)
    BY <2>1, FreeUse
  <2>2. CASE tcp' = [tcp EXCEPT ![id].localEnd = TRUE]
    <3>1. tcp[id] \in TcpStream
      BY DEF TypeOK
    <3>2. tcp'[id].conn = tcp[id].conn /\ tcp'[id].remoteEnd = tcp[id].remoteEnd
      BY <2>2, <3>1 DEF TypeOK, TcpStream
    <3>3. \A j \in Ids : j # id => tcp'[j] = tcp[j]
      BY <2>2 DEF TypeOK
    <3>4. QED
      BY <3>2, <3>3 DEF IsTcp
  <2>3. CASE UNCHANGED tcp
    BY <2>3 DEF IsTcp
  <2>4. QED
    BY <1>2, <2>1, <2>2, <2>3
<1>5. TcpFree(id) => ~IsTcp(id)'
  BY FreeUse
<1>6. \A i \in Added(queue, queue'), j \in Ids :
        /\ queue'[i] \notin {F("OPEN", j), F("BIND", j)}
        /\ queue'[i] = F("RST", j) => j = id /\ TcpFree(id)
  BY <1>1, FrameParts
<1>7. IsTcp(id) /\ ~IsTcp(id)' =>
        Sent("RST", id) \/ ~Sent("CLOSE_WR", id) \/ tcp[id].remoteEnd
  <2> SUFFICES ASSUME ~IsTcp(id)', Sent("CLOSE_WR", id) PROVE tcp[id].remoteEnd
    OBVIOUS
  <2>1. ReadEnd(id)
    BY <1>1, FrameParts DEF Sent, Added
  <2>2. tcp[id] \in TcpStream /\ tcp \in [Ids -> TcpStream]
    BY DEF TypeOK
  <2>3. tcp' = [tcp EXCEPT ![id].localEnd = TRUE] => tcp'[id].conn = tcp[id].conn
    BY <2>2 DEF TcpStream
  <2>4. QED
    BY <1>2, <2>1, <2>3 DEF ReadEnd, IsTcp
<1>8. EndsKept
  BY <1>4 DEF EndsKept
<1>9. \A j \in Ids : j # id => IsTcp(j)' = IsTcp(j)
  BY <1>4 DEF IsTcp
<1>10. \A i \in Added(queue, queue'), j \in Ids : queue'[i] = F("RST", j) => ~Live(j)'
  BY <1>3, <1>5, <1>6 DEF Live
<1>11. QED
  BY <1>1, <1>3, <1>4, <1>6, <1>7, <1>8, <1>9, <1>10 DEF Effect

LEMMA OutboundEffect ==
    ASSUME TypeOK, NEW p \in Ports, OutboundUdp(p)
    PROVE  Effect /\ EndsKept
<1>1. UNCHANGED tcp /\ EndsKept /\ \A j \in Ids : IsTcp(j)' = IsTcp(j)
  BY DEF OutboundUdp, tcpVars, EndsKept, IsTcp
<1>2. CASE Known(p) /\ Offer(F("PACKET", udp_port_to_stream[p])) /\ UNCHANGED udpVars
  <2> DEFINE f == F("PACKET", udp_port_to_stream[p])
  <2>1. udp_port_to_stream[p] \in Ids
    BY <1>2, IdAssumption DEF Known, Ids, TypeOK
  <2>2. f \in Frame
    BY <2>1, RecordTypes
  <2>3. /\ queue' \in Seq(Frame) /\ Grows(queue, queue') /\ (Fits(queue) => Fits(queue'))
        /\ \A i \in Added(queue, queue') : queue'[i] = f
    BY <1>2, <2>2, GrowsByOne DEF Offer, TypeOK
  <2>4. \A j \in Ids : IsUdp(j)' = IsUdp(j)
    BY <1>2 DEF IsUdp, udpVars
  <2>5. \A i \in Added(queue, queue'), j \in Ids :
          queue'[i] \notin {F("OPEN", j), F("BIND", j), F("RST", j)}
    BY <2>3, FrameParts
  <2> HIDE DEF f
  <2>6. QED
    BY <1>1, <2>3, <2>4, <2>5 DEF Effect
<1>3. ASSUME NEW id \in Ids, Allocates(id), udp' = [udp EXCEPT ![id] = p],
             NEW q \in After(queue, F("BIND", id)), queue' \in After(q, F("PACKET", id))
      PROVE  Effect
  <2>1. F("BIND", id) \in Frame /\ F("PACKET", id) \in Frame /\ queue \in Seq(Frame)
    BY RecordTypes DEF TypeOK
  <2>2. /\ q \in Seq(Frame) /\ Grows(queue, q) /\ (Fits(queue) => Fits(q))
        /\ \A i \in Added(queue, q) : i = Len(queue) + 1 /\ q[i] = F("BIND", id)
    BY <2>1, GrowsByOne
  <2>3. /\ queue' \in Seq(Frame) /\ Grows(q, queue') /\ (Fits(q) => Fits(queue'))
        /\ \A i \in Added(q, queue') : queue'[i] = F("PACKET", id)
    BY <1>3, <2>1, <2>2, GrowsByOne
  <2>4. /\ Grows(queue, queue')
        /\ \A i \in Added(queue, queue') :
             i \in Added(q, queue') \/ (i \in Added(queue, q) /\ queue'[i] = q[i])
    BY <2>1, <2>2, <2>3, GrowsTwice
  <2>5. \A i \in Added(queue, queue') :
          \/ queue'[i] = F("PACKET", id)
          \/ i = Len(queue) + 1 /\ queue'[i] = F("BIND", id)
    BY <2>2, <2>3, <2>4
  <2>6. ~IsTcp(id) /\ ~IsUdp(id)
    BY <1>3, AllocatesFree
  <2>7. IsUdp(id)' /\ \A j \in Ids : j # id => IsUdp(j)' = IsUdp(j)
    BY <1>3, NullAssumption DEF IsUdp, TypeOK
  <2>8. id \in Begun
    BY <2>6, <2>7 DEF Begun, Live
  <2>9. \A i \in Added(queue, queue'), j \in Ids :
          /\ queue'[i] \in {F("OPEN", j), F("BIND", j)} => j = id /\ i = Len(queue) + 1
          /\ queue'[i] \notin {F("OPEN", j), F("RST", j)}
    BY <2>5, FrameParts
  <2>10. QED
    BY <1>1, <2>2, <2>3, <2>4, <2>7, <2>8, <2>9 DEF Effect
<1>4. CASE UNCHANGED <<udp, queue>>
  BY <1>1, <1>4, QuietEffect DEF IsUdp
<1>5. QED
  BY <1>1, <1>2, <1>3, <1>4 DEF OutboundUdp

LEMMA LocalEffect ==
    ASSUME TypeOK, TablesAgree, Local
    PROVE  Effect /\ EndsKept
<1>1. ASSUME NEW c \in Conns,
             AppConnects(c) \/ AppWrites(c) \/ AppFinishes(c) \/ AppBreaks(c)
      PROVE  Effect /\ EndsKept
  <2>1. UNCHANGED <<tcp, udp, queue>>
    BY <1>1 DEF AppConnects, AppWrites, AppFinishes, AppBreaks, udpVars
  <2>2. QED
    BY <2>1, QuietEffect DEF IsTcp, IsUdp, EndsKept
<1>2. QED
  BY <1>1, AcceptEffect, DrainEffect, OutboundEffect DEF Local

\* The same of a frame that is read: it has an effect on its own stream only.
LEMMA DispatchEffect ==
    ASSUME TypeOK, TablesAgree, NEW f \in BackFrame, Dispatch(f)
    PROVE  /\ Effect
           /\ \A id \in Ids : IsTcp(id)' => IsTcp(id)
           /\ \A id \in Ids : IsUdp(id)' => IsUdp(id)
           /\ f.type \in {"ACK_ERR", "RST"} => ~IsTcp(f.sid)'
           /\ f.type \in {"BIND_ERR", "UDP_CLOSE"} => ~IsUdp(f.sid)'
           /\ f.type = "CLOSE_WR" /\ IsTcp(f.sid)' => tcp'[f.sid].remoteEnd
           /\ \A id \in Ids : f # F("CLOSE_WR", id) /\ IsTcp(id)' =>
                                tcp'[id].remoteEnd = tcp[id].remoteEnd
<1> DEFINE id == f.sid
           Only == /\ \A j \in Ids : j # id => tcp'[j] = tcp[j]
                   /\ \A j \in Ids : IsTcp(j)' => IsTcp(j)
<1>1. id \in Ids /\ f = F(f.type, id)
  BY FrameIs
<1> HIDE DEF id
<1>2. CASE f.type \in {"ACK_OK", "ACK_ERR"}
  <2>1. PICK ok \in BOOLEAN : PeerOpenAck(id, ok) /\ (f.type = "ACK_ERR" => ~ok)
    BY <1>2 DEF Dispatch, id
  <2>2. UNCHANGED <<udp, queue>> /\ IsTcp(id)
    BY <2>1 DEF PeerOpenAck, udpVars
  <2>3. CASE ok
    <3>1. tcp[id] \in TcpStream /\ tcp \in [Ids -> TcpStream]
      BY <1>1 DEF TypeOK
    <3>2. tcp' = [tcp EXCEPT ![id].acked = TRUE]
      BY <2>1, <2>3 DEF PeerOpenAck
    <3>3. \A j \in Ids : tcp'[j].conn = tcp[j].conn /\ tcp'[j].remoteEnd = tcp[j].remoteEnd
      BY <3>1, <3>2 DEF TcpStream
    <3>4. \A j \in Ids : (IsTcp(j)' => IsTcp(j)) /\ (IsUdp(j)' => IsUdp(j))
      BY <2>2, <3>3 DEF IsTcp, IsUdp
    <3>5. QED
      BY <1>2, <2>1, <2>2, <2>3, <3>3, <3>4, QuietEffect
  <2>4. CASE ~ok
    <3>1. TcpFree(id)
      BY <2>1, <2>4 DEF PeerOpenAck
    <3>2. ~IsTcp(id)' /\ Only
      BY <1>1, <3>1, FreeUse
    <3>3. \A j \in Ids : IsUdp(j)' => IsUdp(j)
      BY <2>2 DEF IsUdp
    <3>4. QED
      BY <1>2, <2>2, <3>2, <3>3, QuietEffect DEF id
  <2>5. QED
    BY <2>3, <2>4
<1>3. CASE f.type = "DATA"
  <2>1. PeerData(id) /\ IsTcp(id) /\ UNCHANGED udp
    BY <1>3 DEF Dispatch, PeerData, id, udpVars
  <2>2. \A j \in Ids : IsUdp(j)' => IsUdp(j)
    BY <2>1 DEF IsUdp
  <2>3. CASE UNCHANGED <<tcpVars, queue>>
    <3>1. \A j \in Ids : IsTcp(j)' => IsTcp(j)
      BY <2>3 DEF IsTcp, tcpVars
    <3>2. QED
      BY <1>3, <2>2, <2>3, <3>1, QuietEffect DEF tcpVars
  <2>4. CASE Offer(F("RST", id)) /\ TcpFree(id)
    <3>1. Effect
      BY <1>1, <2>1, <2>4, ResetEffect
    <3>2. ~IsTcp(id)' /\ Only
      BY <1>1, <2>4, FreeUse
    <3>3. QED
      BY <1>3, <2>2, <3>1, <3>2
  <2>5. QED
    BY <2>1, <2>3, <2>4 DEF PeerData
<1>4. CASE f.type = "CLOSE_WR"
  <2>1. PeerCloseWr(id) /\ IsTcp(id) /\ UNCHANGED <<udp, queue>>
    BY <1>4 DEF Dispatch, PeerCloseWr, id, udpVars
  <2>2. \A j \in Ids : IsUdp(j)' => IsUdp(j)
    BY <2>1 DEF IsUdp
  <2>3. Only /\ (IsTcp(id)' => tcp'[id].remoteEnd)
    <3>1. CASE TcpFree(id)
      BY <1>1, <3>1, FreeUse
    <3>2. CASE tcp' = [tcp EXCEPT ![id].remoteEnd = TRUE]
      <4>1. tcp[id] \in TcpStream /\ tcp \in [Ids -> TcpStream]
        BY <1>1 DEF TypeOK
      <4>2. /\ tcp'[id].remoteEnd /\ tcp'[id].conn = tcp[id].conn
            /\ \A j \in Ids : j # id => tcp'[j] = tcp[j]
        BY <1>1, <3>2, <4>1 DEF TcpStream
      <4>3. QED
        BY <4>2 DEF IsTcp
    <3>3. QED
      BY <2>1, <3>1, <3>2 DEF PeerCloseWr
  <2>4. \A j \in Ids : f # F("CLOSE_WR", j) => j # id
    BY <1>1, <1>4
  <2>5. QED
    BY <1>4, <2>1, <2>2, <2>3, <2>4, QuietEffect DEF id
<1>5. CASE f.type = "RST"
  <2>1. TcpFree(id) /\ UNCHANGED <<udp, queue>>
    BY <1>5 DEF Dispatch, PeerRst, id, udpVars
  <2>2. ~IsTcp(id)' /\ Only
    BY <1>1, <2>1, FreeUse
  <2>3. \A j \in Ids : IsUdp(j)' => IsUdp(j)
    BY <2>1 DEF IsUdp
  <2>4. QED
    BY <1>5, <2>1, <2>2, <2>3, QuietEffect DEF id
<1>6. CASE f.type \in {"BIND_ERR", "UDP_CLOSE"}
  <2>1. UdpFree(id) /\ UNCHANGED <<tcp, queue>>
    BY <1>6 DEF Dispatch, PeerBindAck, PeerUdpClose, id, tcpVars
  <2>2. ~IsUdp(id)' /\ \A j \in Ids : IsUdp(j)' => IsUdp(j)
    BY <1>1, <2>1 DEF UdpFree, IsUdp, TypeOK
  <2>3. \A j \in Ids : IsTcp(j)' => IsTcp(j)
    BY <2>1 DEF IsTcp
  <2>4. QED
    BY <1>6, <2>1, <2>2, <2>3, QuietEffect DEF id
<1>7. QED
  BY <1>2, <1>3, <1>4, <1>5, <1>6 DEF Dispatch

------------------------------------------------------------------------------
(***************************************************************************)
(* What a step of the phone may do.                                        *)
(***************************************************************************)
\* A TCP stream of the phone, whatever its state.
OnTcp(id) == phone[id].at \in {"connecting", "open", "shut"}

Replies == {"ACK_OK", "ACK_ERR", "DATA", "CLOSE_WR", "RST", "BIND_OK", "BIND_ERR",
            "PACKET", "UDP_CLOSE"}

BackOK == back \in Seq(BackFrame) /\ Len(back) <= BackCap
PhoneOK == phone \in [Ids -> Stream]

\* A reply goes to the end of the other queue.
LEMMA ReplyAdds ==
    ASSUME BackOK, NEW type \in Replies, NEW id \in Ids, Reply(type, id)
    PROVE  /\ BackOK'
           /\ On(back', type, id)
           /\ \A t, j : On(back, t, j) => On(back', t, j)
           /\ \A t, j : On(back', t, j) => On(back, t, j) \/ (t = type /\ j = id)
<1>1. F(type, id) \in BackFrame /\ back \in Seq(BackFrame)
  BY DEF F, BackFrame, Replies, BackOK
<1>2. back' = Append(back, F(type, id)) /\ Len(back) < BackCap
  BY FrameParts DEF Reply
<1>3. back' \in Seq(BackFrame) /\ Len(back') = Len(back) + 1 /\ Len(back) \in Nat
  BY <1>1, <1>2
<1>4. \A t, j : On(back', t, j) <=> On(back, t, j) \/ F(type, id) = F(t, j)
  BY <1>1, <1>2, OnAppend
<1>5. \A t, j : F(type, id) = F(t, j) => t = type /\ j = id
  BY FrameParts
<1>6. QED
  BY <1>2, <1>3, <1>4, <1>5, TetherAssumption DEF BackOK

\* The phone's table after a step on stream id.
LEMMA PhoneTypes ==
    ASSUME PhoneOK, NEW id \in Ids
    PROVE  /\ Nothing \in Stream /\ Nothing.at = "none"
           /\ phone[id].at \in {"none", "connecting", "open", "shut", "udp"}
           /\ Gone(id) => /\ PhoneOK' /\ phone'[id].at = "none"
                          /\ \A j \in Ids : j # id => phone'[j] = phone[j]
           /\ \A place \in {"none", "connecting", "open", "shut", "udp"} :
                Becomes(id, place) => /\ PhoneOK' /\ phone'[id].at = place
                                      /\ \A j \in Ids : j # id => phone'[j] = phone[j]
<1>1. phone \in [Ids -> Stream] /\ phone[id] \in Stream
  BY DEF PhoneOK
<1>2. Nothing \in Stream /\ Nothing.at = "none"
  BY TetherAssumption DEF Nothing, Stream
<1>3. ASSUME NEW place \in {"none", "connecting", "open", "shut", "udp"},
             Becomes(id, place)
      PROVE  /\ PhoneOK' /\ phone'[id].at = place
             /\ \A j \in Ids : j # id => phone'[j] = phone[j]
  <2>1. [phone[id] EXCEPT !.at = place] \in Stream
        /\ [phone[id] EXCEPT !.at = place].at = place
    BY <1>1 DEF Stream
  <2>2. phone' = [phone EXCEPT ![id] = [phone[id] EXCEPT !.at = place]]
    BY <1>1, <1>3 DEF Becomes
  <2>3. QED
    BY <1>1, <2>1, <2>2 DEF PhoneOK
<1>4. phone[id].at \in {"none", "connecting", "open", "shut", "udp"}
  BY <1>1 DEF Stream
<1>5. Gone(id) => /\ PhoneOK' /\ phone'[id].at = "none"
                  /\ \A j \in Ids : j # id => phone'[j] = phone[j]
  BY <1>1, <1>2 DEF Gone, PhoneOK
<1>6. QED
  BY <1>2, <1>3, <1>4, <1>5

\* How the phone's stream and its answers may follow from a frame f that it reads.
Answers(f) ==
    /\ PhoneOK' /\ BackOK'
    /\ \A t, j : On(back, t, j) => On(back', t, j)
    /\ \A j \in Ids :
         /\ On(back', "CLOSE_WR", j) => On(back, "CLOSE_WR", j)
         /\ OnTcp(j)' => OnTcp(j) \/ f = F("OPEN", j)
         /\ OnTcp(j) => OnTcp(j)' \/ On(back', "RST", j) \/ f = F("RST", j)
         /\ f = F("OPEN", j) => OnTcp(j)' \/ On(back', "ACK_ERR", j)
         /\ f = F("RST", j) => ~OnTcp(j)'
         /\ f = F("BIND", j) => phone'[j].at = "udp" \/ On(back', "BIND_ERR", j)
         /\ phone[j].at = "udp" => phone'[j].at = "udp"

LEMMA PhoneAnswers ==
    ASSUME PhoneOK, BackOK, NEW f \in Frame,
           \/ f.type = "OPEN" /\ HandleOpen(f.sid)
           \/ f.type = "DATA" /\ HandleData(f.sid)
           \/ f.type = "CLOSE_WR" /\ HandleCloseWr(f.sid)
           \/ f.type = "RST" /\ HandleRst(f.sid)
           \/ f.type = "BIND" /\ HandleBind(f.sid)
           \/ f.type = "PACKET" /\ UNCHANGED phoneVars
    PROVE  Answers(f)
<1> DEFINE id == f.sid
<1>1. id \in Ids /\ f = F(f.type, id) /\ \A t, j : f = F(t, j) => t = f.type /\ j = id
  BY FrameIs, FrameParts
<1>2. {"ACK_ERR", "RST", "BIND_ERR", "BIND_OK"} \subseteq Replies
  BY DEF Replies
<1>3. /\ UNCHANGED phone => PhoneOK' /\ \A j \in Ids : phone'[j] = phone[j]
      /\ UNCHANGED back => BackOK' /\ \A t, j : On(back, t, j) <=> On(back', t, j)
  BY DEF PhoneOK, BackOK
<1> HIDE DEF id
<1>4. CASE f.type = "OPEN"
  <2>1. HandleOpen(id)
    BY <1>4 DEF id
  <2>2. CASE Reply("ACK_ERR", id) /\ UNCHANGED phone
    BY <1>1, <1>2, <1>3, <1>4, <2>2, ReplyAdds DEF Answers, OnTcp
  <2>3. CASE /\ ~OnPhone(id) /\ UNCHANGED back
             /\ phone' = [phone EXCEPT ![id] =
                  [at |-> "connecting", credit |-> InitialWindow]]
    <3>1. [at |-> "connecting", credit |-> InitialWindow] \in Stream
      BY TetherAssumption DEF Stream
    <3>2. /\ PhoneOK' /\ phone'[id].at = "connecting"
          /\ \A j \in Ids : j # id => phone'[j] = phone[j]
      BY <1>1, <2>3, <3>1 DEF PhoneOK
    <3>3. QED
      BY <1>1, <1>3, <1>4, <2>3, <3>2 DEF Answers, OnTcp, OnPhone
  <2>4. QED
    BY <2>1, <2>2, <2>3 DEF HandleOpen
<1>5. CASE f.type = "DATA"
  <2>1. HandleData(id)
    BY <1>5 DEF id
  <2>2. CASE phone[id].at \in {"connecting", "open", "shut"} /\ Reply("RST", id) /\ Gone(id)
    <3>1. /\ PhoneOK' /\ phone'[id].at = "none"
          /\ \A j \in Ids : j # id => phone'[j] = phone[j]
      BY <1>1, <2>2, PhoneTypes
    <3>2. QED
      BY <1>1, <1>2, <1>5, <2>2, <3>1, ReplyAdds DEF Answers, OnTcp
  <2>3. CASE UNCHANGED phoneVars
    BY <1>1, <1>3, <1>5, <2>3 DEF Answers, OnTcp, phoneVars
  <2>4. CASE Reply("RST", id) /\ UNCHANGED phone
    BY <1>1, <1>2, <1>3, <1>5, <2>4, ReplyAdds DEF Answers, OnTcp
  <2>5. QED
    BY <2>1, <2>2, <2>3, <2>4 DEF HandleData
<1>6. CASE f.type = "CLOSE_WR"
  <2>1. UNCHANGED back
        /\ (UNCHANGED phone \/ (phone[id].at = "open" /\ Becomes(id, "shut")))
    BY <1>6 DEF HandleCloseWr, id
  <2>2. CASE UNCHANGED phone
    BY <1>1, <1>3, <1>6, <2>1, <2>2 DEF Answers, OnTcp
  <2>3. CASE phone[id].at = "open" /\ Becomes(id, "shut")
    <3>1. /\ PhoneOK' /\ phone'[id].at = "shut"
          /\ \A j \in Ids : j # id => phone'[j] = phone[j]
      BY <1>1, <2>3, PhoneTypes
    <3>2. QED
      BY <1>1, <1>3, <1>6, <2>1, <2>3, <3>1 DEF Answers, OnTcp
  <2>4. QED
    BY <2>1, <2>2, <2>3
<1>7. CASE f.type = "RST"
  <2>1. UNCHANGED back
        /\ \/ phone[id].at \in {"connecting", "open", "shut"} /\ Gone(id)
           \/ phone[id].at \notin {"connecting", "open", "shut"} /\ UNCHANGED phone
    BY <1>7 DEF HandleRst, id
  <2>2. CASE phone[id].at \notin {"connecting", "open", "shut"} /\ UNCHANGED phone
    BY <1>1, <1>3, <1>7, <2>1, <2>2 DEF Answers, OnTcp
  <2>3. CASE phone[id].at \in {"connecting", "open", "shut"} /\ Gone(id)
    <3>1. /\ PhoneOK' /\ phone'[id].at = "none"
          /\ \A j \in Ids : j # id => phone'[j] = phone[j]
      BY <1>1, <2>3, PhoneTypes
    <3>2. QED
      BY <1>1, <1>3, <1>7, <2>1, <2>3, <3>1 DEF Answers, OnTcp
  <2>4. QED
    BY <2>1, <2>2, <2>3
<1>8. CASE f.type = "BIND"
  <2>1. HandleBind(id)
    BY <1>8 DEF id
  <2>2. CASE Reply("BIND_ERR", id) /\ UNCHANGED phone
    BY <1>1, <1>2, <1>3, <1>8, <2>2, ReplyAdds DEF Answers, OnTcp
  <2>3. CASE ~OnPhone(id) /\ Reply("BIND_OK", id) /\ Becomes(id, "udp")
    <3>1. /\ PhoneOK' /\ phone'[id].at = "udp"
          /\ \A j \in Ids : j # id => phone'[j] = phone[j]
      BY <1>1, <2>3, PhoneTypes
    <3>2. QED
      BY <1>1, <1>2, <1>8, <2>3, <3>1, ReplyAdds DEF Answers, OnTcp, OnPhone
  <2>4. QED
    BY <2>1, <2>2, <2>3 DEF HandleBind
<1>9. CASE f.type = "PACKET"
  BY <1>1, <1>3, <1>9 DEF Answers, OnTcp, phoneVars
<1>10. QED
  BY <1>4, <1>5, <1>6, <1>7, <1>8, <1>9

\* A stream of the phone goes with a word, and after a TCP_CLOSE_WR it is gone.
Leaves ==
    /\ PhoneOK' /\ BackOK'
    /\ \A t, j : On(back, t, j) => On(back', t, j)
    /\ \A j \in Ids :
         /\ OnTcp(j)' => OnTcp(j)
         /\ OnTcp(j) => \/ OnTcp(j)'
                        \/ \E t \in {"ACK_ERR", "RST", "CLOSE_WR"} : On(back', t, j)
         /\ On(back', "CLOSE_WR", j) => On(back, "CLOSE_WR", j) \/ ~OnTcp(j)'
         /\ On(back', "CLOSE_WR", j) => On(back, "CLOSE_WR", j) \/ OnTcp(j)
         /\ phone[j].at = "udp" => phone'[j].at = "udp" \/ On(back', "UDP_CLOSE", j)

LEMMA PhoneLeaves ==
    ASSUME PhoneOK, BackOK, NEW id \in Ids, PhoneStream(id)
    PROVE  Leaves
<1>1. {"ACK_OK", "ACK_ERR", "DATA", "CLOSE_WR", "RST", "PACKET", "UDP_CLOSE"}
        \subseteq Replies
  BY DEF Replies
<1>2. CASE PhoneConnects(id)
  <2>1. CASE Becomes(id, "open") /\ Reply("ACK_OK", id)
    <3>1. /\ PhoneOK' /\ phone'[id].at = "open"
          /\ \A j \in Ids : j # id => phone'[j] = phone[j]
      BY <2>1, PhoneTypes
    <3>2. QED
      BY <1>1, <1>2, <2>1, <3>1, ReplyAdds DEF Leaves, OnTcp, PhoneConnects
  <2>2. CASE Gone(id) /\ Reply("ACK_ERR", id)
    <3>1. /\ PhoneOK' /\ phone'[id].at = "none"
          /\ \A j \in Ids : j # id => phone'[j] = phone[j]
      BY <2>2, PhoneTypes
    <3>2. QED
      BY <1>1, <1>2, <2>2, <3>1, ReplyAdds DEF Leaves, OnTcp, PhoneConnects
  <2>3. QED
    BY <1>2, <2>1, <2>2 DEF PhoneConnects
<1>3. CASE PhoneForwards(id)
  <2>1. phone[id].at \in {"open", "shut"} /\ phone[id].credit > 0
    BY <1>3 DEF PhoneForwards, MayForward, Pumps
  <2>2. CASE phone' = [phone EXCEPT ![id].credit = @ - 1] /\ Reply("DATA", id)
    <3>1. phone \in [Ids -> Stream] /\ phone[id] \in Stream
      BY DEF PhoneOK
    <3>2. [phone[id] EXCEPT !.credit = @ - 1] \in Stream
          /\ [phone[id] EXCEPT !.credit = @ - 1].at = phone[id].at
      <4>1. phone[id].credit - 1 \in 0 .. InitialWindow
        BY <2>1, <3>1, TetherAssumption DEF Stream
      <4>2. QED
        BY <3>1, <4>1 DEF Stream
    <3>3. /\ PhoneOK' /\ phone'[id].at = phone[id].at
          /\ \A j \in Ids : j # id => phone'[j] = phone[j]
      BY <2>2, <3>1, <3>2 DEF PhoneOK
    <3>4. QED
      BY <1>1, <2>2, <3>3, ReplyAdds DEF Leaves, OnTcp
  <2>3. ASSUME NEW type \in {"CLOSE_WR", "RST"}, Gone(id), Reply(type, id)
        PROVE  Leaves
    <3>1. /\ PhoneOK' /\ phone'[id].at = "none"
          /\ \A j \in Ids : j # id => phone'[j] = phone[j]
      BY <2>3, PhoneTypes
    <3>2. type \in Replies
      BY <1>1
    <3>3. QED
      BY <2>1, <2>3, <3>1, <3>2, ReplyAdds DEF Leaves, OnTcp
  <2>4. QED
    BY <1>3, <2>2, <2>3 DEF PhoneForwards
<1>4. CASE PhoneUdp(id)
  <2>1. CASE Reply("PACKET", id) /\ UNCHANGED phone
    <3>1. PhoneOK'
      BY <2>1 DEF PhoneOK
    <3>2. QED
      BY <1>1, <2>1, <3>1, ReplyAdds DEF Leaves, OnTcp
  <2>2. CASE Gone(id) /\ Reply("UDP_CLOSE", id)
    <3>1. /\ PhoneOK' /\ phone'[id].at = "none"
          /\ \A j \in Ids : j # id => phone'[j] = phone[j]
      BY <2>2, PhoneTypes
    <3>2. QED
      BY <1>1, <1>4, <2>2, <3>1, ReplyAdds DEF Leaves, OnTcp, PhoneUdp
  <2>3. QED
    BY <1>4, <2>1, <2>2 DEF PhoneUdp
<1>5. QED
  BY <1>2, <1>3, <1>4 DEF PhoneStream

------------------------------------------------------------------------------
(***************************************************************************)
(* The types of the whole.                                                 *)
(***************************************************************************)
Whole == TetherTypeOK /\ TablesAgree

\* What is at the head of the two queues.
LEMMA Heads ==
    ASSUME TetherTypeOK
    PROVE  /\ queue \in Seq(Frame) /\ back \in Seq(BackFrame) /\ PhoneOK /\ BackOK
           /\ Carries /\ TypeOK
           /\ queue # <<>> => /\ Head(queue) \in Frame /\ Tail(queue) \in Seq(Frame)
                              /\ Len(Tail(queue)) <= Len(queue)
           /\ back # <<>> => /\ Head(back) \in BackFrame /\ Tail(back) \in Seq(BackFrame)
                             /\ Len(Tail(back)) <= Len(back)
<1>1. queue \in Seq(Frame) /\ back \in Seq(BackFrame)
  BY DEF TetherTypeOK, TypeOK
<1>2. PhoneOK /\ BackOK /\ Carries /\ TypeOK
  BY DEF TetherTypeOK, PhoneOK, BackOK, Carries
<1>3. queue # <<>> => Len(Tail(queue)) <= Len(queue)
  BY <1>1
<1>4. back # <<>> => Len(Tail(back)) <= Len(back)
  BY <1>1
<1>5. QED
  BY <1>1, <1>2, <1>3, <1>4, HeadAndTail

\* A frame that is read is acted upon or has no stream to act upon.
LEMMA ReadsOne ==
    ASSUME Whole, DaemonReads
    PROVE  /\ Effect
           /\ \A id \in Ids : (IsTcp(id)' => IsTcp(id)) /\ (IsUdp(id)' => IsUdp(id))
           /\ \A id \in Ids, type \in {"ACK_ERR", "RST"} :
                Head(back) = F(type, id) => ~IsTcp(id)'
           /\ \A id \in Ids, type \in {"BIND_ERR", "UDP_CLOSE"} :
                Head(back) = F(type, id) => ~IsUdp(id)'
           /\ \A id \in Ids :
                /\ Head(back) = F("CLOSE_WR", id) /\ IsTcp(id)' => tcp'[id].remoteEnd
                /\ Head(back) # F("CLOSE_WR", id) /\ IsTcp(id)' =>
                     tcp'[id].remoteEnd = tcp[id].remoteEnd
<1> DEFINE f == Head(back)
<1>1. f \in BackFrame /\ TypeOK /\ TablesAgree
  BY Heads DEF DaemonReads, Whole
<1>2. \A t, j : f = F(t, j) => f.type = t /\ f.sid = j
  BY FrameParts
<1>3. CASE Dispatch(f)
  BY <1>1, <1>2, <1>3, DispatchEffect
<1>4. CASE Ignored(f) /\ UNCHANGED divertVars
  <2>1. /\ f.type \in {"ACK_ERR", "RST", "CLOSE_WR"} => ~IsTcp(f.sid)
        /\ f.type \in {"BIND_ERR", "UDP_CLOSE"} => ~IsUdp(f.sid)
    BY <1>4 DEF Ignored
  <2>2. \A id \in Ids : IsTcp(id)' = IsTcp(id) /\ IsUdp(id)' = IsUdp(id)
                          /\ tcp'[id] = tcp[id]
    BY <1>4 DEF divertVars, IsTcp, IsUdp
  <2>3. Effect
    BY <1>1, <1>4, <2>2, QuietEffect DEF divertVars
  <2>4. QED
    BY <1>2, <2>1, <2>2, <2>3
<1>5. QED
  BY <1>3, <1>4 DEF DaemonReads

LEMMA WitnessTypes ==
    ASSUME TetherTypeOK, Witness
    PROVE  /\ stale' \subseteq Ids /\ unopened' \subseteq Ids
           /\ unbound' \subseteq Ids /\ untold' \subseteq Ids
  BY DEF TetherTypeOK, Witness, Begun

LEMMA WholeStep == Whole /\ [TetherNext]_tetherVars => Whole'
<1> SUFFICES ASSUME Whole, [TetherNext]_tetherVars PROVE Whole'
  OBVIOUS
<1>1. TetherTypeOK /\ TablesAgree /\ TypeOK /\ Carries /\ BackOK /\ PhoneOK
      /\ queue \in Seq(Frame) /\ Fits(queue)
  BY Heads DEF Whole, TetherTypeOK, Fits
<1>2. TypeOK' /\ TablesAgree'
  BY <1>1, TetherStep, TypeStep, TablesStep
<1> DEFINE Counted == /\ losses' \in 0 .. MaxLosses
                      /\ made' \in 0 .. MaxConnects
           Told == /\ stale' \subseteq Ids /\ unopened' \subseteq Ids
                   /\ unbound' \subseteq Ids /\ untold' \subseteq Ids
<1>3. /\ UNCHANGED losses => losses' \in 0 .. MaxLosses
      /\ UNCHANGED made => made' \in 0 .. MaxConnects
      /\ UNCHANGED histories => Told
      /\ UNCHANGED phone => PhoneOK'
      /\ UNCHANGED back => BackOK'
      /\ UNCHANGED queue => Fits(queue')
  BY <1>1 DEF TetherTypeOK, PhoneOK, BackOK, histories
<1>4. CASE Daemon
  <2>1. Fits(queue')
    BY <1>1, <1>4, LocalEffect DEF Daemon, Effect
  <2>2. Told
    BY <1>1, <1>4, WitnessTypes DEF Daemon, Aside
  <2>3. made' \in 0 .. MaxConnects
    BY <1>1, <1>4, TetherAssumption DEF Daemon, Made, TetherTypeOK
  <2>4. UNCHANGED <<phone, back, losses>>
    BY <1>4 DEF Daemon, Aside, phoneVars
  <2>5. QED
    BY <1>1, <1>2, <1>3, <2>1, <2>2, <2>3, <2>4
       DEF TetherTypeOK, Whole, PhoneOK, BackOK, Fits
<1>5. CASE DaemonReads
  <2>1. Fits(queue')
    BY <1>1, <1>5, ReadsOne DEF Effect
  <2>2. Told
    BY <1>1, <1>5, WitnessTypes DEF DaemonReads
  <2>3. BackOK'
    <3>1. /\ back' \in Seq(BackFrame) /\ Len(back') <= Len(back) /\ Len(back) <= BackCap
          /\ back \in Seq(BackFrame)
      BY <1>1, <1>5, Heads DEF DaemonReads, BackOK
    <3>2. Len(back') \in Nat /\ Len(back) \in Nat
      BY <3>1
    <3>3. QED
      BY <3>1, <3>2, TetherAssumption DEF BackOK
  <2>4. UNCHANGED <<phone, losses, made>>
    BY <1>5 DEF DaemonReads
  <2>5. QED
    BY <1>1, <1>2, <1>3, <2>1, <2>2, <2>3, <2>4
       DEF TetherTypeOK, Whole, PhoneOK, BackOK, Fits
<1>6. CASE PhoneReads
  <2>1. PhoneOK' /\ BackOK'
    BY <1>1, <1>6, Heads, PhoneAnswers DEF PhoneReads, Transmit, Answers
  <2>2. Fits(queue')
    <3>1. /\ queue' \in Seq(Frame) /\ Len(queue') <= Len(queue) /\ Len(queue) <= QueueCap
      BY <1>1, <1>6, Heads DEF PhoneReads, Transmit, Fits
    <3>2. Len(queue') \in Nat /\ Len(queue) \in Nat
      BY <1>1, <3>1
    <3>3. QED
      BY <3>1, <3>2, BoundAssumption DEF Fits
  <2>3. UNCHANGED <<losses, made, histories>>
    BY <1>6 DEF PhoneReads
  <2>4. QED
    BY <1>2, <1>3, <2>1, <2>2, <2>3 DEF TetherTypeOK, Whole, PhoneOK, BackOK, Fits
<1>7. ASSUME NEW id \in Ids, PhoneStream(id) PROVE Whole'
  <2>1. PhoneOK' /\ BackOK'
    BY <1>1, <1>7, PhoneLeaves DEF Leaves
  <2>2. UNCHANGED <<queue, losses, made, histories>>
    BY <1>7 DEF PhoneStream, daemonVars, divertVars
  <2>3. QED
    BY <1>2, <1>3, <2>1, <2>2 DEF TetherTypeOK, Whole, PhoneOK, BackOK, Fits
<1>8. CASE ChannelUp \/ UNCHANGED tetherVars
  <2>1. UNCHANGED <<queue, phone, back, losses, made, histories>>
    BY <1>8 DEF ChannelUp, ChannelOpened, tetherVars, divertVars, phoneVars
  <2>2. QED
    BY <1>2, <1>3, <2>1 DEF TetherTypeOK, Whole, PhoneOK, BackOK, Fits
<1>9. CASE Cut
  <2>1. queue' = <<>> /\ back' = <<>> /\ losses' = losses + 1 /\ losses < MaxLosses
        /\ phone' = [id \in Ids |-> Nothing] /\ stale' = {id \in Ids : Live(id)}
        /\ UNCHANGED <<made, unopened, unbound, untold>>
    BY <1>9 DEF Cut, ChannelClosed
  <2>2. <<>> \in Seq(BackFrame) /\ Len(<<>>) = 0
    OBVIOUS
  <2>3. Nothing \in Stream
    BY TetherAssumption DEF Nothing, Stream
  <2>4. losses' \in 0 .. MaxLosses
    BY <1>1, <2>1, TetherAssumption DEF TetherTypeOK
  <2>5. QED
    BY <1>1, <1>2, <2>1, <2>2, <2>3, <2>4, TetherAssumption, BoundAssumption
       DEF TetherTypeOK, Whole
<1>10. CASE Dropped
  <2>1. queue # <<>> /\ queue' = Tail(queue) /\ losses' = losses + 1 /\ losses < MaxLosses
        /\ UNCHANGED <<phone, back, made>>
    BY <1>10 DEF Dropped, Transmit, phoneVars
  <2>2. Fits(queue')
    <3>1. queue' \in Seq(Frame) /\ Len(queue') <= Len(queue) /\ Len(queue) <= QueueCap
      BY <1>1, <2>1, Heads DEF Fits
    <3>2. Len(queue') \in Nat /\ Len(queue) \in Nat
      BY <1>1, <3>1
    <3>3. QED
      BY <3>1, <3>2, BoundAssumption DEF Fits
  <2>3. Told
    BY <1>1, <1>10 DEF Dropped, TetherTypeOK
  <2>4. losses' \in 0 .. MaxLosses
    BY <1>1, <2>1, TetherAssumption DEF TetherTypeOK
  <2>5. QED
    BY <1>1, <1>2, <1>3, <2>1, <2>2, <2>3, <2>4
       DEF TetherTypeOK, Whole, PhoneOK, BackOK, Fits
<1>11. QED
  BY <1>4, <1>5, <1>6, <1>7, <1>8, <1>9, <1>10 DEF TetherNext

LEMMA WholeInit == TetherInit => Whole
<1> SUFFICES ASSUME TetherInit PROVE Whole
  OBVIOUS
<1>1. TypeOK
  BY CarriesInit DEF Carries
<1>2. <<>> \in Seq(BackFrame) /\ Len(<<>>) = 0
  OBVIOUS
<1>3. Nothing \in Stream
  BY TetherAssumption DEF Nothing, Stream
<1>4. TablesAgree
  BY RecordTypes DEF TetherInit, Init, TablesAgree, IsTcp, IsUdp
<1>5. queue = <<>>
  BY DEF TetherInit, Init
<1>6. QED
  BY <1>1, <1>2, <1>3, <1>4, <1>5, TetherAssumption, BoundAssumption
     DEF TetherInit, TetherTypeOK, Whole

\* The whole is of its type: neither queue grows beyond its room, and the history
\* speaks of stream ids only.
THEOREM TetherTypeCorrect == TetherSpec => []TetherTypeOK
<1>1. Whole => TetherTypeOK
  BY DEF Whole
<1>2. QED
  BY <1>1, WholeInit, WholeStep, PTL DEF TetherSpec

------------------------------------------------------------------------------
(***************************************************************************)
(* The frames in flight.  None of the three properties is inductive: they  *)
(* speak of a moment when nothing is on its way, and what a stream then    *)
(* is depends on the frames that were.                                     *)
(***************************************************************************)
\* The phone has a TCP stream under this id, or is about to have one.
Held(id) == OnTcp(id) \/ On(queue, "OPEN", id)

\* The frame that begins a stream is the first of its id.
OpensFirst ==
    \A i, j \in 1 .. Len(queue), id \in Ids :
        queue[i] \in {F("OPEN", id), F("BIND", id)} /\ queue[j].sid = id => i <= j

\* An id that is being reset is not in use.
ResetIsLast == \A id \in Ids : On(queue, "RST", id) => ~Live(id)

\* A stream of the daemon is served, is about to be, or is about to be told why not,
\* unless the frame that begins it was dropped.
TcpServed ==
    \A id \in Ids : IsTcp(id) /\ id \notin stale \cup unopened =>
        \/ Held(id) \/ tcp[id].remoteEnd
        \/ \E type \in {"ACK_ERR", "RST", "CLOSE_WR"} : On(back, type, id)

\* A stream of the phone is the daemon's, is about to be reset, or was given up
\* without a word that arrives.
Owned ==
    \A id \in Ids : Held(id) => IsTcp(id) \/ id \in untold \/ On(queue, "RST", id)

\* Once the phone has ended a stream it has none under this id, unless it is one
\* the daemon gave up before.
EndIsLast ==
    \A id \in Ids :
        ((IsTcp(id) /\ tcp[id].remoteEnd) \/ On(back, "CLOSE_WR", id)) /\ Held(id)
            => id \in untold

\* An id that is opened while the phone still has it is such a one too.
OpenedTwice == \A id \in Ids : On(queue, "OPEN", id) /\ OnTcp(id) => id \in untold

\* A UDP stream of the daemon is with the phone, on its way to it, or on its way
\* to its end.
UdpServed ==
    \A id \in Ids : IsUdp(id) /\ id \notin unbound \cup stale =>
        \/ On(queue, "BIND", id) \/ phone[id].at = "udp"
        \/ \E type \in {"BIND_ERR", "UDP_CLOSE"} : On(back, type, id)

FlightInv ==
    /\ Whole
    /\ OpensFirst /\ ResetIsLast
    /\ TcpServed /\ Owned /\ EndIsLast /\ OpenedTwice
    /\ UdpServed

\* A frame in either queue is in flight.
LEMMA OnFlies ==
    ASSUME NEW id, NEW type
    PROVE  On(queue, type, id) \/ On(back, type, id) => InFlight(id)
  BY FrameParts DEF On, InFlight

LEMMA HeldFlies ==
    ASSUME NEW id
    PROVE  Held(id) => OnPhone(id) \/ InFlight(id)
  BY OnFlies DEF Held, OnTcp, OnPhone

\* After a step of the daemon the queue holds what it held and what was sent.
LEMMA OnSent ==
    ASSUME TypeOK, Effect, NEW type, NEW id
    PROVE  On(queue', type, id) <=> On(queue, type, id) \/ Sent(type, id)
<1>1. queue \in Seq(Frame) /\ queue' \in Seq(Frame) /\ Len(queue) <= Len(queue')
      /\ \A i \in 1 .. Len(queue) : queue'[i] = queue[i]
  BY DEF TypeOK, Effect, Grows
<1>2. Len(queue) \in Nat /\ Len(queue') \in Nat
  BY <1>1
<1>3. /\ \A i \in 1 .. Len(queue') : i \in 1 .. Len(queue) \/ i \in Len(queue) + 1 .. Len(queue')
      /\ \A i \in 1 .. Len(queue) : i \in 1 .. Len(queue')
      /\ \A i \in Len(queue) + 1 .. Len(queue') : i \in 1 .. Len(queue')
  BY <1>1, <1>2
<1>4. QED
  BY <1>1, <1>3 DEF On, Sent

\* What the invariant needs to know of a step of the daemon, be it of its own or
\* for a frame it reads.
DaemonEffect ==
    /\ Effect /\ Witness /\ UNCHANGED phone
    /\ \A id \in Begun : ~InFlight(id)
    /\ \A type, id : On(back', type, id) => On(back, type, id)
    /\ \A id \in Ids :
         /\ IsTcp(id) /\ IsTcp(id)' /\ tcp'[id].remoteEnd =>
              tcp[id].remoteEnd \/ On(back, "CLOSE_WR", id)
         /\ IsTcp(id) /\ IsTcp(id)' /\ tcp[id].remoteEnd => tcp'[id].remoteEnd
         /\ \A type \in {"ACK_ERR", "RST"} :
              On(back, type, id) /\ IsTcp(id)' => On(back', type, id)
         /\ On(back, "CLOSE_WR", id) /\ IsTcp(id)' =>
              On(back', "CLOSE_WR", id) \/ tcp'[id].remoteEnd
         /\ \A type \in {"BIND_ERR", "UDP_CLOSE"} :
              On(back, type, id) /\ IsUdp(id)' => On(back', type, id)

LEMMA DaemonActs ==
    ASSUME Whole, Daemon \/ DaemonReads
    PROVE  DaemonEffect
<1>1. TypeOK /\ TablesAgree /\ TetherTypeOK
  BY DEF Whole, TetherTypeOK
<1>2. CASE Daemon
  <2>1. Effect /\ EndsKept /\ Witness /\ UNCHANGED <<phone, back>>
    BY <1>1, <1>2, LocalEffect DEF Daemon, Aside, phoneVars
  <2>2. \A id \in Begun : ~InFlight(id)
    BY <1>2 DEF Daemon, Spaced
  <2>3. QED
    BY <2>1, <2>2 DEF DaemonEffect, EndsKept
<1>3. CASE DaemonReads
  <2>1. back # <<>> /\ back' = Tail(back) /\ Witness /\ UNCHANGED phone
        /\ back \in Seq(BackFrame)
    BY <1>1, <1>3, Heads DEF DaemonReads
  <2>2. \A type, id : /\ On(back', type, id) => On(back, type, id)
                      /\ On(back, type, id) => \/ On(back', type, id)
                                               \/ Head(back) = F(type, id)
                      /\ Head(back) = F(type, id) => On(back, type, id)
    BY <2>1, OnTail
  <2>3. Effect
    BY <1>3, ReadsOne
  <2>4. \A id : id \notin Begun
    BY <1>3, ReadsOne DEF Begun, Live
  <2>5. \A id \in Ids :
          /\ Head(back) = F("CLOSE_WR", id) /\ IsTcp(id)' => tcp'[id].remoteEnd
          /\ Head(back) # F("CLOSE_WR", id) /\ IsTcp(id)' =>
               tcp'[id].remoteEnd = tcp[id].remoteEnd
    BY <1>3, ReadsOne
  <2>6. \A id \in Ids, type \in {"ACK_ERR", "RST"} :
          Head(back) = F(type, id) => ~IsTcp(id)'
    BY <1>3, ReadsOne
  <2>7. \A id \in Ids, type \in {"BIND_ERR", "UDP_CLOSE"} :
          Head(back) = F(type, id) => ~IsUdp(id)'
    BY <1>3, ReadsOne
  <2>8. QED
    BY <2>1, <2>2, <2>3, <2>4, <2>5, <2>6, <2>7 DEF DaemonEffect
<1>4. QED
  BY <1>2, <1>3

\* A stream that was told of keeps its place in the histories.
LEMMA HistoryKept ==
    ASSUME Whole, DaemonEffect, NEW id \in Ids
    PROVE  /\ Live(id)' /\ id \notin stale' => id \notin stale
           /\ IsTcp(id)' /\ id \notin unopened' => id \notin unopened
           /\ IsUdp(id)' /\ id \notin unbound' => id \notin unbound
           /\ IsUdp(id)' /\ id \notin unbound' /\ id \in Begun => Sent("BIND", id)
           /\ id \in untold /\ (OnPhone(id) \/ InFlight(id)) => id \in untold'
           /\ IsTcp(id) /\ ~IsTcp(id)' /\ ~Sent("RST", id) /\ ~Sent("CLOSE_WR", id)
                => id \in untold'
  BY DEF DaemonEffect, Witness

\* The phone's step on the frame at the head of the queue.
LEMMA PhoneActs ==
    ASSUME Whole, PhoneReads
    PROVE  /\ Head(queue) \in Frame /\ Answers(Head(queue))
           /\ queue # <<>> /\ queue' = Tail(queue) /\ queue \in Seq(Frame)
           /\ UNCHANGED <<tcp, udp, stale, unopened, unbound, untold>>
           /\ \A type, id : /\ On(queue', type, id) => On(queue, type, id)
                            /\ On(queue, type, id) => \/ On(queue', type, id)
                                                      \/ Head(queue) = F(type, id)
                            /\ Head(queue) = F(type, id) => On(queue, type, id)
<1>1. /\ queue # <<>> /\ queue' = Tail(queue)
      /\ UNCHANGED <<tcp, udp, stale, unopened, unbound, untold>>
  BY DEF PhoneReads, Transmit, tcpVars, udpVars, histories
<1>2. queue \in Seq(Frame) /\ Head(queue) \in Frame /\ PhoneOK /\ BackOK
  BY <1>1, Heads DEF Whole
<1>3. Answers(Head(queue))
  BY <1>2, PhoneAnswers DEF PhoneReads
<1>4. QED
  BY <1>1, <1>2, <1>3, OnTail

\* The drain's step on a frame that it drops.
LEMMA DropActs ==
    ASSUME Whole, Dropped
    PROVE  /\ queue # <<>> /\ queue' = Tail(queue) /\ queue \in Seq(Frame)
           /\ UNCHANGED <<tcp, udp, phone, back, stale>>
           /\ \A id \in Ids :
                /\ id \in unopened => id \in unopened'
                /\ id \in unbound => id \in unbound'
                /\ id \in untold => id \in untold'
                /\ Head(queue) = F("OPEN", id) /\ IsTcp(id) => id \in unopened'
                /\ Head(queue) = F("BIND", id) /\ IsUdp(id) => id \in unbound'
                /\ Head(queue) = F("RST", id) => id \in untold'
           /\ \A type, id : /\ On(queue', type, id) => On(queue, type, id)
                            /\ On(queue, type, id) => \/ On(queue', type, id)
                                                      \/ Head(queue) = F(type, id)
<1>1. /\ queue # <<>> /\ queue' = Tail(queue)
      /\ UNCHANGED <<tcp, udp, phone, back, stale>>
  BY DEF Dropped, Transmit, tcpVars, udpVars, phoneVars
<1>2. queue \in Seq(Frame)
  BY Heads DEF Whole
<1>3. \A id \in Ids :
        /\ id \in unopened => id \in unopened'
        /\ id \in unbound => id \in unbound'
        /\ id \in untold => id \in untold'
        /\ Head(queue) = F("OPEN", id) /\ IsTcp(id) => id \in unopened'
        /\ Head(queue) = F("BIND", id) /\ IsUdp(id) => id \in unbound'
        /\ Head(queue) = F("RST", id) => id \in untold'
  BY DEF Dropped
<1>4. QED
  BY <1>1, <1>2, <1>3, OnTail

\* What leaves the queue was the first of its id, so no stream of it begins later.
LEMMA HeadIsFirst ==
    ASSUME OpensFirst, NEW id \in Ids, queue \in Seq(Frame), queue # <<>>,
           Head(queue).sid = id
    PROVE  ~On(Tail(queue), "OPEN", id)
<1> SUFFICES ASSUME On(Tail(queue), "OPEN", id) PROVE FALSE
  OBVIOUS
<1>1. PICK i \in 1 .. Len(Tail(queue)) : Tail(queue)[i] = F("OPEN", id)
  BY DEF On
<1>2. i + 1 \in 1 .. Len(queue) /\ queue[i + 1] = F("OPEN", id) /\ 1 \in 1 .. Len(queue)
      /\ queue[1].sid = id /\ ~(i + 1 <= 1)
  BY <1>1
<1>3. QED
  BY <1>2 DEF OpensFirst

LEMMA OpensFirstStep == FlightInv /\ [TetherNext]_tetherVars => OpensFirst'
<1> SUFFICES ASSUME FlightInv, [TetherNext]_tetherVars PROVE OpensFirst'
  OBVIOUS
<1>1. Whole /\ OpensFirst /\ queue \in Seq(Frame) /\ Len(queue) \in Nat
  BY DEF FlightInv, Whole, TetherTypeOK, TypeOK
<1>2. CASE Daemon \/ DaemonReads
  <2>1. DaemonEffect
    BY <1>1, <1>2, DaemonActs
  <2>2. /\ queue' \in Seq(Frame) /\ Len(queue') \in Nat
        /\ \A i \in 1 .. Len(queue) : queue'[i] = queue[i]
        /\ \A i \in Len(queue) + 1 .. Len(queue'), id \in Ids :
             queue'[i] \in {F("OPEN", id), F("BIND", id)} => i = Len(queue) + 1 /\ id \in Begun
    BY <2>1 DEF DaemonEffect, Effect, Grows, Added
  <2>3. ASSUME NEW i \in 1 .. Len(queue'), NEW j \in 1 .. Len(queue'), NEW id \in Ids,
               queue'[i] \in {F("OPEN", id), F("BIND", id)}, queue'[j].sid = id
        PROVE  i <= j
    <3>1. CASE i \in 1 .. Len(queue) /\ j \in 1 .. Len(queue)
      BY <1>1, <2>2, <2>3, <3>1 DEF OpensFirst
    <3>2. CASE i \in 1 .. Len(queue) /\ j \notin 1 .. Len(queue)
      BY <1>1, <2>2, <3>2
    <3>3. CASE i \notin 1 .. Len(queue)
      <4>1. i = Len(queue) + 1 /\ id \in Begun
        <5>1. i \in Len(queue) + 1 .. Len(queue')
          BY <1>1, <2>2, <3>3
        <5>2. QED
          BY <2>2, <2>3, <5>1
      <4>2. j \notin 1 .. Len(queue)
        BY <2>1, <2>2, <2>3, <4>1 DEF DaemonEffect, InFlight
      <4>3. QED
        BY <1>1, <2>2, <4>1, <4>2
    <3>4. QED
      BY <3>1, <3>2, <3>3
  <2>4. QED
    BY <2>3 DEF OpensFirst
<1>3. CASE PhoneReads \/ Dropped
  <2>1. queue # <<>> /\ queue' = Tail(queue)
    BY <1>1, <1>3, PhoneActs, DropActs
  <2>2. \A i \in 1 .. Len(queue') : i + 1 \in 1 .. Len(queue) /\ queue'[i] = queue[i + 1]
    BY <1>1, <2>1
  <2>3. ASSUME NEW i \in 1 .. Len(queue'), NEW j \in 1 .. Len(queue'), NEW id \in Ids,
               queue'[i] \in {F("OPEN", id), F("BIND", id)}, queue'[j].sid = id
        PROVE  i <= j
    <3>1. i + 1 <= j + 1
      BY <1>1, <2>2, <2>3 DEF OpensFirst
    <3>2. QED
      BY <3>1
  <2>4. QED
    BY <2>3 DEF OpensFirst
<1>4. CASE Cut
  <2>1. queue' = <<>>
    BY <1>4 DEF Cut, ChannelClosed
  <2>2. QED
    BY <2>1 DEF OpensFirst
<1>5. CASE UNCHANGED queue
  BY <1>1, <1>5 DEF OpensFirst
<1>6. QED
  BY <1>2, <1>3, <1>4, <1>5
     DEF TetherNext, PhoneStream, ChannelUp, ChannelOpened, daemonVars, divertVars, tetherVars

LEMMA ResetIsLastStep == FlightInv /\ [TetherNext]_tetherVars => ResetIsLast'
<1> SUFFICES ASSUME FlightInv, [TetherNext]_tetherVars, NEW id \in Ids,
                    On(queue', "RST", id)
             PROVE  ~Live(id)'
  BY DEF ResetIsLast, Live, IsTcp, IsUdp
<1>1. Whole /\ ResetIsLast /\ TypeOK
  BY DEF FlightInv, Whole, TetherTypeOK
<1>2. CASE Daemon \/ DaemonReads
  <2>1. DaemonEffect /\ Effect
    BY <1>1, <1>2, DaemonActs DEF DaemonEffect
  <2>2. CASE Sent("RST", id)
    BY <2>1, <2>2 DEF Effect, Sent, Added
  <2>3. CASE On(queue, "RST", id)
    <3>1. ~Live(id) /\ InFlight(id)
      BY <1>1, <2>3, OnFlies DEF ResetIsLast
    <3>2. id \notin Begun
      BY <2>1, <3>1 DEF DaemonEffect
    <3>3. QED
      BY <3>1, <3>2 DEF Begun
  <2>4. QED
    BY <1>1, <2>1, <2>2, <2>3, OnSent
<1>3. CASE PhoneReads \/ Dropped
  <2>1. On(queue, "RST", id) /\ UNCHANGED <<tcp, udp>>
    BY <1>1, <1>3, PhoneActs, DropActs
  <2>2. QED
    BY <1>1, <2>1 DEF ResetIsLast, Live, IsTcp, IsUdp
<1>4. CASE Cut
  <2>1. queue' = <<>>
    BY <1>4 DEF Cut, ChannelClosed
  <2>2. QED
    BY <2>1, OnEmpty
<1>5. CASE UNCHANGED <<queue, tcp, udp>>
  BY <1>1, <1>5 DEF ResetIsLast, Live, IsTcp, IsUdp
<1>6. QED
  BY <1>2, <1>3, <1>4, <1>5
     DEF TetherNext, PhoneStream, ChannelUp, ChannelOpened, daemonVars, divertVars,
         tetherVars, tcpVars, udpVars

LEMMA TcpServedStep == FlightInv /\ [TetherNext]_tetherVars => TcpServed'
<1> SUFFICES ASSUME FlightInv, [TetherNext]_tetherVars, NEW id \in Ids,
                    IsTcp(id)', id \notin stale', id \notin unopened'
             PROVE  \/ Held(id)' \/ tcp'[id].remoteEnd
                    \/ \E type \in {"ACK_ERR", "RST", "CLOSE_WR"} : On(back', type, id)
  BY DEF TcpServed, IsTcp
<1>1. Whole /\ TcpServed /\ ResetIsLast /\ TypeOK
  BY DEF FlightInv, Whole, TetherTypeOK
<1>2. CASE Daemon \/ DaemonReads
  <2>1. DaemonEffect /\ Effect /\ UNCHANGED phone
    BY <1>1, <1>2, DaemonActs DEF DaemonEffect
  <2>2. OnTcp(id)' = OnTcp(id)
    BY <2>1 DEF OnTcp
  <2>3. id \notin stale /\ id \notin unopened
    BY <1>1, <2>1, HistoryKept DEF Live
  <2>4. CASE ~IsTcp(id)
    <3>1. Sent("OPEN", id)
      BY <2>1, <2>4 DEF Effect
    <3>2. QED
      BY <1>1, <2>1, <3>1, OnSent DEF Held
  <2>5. CASE IsTcp(id)
    <3>1. \/ OnTcp(id) \/ On(queue, "OPEN", id) \/ tcp[id].remoteEnd
          \/ \E type \in {"ACK_ERR", "RST"} : On(back, type, id)
          \/ On(back, "CLOSE_WR", id)
      BY <1>1, <2>3, <2>5 DEF TcpServed, Held
    <3>2. On(queue, "OPEN", id) => On(queue', "OPEN", id)
      BY <1>1, <2>1, OnSent
    <3>3. tcp[id].remoteEnd => tcp'[id].remoteEnd
      BY <2>1, <2>5 DEF DaemonEffect
    <3>4. \A type \in {"ACK_ERR", "RST"} : On(back, type, id) => On(back', type, id)
      BY <2>1 DEF DaemonEffect
    <3>5. On(back, "CLOSE_WR", id) => On(back', "CLOSE_WR", id) \/ tcp'[id].remoteEnd
      BY <2>1 DEF DaemonEffect
    <3>6. QED
      BY <2>2, <3>1, <3>2, <3>3, <3>4, <3>5 DEF Held
  <2>6. QED
    BY <2>4, <2>5
<1>3. ASSUME UNCHANGED <<tcp, stale>>, id \notin unopened
      PROVE  /\ IsTcp(id) /\ tcp'[id] = tcp[id]
             /\ \/ OnTcp(id) \/ On(queue, "OPEN", id) \/ tcp[id].remoteEnd
                \/ \E type \in {"ACK_ERR", "RST", "CLOSE_WR"} : On(back, type, id)
  <2>1. IsTcp(id) /\ tcp'[id] = tcp[id]
    BY <1>3 DEF IsTcp
  <2>2. QED
    BY <1>1, <1>3, <2>1 DEF TcpServed, Held
<1>4. CASE PhoneReads
  <2>1. /\ Answers(Head(queue)) /\ UNCHANGED <<tcp, stale, unopened>>
        /\ \A type : /\ On(queue, type, id) =>
                          On(queue', type, id) \/ Head(queue) = F(type, id)
                     /\ Head(queue) = F(type, id) => On(queue, type, id)
    BY <1>1, <1>4, PhoneActs
  <2>2. Head(queue) # F("RST", id)
    BY <1>1, <1>3, <2>1 DEF ResetIsLast, Live
  <2>3. /\ OnTcp(id) => OnTcp(id)' \/ On(back', "RST", id)
        /\ Head(queue) = F("OPEN", id) => OnTcp(id)' \/ On(back', "ACK_ERR", id)
        /\ \A type : On(back, type, id) => On(back', type, id)
    BY <2>1, <2>2 DEF Answers
  <2>4. QED
    BY <1>3, <2>1, <2>3 DEF Held
<1>5. ASSUME NEW j \in Ids, PhoneStream(j)
      PROVE  \/ Held(id)' \/ tcp'[id].remoteEnd
             \/ \E type \in {"ACK_ERR", "RST", "CLOSE_WR"} : On(back', type, id)
  <2>1. Leaves /\ UNCHANGED <<tcp, stale, unopened, queue>>
    BY <1>1, <1>5, PhoneLeaves, Heads
       DEF Whole, PhoneStream, daemonVars, divertVars, histories
  <2>2. /\ OnTcp(id) => \/ OnTcp(id)'
                        \/ \E type \in {"ACK_ERR", "RST", "CLOSE_WR"} : On(back', type, id)
        /\ \A type : On(back, type, id) => On(back', type, id)
    BY <2>1 DEF Leaves
  <2>3. QED
    BY <1>3, <2>1, <2>2 DEF Held
<1>6. CASE Cut
  <2>1. stale' = {i \in Ids : Live(i)} /\ UNCHANGED tcp
    BY <1>6 DEF Cut, ChannelClosed, tcpVars
  <2>2. QED
    BY <2>1 DEF Live, IsTcp
<1>7. CASE ChannelUp \/ UNCHANGED tetherVars
  <2>1. UNCHANGED <<tcp, stale, unopened, queue, phone, back>>
    BY <1>7 DEF ChannelUp, ChannelOpened, tetherVars, divertVars, phoneVars, tcpVars,
                histories
  <2>2. QED
    BY <1>3, <2>1 DEF Held, OnTcp
<1>8. CASE Dropped
  <2>1. /\ UNCHANGED <<tcp, stale, phone, back>> /\ id \notin unopened
        /\ On(queue, "OPEN", id) => On(queue', "OPEN", id) \/ Head(queue) = F("OPEN", id)
        /\ Head(queue) = F("OPEN", id) /\ IsTcp(id) => id \in unopened'
    BY <1>1, <1>8, DropActs
  <2>2. IsTcp(id)
    BY <1>3, <2>1
  <2>3. QED
    BY <1>3, <2>1, <2>2 DEF Held, OnTcp
<1>9. QED
  BY <1>2, <1>4, <1>5, <1>6, <1>7, <1>8 DEF TetherNext

LEMMA OwnedStep == FlightInv /\ [TetherNext]_tetherVars => Owned'
<1> SUFFICES ASSUME FlightInv, [TetherNext]_tetherVars, NEW id \in Ids, Held(id)'
             PROVE  IsTcp(id)' \/ id \in untold' \/ On(queue', "RST", id)
  BY DEF Owned, Held, OnTcp, IsTcp
<1>1. Whole /\ Owned /\ OpensFirst /\ EndIsLast /\ TypeOK
  BY DEF FlightInv, Whole, TetherTypeOK
<1>2. CASE Daemon \/ DaemonReads
  <2>1. DaemonEffect /\ Effect /\ UNCHANGED phone
    BY <1>1, <1>2, DaemonActs DEF DaemonEffect
  <2>2. OnTcp(id)' = OnTcp(id)
    BY <2>1 DEF OnTcp
  <2>3. CASE Sent("OPEN", id)
    BY <2>1, <2>3 DEF Effect, Sent, Added
  <2>4. CASE Held(id)
    <3>1. OnPhone(id) \/ InFlight(id)
      BY <2>4, HeldFlies
    <3>2. id \in untold => id \in untold'
      BY <1>1, <2>1, <3>1, HistoryKept
    <3>3. On(queue, "RST", id) \/ Sent("RST", id) => On(queue', "RST", id)
      BY <1>1, <2>1, OnSent
    <3>4. CASE IsTcp(id) /\ ~IsTcp(id)'
      <4>1. Sent("RST", id) \/ ~Sent("CLOSE_WR", id) \/ tcp[id].remoteEnd
        BY <2>1, <3>4 DEF Effect
      <4>2. tcp[id].remoteEnd => id \in untold
        BY <1>1, <2>4, <3>4 DEF EndIsLast
      <4>3. ~Sent("RST", id) /\ ~Sent("CLOSE_WR", id) => id \in untold'
        BY <1>1, <2>1, <3>4, HistoryKept
      <4>4. QED
        BY <3>2, <3>3, <4>1, <4>2, <4>3
    <3>5. QED
      BY <1>1, <2>4, <3>2, <3>3, <3>4 DEF Owned
  <2>5. QED
    BY <1>1, <2>1, <2>2, <2>3, <2>4, OnSent DEF Held
<1>3. CASE PhoneReads
  <2>1. /\ Answers(Head(queue)) /\ UNCHANGED <<tcp, untold>>
        /\ queue' = Tail(queue) /\ queue # <<>> /\ queue \in Seq(Frame)
        /\ \A type : /\ On(queue', type, id) => On(queue, type, id)
                     /\ On(queue, type, id) =>
                          On(queue', type, id) \/ Head(queue) = F(type, id)
                     /\ Head(queue) = F(type, id) => On(queue, type, id)
    BY <1>1, <1>3, PhoneActs
  <2>2. OnTcp(id)' => OnTcp(id) \/ Head(queue) = F("OPEN", id)
    BY <2>1 DEF Answers
  <2>3. Held(id)
    BY <2>1, <2>2 DEF Held
  <2>4. Head(queue) # F("RST", id)
    <3> SUFFICES ASSUME Head(queue) = F("RST", id) PROVE FALSE
      OBVIOUS
    <3>1. ~OnTcp(id)'
      BY <2>1 DEF Answers
    <3>2. ~On(queue', "OPEN", id)
      BY <1>1, <2>1, FrameParts, HeadIsFirst
    <3>3. QED
      BY <3>1, <3>2 DEF Held
  <2>5. QED
    BY <1>1, <2>1, <2>3, <2>4 DEF Owned, IsTcp
<1>4. ASSUME NEW j \in Ids, PhoneStream(j)
      PROVE  IsTcp(id)' \/ id \in untold' \/ On(queue', "RST", id)
  <2>1. Leaves /\ UNCHANGED <<tcp, untold, queue>>
    BY <1>1, <1>4, PhoneLeaves, Heads
       DEF Whole, PhoneStream, daemonVars, divertVars, histories
  <2>2. Held(id)
    BY <2>1 DEF Leaves, Held
  <2>3. QED
    BY <1>1, <2>1, <2>2 DEF Owned, IsTcp
<1>5. CASE Cut
  <2>1. queue' = <<>> /\ phone' = [i \in Ids |-> Nothing]
    BY <1>5 DEF Cut, ChannelClosed
  <2>2. QED
    BY <2>1, OnEmpty DEF Held, OnTcp, Nothing
<1>6. CASE ChannelUp \/ UNCHANGED tetherVars
  <2>1. UNCHANGED <<tcp, untold, queue, phone>>
    BY <1>6 DEF ChannelUp, ChannelOpened, tetherVars, divertVars, phoneVars, tcpVars,
                histories
  <2>2. QED
    BY <1>1, <2>1 DEF Owned, Held, OnTcp, IsTcp
<1>7. CASE Dropped
  <2>1. /\ UNCHANGED <<tcp, phone>>
        /\ id \in untold => id \in untold'
        /\ \A type : /\ On(queue', type, id) => On(queue, type, id)
                     /\ On(queue, type, id) =>
                          On(queue', type, id) \/ Head(queue) = F(type, id)
        /\ Head(queue) = F("RST", id) => id \in untold'
    BY <1>1, <1>7, DropActs
  <2>2. Held(id)
    BY <2>1 DEF Held, OnTcp
  <2>3. QED
    BY <1>1, <2>1, <2>2 DEF Owned, IsTcp
<1>8. QED
  BY <1>2, <1>3, <1>4, <1>5, <1>6, <1>7 DEF TetherNext

LEMMA EndIsLastStep == FlightInv /\ [TetherNext]_tetherVars => EndIsLast'
<1> SUFFICES ASSUME FlightInv, [TetherNext]_tetherVars, NEW id \in Ids, Held(id)',
                    (IsTcp(id)' /\ tcp'[id].remoteEnd) \/ On(back', "CLOSE_WR", id)
             PROVE  id \in untold'
  BY DEF EndIsLast, Held, OnTcp, IsTcp
<1>1. Whole /\ EndIsLast /\ OpenedTwice /\ TypeOK
  BY DEF FlightInv, Whole, TetherTypeOK
<1>2. CASE Daemon \/ DaemonReads
  <2>1. DaemonEffect /\ Effect /\ UNCHANGED phone
    BY <1>1, <1>2, DaemonActs DEF DaemonEffect
  <2>2. On(back', "CLOSE_WR", id) => On(back, "CLOSE_WR", id)
    BY <2>1 DEF DaemonEffect
  <2>3. IsTcp(id) /\ IsTcp(id)' /\ tcp'[id].remoteEnd =>
          tcp[id].remoteEnd \/ On(back, "CLOSE_WR", id)
    BY <2>1 DEF DaemonEffect
  <2>4. IsTcp(id)' /\ ~IsTcp(id) => ~tcp'[id].remoteEnd
    BY <2>1 DEF Effect
  <2>5. ~Sent("OPEN", id)
    <3> SUFFICES ASSUME Sent("OPEN", id) PROVE FALSE
      OBVIOUS
    <3>1. id \in Begun
      BY <2>1 DEF Effect, Sent, Added
    <3>2. ~InFlight(id) /\ ~IsTcp(id)
      BY <2>1, <3>1 DEF DaemonEffect, Begun, Live
    <3>3. ~On(back, "CLOSE_WR", id)
      BY <3>2, OnFlies
    <3>4. QED
      BY <2>2, <2>4, <3>2, <3>3
  <2>6. Held(id)
    BY <1>1, <2>1, <2>5, OnSent DEF Held, OnTcp
  <2>7. id \in untold
    BY <1>1, <2>2, <2>3, <2>4, <2>6 DEF EndIsLast
  <2>8. QED
    BY <1>1, <2>1, <2>6, <2>7, HeldFlies, HistoryKept
<1>3. CASE PhoneReads
  <2>1. /\ Answers(Head(queue)) /\ UNCHANGED <<tcp, untold>>
        /\ \A type : /\ On(queue', type, id) => On(queue, type, id)
                     /\ Head(queue) = F(type, id) => On(queue, type, id)
    BY <1>1, <1>3, PhoneActs
  <2>2. /\ OnTcp(id)' => OnTcp(id) \/ Head(queue) = F("OPEN", id)
        /\ On(back', "CLOSE_WR", id) => On(back, "CLOSE_WR", id)
    BY <2>1 DEF Answers
  <2>3. Held(id)
    BY <2>1, <2>2 DEF Held
  <2>4. QED
    BY <1>1, <2>1, <2>2, <2>3 DEF EndIsLast, IsTcp
<1>4. ASSUME NEW j \in Ids, PhoneStream(j) PROVE id \in untold'
  <2>1. Leaves /\ UNCHANGED <<tcp, untold, queue>>
    BY <1>1, <1>4, PhoneLeaves, Heads
       DEF Whole, PhoneStream, daemonVars, divertVars, histories
  <2>2. /\ OnTcp(id)' => OnTcp(id)
        /\ On(back', "CLOSE_WR", id) =>
             On(back, "CLOSE_WR", id) \/ (OnTcp(id) /\ ~OnTcp(id)')
    BY <2>1 DEF Leaves
  <2>3. Held(id)
    BY <2>1, <2>2 DEF Held
  <2>4. CASE OnTcp(id) /\ ~OnTcp(id)'
    <3>1. On(queue, "OPEN", id)
      BY <2>1, <2>4 DEF Held
    <3>2. QED
      BY <1>1, <2>1, <2>4, <3>1 DEF OpenedTwice
  <2>5. CASE (IsTcp(id)' /\ tcp'[id].remoteEnd) \/ On(back, "CLOSE_WR", id)
    BY <1>1, <2>1, <2>3, <2>5 DEF EndIsLast, IsTcp
  <2>6. QED
    BY <2>2, <2>4, <2>5
<1>5. CASE Cut
  <2>1. queue' = <<>> /\ phone' = [i \in Ids |-> Nothing]
    BY <1>5 DEF Cut, ChannelClosed
  <2>2. QED
    BY <2>1, OnEmpty DEF Held, OnTcp, Nothing
<1>6. CASE ChannelUp \/ UNCHANGED tetherVars
  <2>1. UNCHANGED <<tcp, untold, queue, phone, back>>
    BY <1>6 DEF ChannelUp, ChannelOpened, tetherVars, divertVars, phoneVars, tcpVars,
                histories
  <2>2. QED
    BY <1>1, <2>1 DEF EndIsLast, Held, OnTcp, IsTcp
<1>7. CASE Dropped
  <2>1. /\ UNCHANGED <<tcp, phone, back>>
        /\ id \in untold => id \in untold'
        /\ On(queue', "OPEN", id) => On(queue, "OPEN", id)
    BY <1>1, <1>7, DropActs
  <2>2. QED
    BY <1>1, <2>1 DEF EndIsLast, Held, OnTcp, IsTcp
<1>8. QED
  BY <1>2, <1>3, <1>4, <1>5, <1>6, <1>7 DEF TetherNext

LEMMA OpenedTwiceStep == FlightInv /\ [TetherNext]_tetherVars => OpenedTwice'
<1> SUFFICES ASSUME FlightInv, [TetherNext]_tetherVars, NEW id \in Ids,
                    On(queue', "OPEN", id), OnTcp(id)'
             PROVE  id \in untold'
  BY DEF OpenedTwice, OnTcp
<1>1. Whole /\ OpenedTwice /\ Owned /\ OpensFirst /\ TypeOK
  BY DEF FlightInv, Whole, TetherTypeOK
<1>2. CASE Daemon \/ DaemonReads
  <2>1. DaemonEffect /\ Effect /\ UNCHANGED phone
    BY <1>1, <1>2, DaemonActs DEF DaemonEffect
  <2>2. OnTcp(id) /\ Held(id)
    BY <2>1 DEF OnTcp, Held
  <2>3. id \in untold
    <3>1. CASE Sent("OPEN", id)
      <4>1. id \in Begun
        BY <2>1, <3>1 DEF Effect, Sent, Added
      <4>2. ~InFlight(id) /\ ~IsTcp(id)
        BY <2>1, <4>1 DEF DaemonEffect, Begun, Live
      <4>3. ~On(queue, "RST", id)
        BY <4>2, OnFlies
      <4>4. QED
        BY <1>1, <2>2, <4>2, <4>3 DEF Owned
    <3>2. CASE On(queue, "OPEN", id)
      BY <1>1, <2>2, <3>2 DEF OpenedTwice
    <3>3. QED
      BY <1>1, <2>1, <3>1, <3>2, OnSent
  <2>4. QED
    BY <1>1, <2>1, <2>2, <2>3, HeldFlies, HistoryKept
<1>3. CASE PhoneReads
  <2>1. /\ Answers(Head(queue)) /\ UNCHANGED <<tcp, untold>>
        /\ queue' = Tail(queue) /\ queue # <<>> /\ queue \in Seq(Frame)
        /\ On(queue', "OPEN", id) => On(queue, "OPEN", id)
    BY <1>1, <1>3, PhoneActs
  <2>2. Head(queue) # F("OPEN", id)
    BY <1>1, <2>1, FrameParts, HeadIsFirst
  <2>3. OnTcp(id)
    BY <2>1, <2>2 DEF Answers
  <2>4. QED
    BY <1>1, <2>1, <2>3 DEF OpenedTwice
<1>4. ASSUME NEW j \in Ids, PhoneStream(j) PROVE id \in untold'
  <2>1. Leaves /\ UNCHANGED <<untold, queue>>
    BY <1>1, <1>4, PhoneLeaves, Heads
       DEF Whole, PhoneStream, daemonVars, divertVars, histories
  <2>2. QED
    BY <1>1, <2>1 DEF OpenedTwice, Leaves
<1>5. CASE Cut
  <2>1. queue' = <<>>
    BY <1>5 DEF Cut, ChannelClosed
  <2>2. QED
    BY <2>1, OnEmpty
<1>6. CASE ChannelUp \/ UNCHANGED tetherVars
  <2>1. UNCHANGED <<untold, queue, phone>>
    BY <1>6 DEF ChannelUp, ChannelOpened, tetherVars, divertVars, phoneVars, histories
  <2>2. QED
    BY <1>1, <2>1 DEF OpenedTwice, OnTcp
<1>7. CASE Dropped
  <2>1. /\ UNCHANGED phone
        /\ id \in untold => id \in untold'
        /\ On(queue', "OPEN", id) => On(queue, "OPEN", id)
    BY <1>1, <1>7, DropActs
  <2>2. QED
    BY <1>1, <2>1 DEF OpenedTwice, OnTcp
<1>8. QED
  BY <1>2, <1>3, <1>4, <1>5, <1>6, <1>7 DEF TetherNext

LEMMA UdpServedStep == FlightInv /\ [TetherNext]_tetherVars => UdpServed'
<1> SUFFICES ASSUME FlightInv, [TetherNext]_tetherVars, NEW id \in Ids,
                    IsUdp(id)', id \notin unbound', id \notin stale'
             PROVE  \/ On(queue', "BIND", id) \/ phone'[id].at = "udp"
                    \/ \E type \in {"BIND_ERR", "UDP_CLOSE"} : On(back', type, id)
  BY DEF UdpServed, IsUdp
<1>1. Whole /\ UdpServed /\ TypeOK
  BY DEF FlightInv, Whole, TetherTypeOK
<1>2. CASE Daemon \/ DaemonReads
  <2>1. DaemonEffect /\ Effect /\ UNCHANGED phone
    BY <1>1, <1>2, DaemonActs DEF DaemonEffect
  <2>2. id \notin stale /\ id \notin unbound
    BY <1>1, <2>1, HistoryKept DEF Live
  <2>3. CASE ~IsUdp(id)
    <3>1. Sent("BIND", id)
      BY <1>1, <2>1, <2>3, HistoryKept DEF Effect
    <3>2. QED
      BY <1>1, <2>1, <3>1, OnSent
  <2>4. CASE IsUdp(id)
    <3>1. \/ On(queue, "BIND", id) \/ phone[id].at = "udp"
          \/ \E type \in {"BIND_ERR", "UDP_CLOSE"} : On(back, type, id)
      BY <1>1, <2>2, <2>4 DEF UdpServed
    <3>2. On(queue, "BIND", id) => On(queue', "BIND", id)
      BY <1>1, <2>1, OnSent
    <3>3. \A type \in {"BIND_ERR", "UDP_CLOSE"} : On(back, type, id) => On(back', type, id)
      BY <2>1 DEF DaemonEffect
    <3>4. QED
      BY <2>1, <3>1, <3>2, <3>3
  <2>5. QED
    BY <2>3, <2>4
<1>3. ASSUME UNCHANGED <<udp, stale>>, id \notin unbound
      PROVE  \/ On(queue, "BIND", id) \/ phone[id].at = "udp"
             \/ \E type \in {"BIND_ERR", "UDP_CLOSE"} : On(back, type, id)
  <2>1. IsUdp(id)
    BY <1>3 DEF IsUdp
  <2>2. QED
    BY <1>1, <1>3, <2>1 DEF UdpServed
<1>4. CASE PhoneReads
  <2>1. /\ Answers(Head(queue)) /\ UNCHANGED <<udp, stale, unbound>>
        /\ On(queue, "BIND", id) => On(queue', "BIND", id) \/ Head(queue) = F("BIND", id)
    BY <1>1, <1>4, PhoneActs
  <2>2. /\ Head(queue) = F("BIND", id) => phone'[id].at = "udp" \/ On(back', "BIND_ERR", id)
        /\ phone[id].at = "udp" => phone'[id].at = "udp"
        /\ \A type : On(back, type, id) => On(back', type, id)
    BY <2>1 DEF Answers
  <2>3. QED
    BY <1>3, <2>1, <2>2
<1>5. ASSUME NEW j \in Ids, PhoneStream(j)
      PROVE  \/ On(queue', "BIND", id) \/ phone'[id].at = "udp"
             \/ \E type \in {"BIND_ERR", "UDP_CLOSE"} : On(back', type, id)
  <2>1. Leaves /\ UNCHANGED <<udp, stale, unbound, queue>>
    BY <1>1, <1>5, PhoneLeaves, Heads
       DEF Whole, PhoneStream, daemonVars, divertVars, histories
  <2>2. /\ phone[id].at = "udp" => phone'[id].at = "udp" \/ On(back', "UDP_CLOSE", id)
        /\ \A type : On(back, type, id) => On(back', type, id)
    BY <2>1 DEF Leaves
  <2>3. QED
    BY <1>3, <2>1, <2>2
<1>6. CASE Cut
  <2>1. stale' = {i \in Ids : Live(i)} /\ UNCHANGED udp
    BY <1>6 DEF Cut, ChannelClosed, udpVars
  <2>2. QED
    BY <2>1 DEF Live, IsUdp
<1>7. CASE ChannelUp \/ UNCHANGED tetherVars
  <2>1. UNCHANGED <<udp, stale, unbound, queue, phone, back>>
    BY <1>7 DEF ChannelUp, ChannelOpened, tetherVars, divertVars, phoneVars, udpVars,
                histories
  <2>2. QED
    BY <1>3, <2>1
<1>8. CASE Dropped
  <2>1. /\ UNCHANGED <<udp, stale, phone, back>> /\ id \notin unbound
        /\ On(queue, "BIND", id) => On(queue', "BIND", id) \/ Head(queue) = F("BIND", id)
        /\ Head(queue) = F("BIND", id) /\ IsUdp(id) => id \in unbound'
    BY <1>1, <1>8, DropActs
  <2>2. IsUdp(id)
    BY <2>1 DEF IsUdp
  <2>3. QED
    BY <1>3, <2>1, <2>2
<1>9. QED
  BY <1>2, <1>4, <1>5, <1>6, <1>7, <1>8 DEF TetherNext

LEMMA FlightInit == TetherInit => FlightInv
<1> SUFFICES ASSUME TetherInit PROVE FlightInv
  OBVIOUS
<1>1. Whole
  BY WholeInit
<1>2. queue = <<>> /\ back = <<>> /\ phone = [id \in Ids |-> Nothing]
      /\ \A id \in Ids : ~IsTcp(id) /\ ~IsUdp(id)
  BY RecordTypes DEF TetherInit, Init, IsTcp, IsUdp
<1>3. OpensFirst
  BY <1>2 DEF OpensFirst
<1>4. \A id \in Ids : \A type : ~On(queue, type, id) /\ ~On(back, type, id) /\ ~OnTcp(id)
  BY <1>2, OnEmpty DEF OnTcp, Nothing
<1>5. QED
  BY <1>1, <1>2, <1>3, <1>4
     DEF FlightInv, ResetIsLast, TcpServed, Owned, EndIsLast, OpenedTwice, UdpServed, Held

\* The invariant holds for queues of any capacity, any number of ids, connections,
\* ports and losses.
THEOREM FlightAlways == TetherSpec => []FlightInv
<1>1. FlightInv /\ [TetherNext]_tetherVars => FlightInv'
  <2>1. FlightInv => Whole
    BY DEF FlightInv
  <2>2. QED
    BY <2>1, WholeStep, OpensFirstStep, ResetIsLastStep, TcpServedStep, OwnedStep,
       EndIsLastStep, OpenedTwiceStep, UdpServedStep DEF FlightInv
<1>2. QED
  BY <1>1, FlightInit, PTL DEF TetherSpec

\* Nothing in flight: a stream of the phone that is not connecting pumps.
LEMMA QuietIs ==
    ASSUME Quiet, NEW id \in Ids
    PROVE  /\ \A type, j : ~On(queue, type, j) /\ ~On(back, type, j)
           /\ OnTcp(id) <=> Pumps(id)
           /\ Held(id) <=> Pumps(id)
<1>1. \A type, j : ~On(queue, type, j) /\ ~On(back, type, j)
  BY OnEmpty DEF Quiet
<1>2. OnTcp(id) <=> Pumps(id)
  BY DEF Quiet, OnTcp, Pumps
<1>3. QED
  BY <1>1, <1>2 DEF Held

\* No application waits on a stream of this channel that nobody serves, unless the
\* drain dropped its TCP_OPEN, although the daemon does not know what became of the
\* frames it sent (handle_tcp_accept, handle_tcp_fd, cb_tcp_open_ack, send_q_drain;
\* handleTcpOpen).
THEOREM NoStreamIsStranded == TetherSpec => []NoStrandedStream
<1>1. FlightInv => NoStrandedStream
  <2> SUFFICES ASSUME FlightInv, Quiet, NEW id \in Ids, IsTcp(id),
                      id \notin stale \cup unopened
               PROVE  Pumps(id) \/ tcp[id].remoteEnd
    BY DEF NoStrandedStream
  <2>1. QED
    BY QuietIs DEF FlightInv, TcpServed
<1>2. QED
  BY <1>1, FlightAlways, PTL

\* The phone keeps no stream the daemon has given up, unless the frame that told
\* of it was refused by the full transmit queue or dropped by its drain.
THEOREM NoStreamIsOrphaned == TetherSpec => []NoOrphan
<1>1. FlightInv => NoOrphan
  <2> SUFFICES ASSUME FlightInv, Quiet, NEW id \in Ids, Pumps(id)
               PROVE  IsTcp(id) \/ id \in untold
    BY DEF NoOrphan
  <2>1. QED
    BY QuietIs DEF FlightInv, Owned
<1>2. QED
  BY <1>1, FlightAlways, PTL

\* A port's datagrams reach the phone, but for the ways to lose a mapping that the
\* property names (handle_outbound_udp_packet, cb_udp_bind_ack, send_q_drain).
THEOREM MappingsReach == TetherSpec => []MappingReaches
<1>1. FlightInv => MappingReaches
  <2> SUFFICES ASSUME FlightInv, Quiet, NEW p \in Ports, NEW id,
                      id = udp_port_to_stream[p], id # 0, id \notin unbound \cup stale
               PROVE  phone[id].at = "udp"
    BY DEF MappingReaches
  <2>1. id \in Ids /\ IsUdp(id)
    <3>1. TypeOK /\ TablesAgree
      BY DEF FlightInv, Whole, TetherTypeOK
    <3>2. id \in Ids
      BY <3>1, IdAssumption DEF TypeOK, Ids
    <3>3. udp[id] = p
      BY <3>1 DEF TablesAgree
    <3>4. QED
      BY <3>2, <3>3, NullAssumption DEF IsUdp
  <2>2. QED
    BY <2>1, QuietIs DEF FlightInv, UdpServed
<1>2. QED
  BY <1>1, FlightAlways, PTL

==============================================================================
