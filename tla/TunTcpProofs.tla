---------------------------- MODULE TunTcpProofs ----------------------------
(***************************************************************************)
(* Proofs about TunTcp, for any number of slots, clients and sequence      *)
(* numbers.  SlotInv is the inductive invariant: to the invariants the     *)
(* runs check it adds that a closed slot has a clean ledger and that the   *)
(* age of a slot in SYN_RCVD is at least what its tenant has been met.     *)
(***************************************************************************)
EXTENDS TunTcp, SequenceTheorems, TLAPS

\* Sequence arithmetic stays in the sequence space.
LEMMA PlusType ==
    ASSUME NEW a \in Nat, NEW n \in Nat
    PROVE  Plus(a, n) \in SeqNo
  BY SeqAssumption DEF Plus, SeqNo

\* Every slot has an initial sequence number.
LEMMA IsnType == \A s \in Slot : Isn(s) \in SeqNo
<1> SUFFICES ASSUME NEW s \in Slot PROVE Isn(s) \in SeqNo
  OBVIOUS
<1>1. s * ISN_STRIDE \in Nat
  BY SlotsAssumption, SeqAssumption DEF Slot
<1>2. QED
  BY <1>1, SeqAssumption DEF Isn, SeqNo

\* Zero is a sequence number.
LEMMA ZeroType == 0 \in SeqNo
  BY SeqAssumption DEF SeqNo

\* A connection yields well-formed segments.
LEMMA SegmentType ==
    ASSUME NEW c \in Conn, NEW kind \in {"SYNACK", "ACK", "DATA", "FIN", "RST"}
    PROVE  Segment(c, kind) \in OutSegment
  BY DEF Segment, OutSegment, Conn

\* The frames the handlers build are well formed.
LEMMA FrameType ==
    ASSUME NEW type \in {"OPEN", "DATA", "CLOSE_WR", "RST"}, NEW s \in Slot,
           NEW seq \in SeqNo, NEW len \in Nat
    PROVE  FrameOf(type, s, seq, len) \in Frame
  BY DEF FrameOf, Frame

\* What is emitted on a condition is a sequence of one element or of none.
LEMMA OneOrNone ==
    ASSUME NEW S, NEW x \in S, NEW b \in BOOLEAN
    PROVE  (IF b THEN <<x>> ELSE <<>>) \in Seq(S)
  OBVIOUS

\* conn_reset leaves a closed slot and its ledger clean.
LEMMA FreeType ==
    ASSUME TypeOK, NEW s \in Slot, Free(s)
    PROVE  /\ conns' \in [Slot -> Conn]
           /\ ledger' \in [Slot -> [told : BOOLEAN, heard : BOOLEAN, seen : Nat]]
<1>1. ClosedConn \in Conn
  BY ZeroType DEF ClosedConn, Conn
<1>2. QED
  BY <1>1 DEF Free, TypeOK

------------------------------------------------------------------------------
\* One step of each kind keeps the types.
LEMMA TypeSyn ==
    ASSUME TypeOK, NEW t \in Tuples, NEW seq \in SeqNo, LocalSyn(t, seq)
    PROVE  TypeOK'
<1>1. PICK s \in Slot :
        /\ conns' = [conns EXCEPT ![s] =
                       [state |-> "SYN_RCVD", tuple |-> t,
                        peerNext |-> Plus(seq, 1), ourNext |-> Isn(s)]]
        /\ Emit(<<FrameOf("OPEN", s, 0, 0)>>, <<>>)
  BY DEF LocalSyn
<1>2. Plus(seq, 1) \in SeqNo /\ Isn(s) \in SeqNo
  BY PlusType, IsnType DEF SeqNo
<1>3. [state |-> "SYN_RCVD", tuple |-> t,
       peerNext |-> Plus(seq, 1), ourNext |-> Isn(s)] \in Conn
  BY <1>2 DEF Conn, Live
<1>4. conns' \in [Slot -> Conn]
  BY <1>1, <1>3 DEF TypeOK
<1>5. FrameOf("OPEN", s, 0, 0) \in Frame
  BY FrameType, ZeroType
<1>6. muxOut' \in Seq(Frame) /\ tunOut' \in Seq(OutSegment)
  BY <1>1, <1>5 DEF Emit
<1>7. QED
  BY <1>4, <1>6 DEF LocalSyn, TypeOK

\* A segment of a client in a live slot keeps the types.
LEMMA TypeSegment ==
    ASSUME TypeOK, NEW t \in Tuples, NEW seq \in SeqNo, NEW len \in 0 .. MaxLen,
           NEW ack \in BOOLEAN, NEW fin \in BOOLEAN,
           LocalSegment(t, seq, len, ack, fin)
    PROVE  TypeOK'
<1> DEFINE c(s) == conns[s]
           reached(s) == IF c(s).state = "SYN_RCVD" /\ ack THEN "ESTAB"
                         ELSE c(s).state
           afterData(s) == IF len > 0 THEN Plus(seq, len) ELSE c(s).peerNext
           afterFin(s) == IF fin THEN Plus(seq, len + 1) ELSE afterData(s)
           moved(s) == [c(s) EXCEPT
                          !.state = IF fin THEN "FIN_LOCAL" ELSE reached(s),
                          !.peerNext = afterFin(s)]
           acked(s) == [c(s) EXCEPT !.peerNext = afterData(s)]
           dataFrame(s) == IF len > 0 THEN <<FrameOf("DATA", s, seq, len)>>
                           ELSE <<>>
           finFrame(s) == IF fin THEN <<FrameOf("CLOSE_WR", s, 0, 0)>> ELSE <<>>
           dataAck(s) == IF len > 0 THEN <<Segment(acked(s), "ACK")>> ELSE <<>>
           finAck(s) == IF fin THEN <<Segment(moved(s), "ACK")>> ELSE <<>>
<1>1. PICK s \in Slot :
        /\ Emit(dataFrame(s) \o finFrame(s), dataAck(s) \o finAck(s))
        /\ IF fin /\ reached(s) = "FIN_REMOTE"
           THEN Free(s)
           ELSE /\ conns' = [conns EXCEPT ![s] = moved(s)]
                /\ ledger' = [ledger EXCEPT ![s].told = @ \/ fin]
        /\ IsLive(s)
  BY DEF LocalSegment, Matches
<1>2. len \in Nat /\ seq \in Nat /\ len + 1 \in Nat
  BY LenAssumption DEF SeqNo
<1>3. c(s) \in Conn
  BY DEF TypeOK
<1>4. afterData(s) \in SeqNo /\ afterFin(s) \in SeqNo
  BY <1>2, <1>3, PlusType DEF Conn
<1>5. reached(s) \in Live \cup {"CLOSED"}
  BY <1>3 DEF Conn, Live
<1>6. moved(s) \in Conn /\ acked(s) \in Conn
  BY <1>3, <1>4, <1>5 DEF Conn, Live
<1>7. dataFrame(s) \in Seq(Frame) /\ finFrame(s) \in Seq(Frame)
  <2>1. FrameOf("DATA", s, seq, len) \in Frame
    BY <1>2, FrameType
  <2>2. FrameOf("CLOSE_WR", s, 0, 0) \in Frame
    BY ZeroType, FrameType
  <2>3. (len > 0) \in BOOLEAN
    OBVIOUS
  <2>4. QED
    BY <2>1, <2>2, <2>3, OneOrNone
<1>8. dataAck(s) \in Seq(OutSegment) /\ finAck(s) \in Seq(OutSegment)
  <2>1. Segment(acked(s), "ACK") \in OutSegment
    BY <1>6, SegmentType
  <2>2. Segment(moved(s), "ACK") \in OutSegment
    BY <1>6, SegmentType
  <2>3. (len > 0) \in BOOLEAN
    OBVIOUS
  <2> HIDE DEF acked, moved
  <2>4. QED
    BY <2>1, <2>2, <2>3, OneOrNone
<1>9. muxOut' \in Seq(Frame) /\ tunOut' \in Seq(OutSegment)
  <2> HIDE DEF dataFrame, finFrame, dataAck, finAck
  <2>1. /\ dataFrame(s) \o finFrame(s) \in Seq(Frame)
        /\ dataAck(s) \o finAck(s) \in Seq(OutSegment)
    BY <1>7, <1>8, ConcatProperties
  <2>2. QED
    BY <1>1, <2>1 DEF Emit
<1>10. /\ conns' \in [Slot -> Conn]
       /\ ledger' \in [Slot -> [told : BOOLEAN, heard : BOOLEAN, seen : Nat]]
  <2> HIDE DEF moved, reached
  <2>1. CASE fin /\ reached(s) = "FIN_REMOTE"
    BY <1>1, <2>1, FreeType
  <2>2. CASE ~(fin /\ reached(s) = "FIN_REMOTE")
    <3>1. /\ conns' = [conns EXCEPT ![s] = moved(s)]
          /\ ledger' = [ledger EXCEPT ![s].told = @ \/ fin]
      BY <1>1, <2>2
    <3>2. QED
      BY <3>1, <1>6 DEF TypeOK
  <2>3. QED
    BY <2>1, <2>2
<1>11. QED
  BY <1>9, <1>10 DEF LocalSegment, TypeOK

\* A frame of the phone keeps the types.
LEMMA TypePeer ==
    ASSUME TypeOK, NEW s \in Slot, Peer(s)
    PROVE  TypeOK'
<1>0. /\ \A kind \in {"SYNACK", "ACK", "DATA", "FIN", "RST"} :
           Segment(conns[s], kind) \in OutSegment
      /\ \A n \in Nat : Plus(conns[s].ourNext, n) \in SeqNo
      /\ conns[s] \in Conn
  <2>1. conns[s] \in Conn
    BY DEF TypeOK
  <2>2. conns[s].ourNext \in Nat
    BY <2>1 DEF Conn, SeqNo
  <2>3. QED
    BY <2>1, <2>2, SegmentType, PlusType
<1>1. ASSUME NEW ok \in BOOLEAN, PeerOpenAck(s, ok) PROVE TypeOK'
  <2>1. CASE ok
    <3> DEFINE acked == [conns[s] EXCEPT !.ourNext = Plus(@, 1)]
    <3>1. acked \in Conn
      BY <1>0 DEF Conn
    <3>2. /\ conns' = [conns EXCEPT ![s] = acked]
          /\ muxOut' = <<>>
          /\ tunOut' = <<Segment(conns[s], "SYNACK")>>
          /\ UNCHANGED <<synAge, sweepAt, ledger>>
      BY <1>1, <2>1 DEF PeerOpenAck, Emit
    <3>3. conns' \in [Slot -> Conn]
      BY <3>1, <3>2 DEF TypeOK
    <3>4. muxOut' \in Seq(Frame) /\ tunOut' \in Seq(OutSegment)
      BY <1>0, <3>2
    <3>5. QED
      BY <3>2, <3>3, <3>4 DEF TypeOK
  <2>2. CASE ~ok
    <3>1. /\ Free(s)
          /\ muxOut' = <<>>
          /\ tunOut' = <<Segment(conns[s], "RST")>>
          /\ UNCHANGED <<synAge, sweepAt>>
      BY <1>1, <2>2 DEF PeerOpenAck, Emit
    <3>2. muxOut' \in Seq(Frame) /\ tunOut' \in Seq(OutSegment)
      BY <1>0, <3>1
    <3>3. QED
      BY <3>1, <3>2, FreeType DEF TypeOK
  <2>3. QED
    BY <2>1, <2>2
<1>2. ASSUME NEW len \in 1 .. MaxLen, PeerData(s, len) PROVE TypeOK'
  <2> DEFINE after(n) == [conns[s] EXCEPT !.ourNext = Plus(@, n)]
  <2>1. \A n \in Nat : after(n) \in Conn
    BY <1>0 DEF Conn
  <2>2. /\ conns' = [conns EXCEPT ![s] = after(len)]
        /\ tunOut' = [i \in 1 .. len |-> Segment(after(i - 1), "DATA")]
        /\ muxOut' = <<>>
        /\ UNCHANGED <<synAge, sweepAt, ledger>>
    BY <1>2 DEF PeerData, Emit
  <2> HIDE DEF after
  <2>3. \A i \in 1 .. len : Segment(after(i - 1), "DATA") \in OutSegment
    BY <2>1, SegmentType
  <2>4. len \in Nat
    BY LenAssumption
  <2>5. tunOut' \in Seq(OutSegment)
    BY <2>2, <2>3, <2>4
  <2>6. conns' \in [Slot -> Conn]
    BY <2>1, <2>2, <2>4 DEF TypeOK
  <2>7. muxOut' \in Seq(Frame)
    BY <2>2
  <2>8. QED
    BY <2>2, <2>5, <2>6, <2>7 DEF TypeOK
<1>3. CASE PeerCloseWr(s)
  <2>1. CASE conns[s].state = "FIN_LOCAL"
    BY <1>0, <1>3, <2>1, FreeType DEF PeerCloseWr, TypeOK, Emit
  <2>2. CASE conns[s].state # "FIN_LOCAL"
    <3> DEFINE closed == [conns[s] EXCEPT !.ourNext = Plus(@, 1),
                                          !.state = "FIN_REMOTE"]
    <3>1. closed \in Conn
      BY <1>0 DEF Conn, Live
    <3>2. conns' = [conns EXCEPT ![s] = closed]
      BY <1>3, <2>2 DEF PeerCloseWr, TypeOK
    <3>3. /\ conns' \in [Slot -> Conn]
          /\ ledger' = [ledger EXCEPT ![s].heard = TRUE]
          /\ tunOut' = <<Segment(conns[s], "FIN")>>
          /\ muxOut' = <<>>
          /\ UNCHANGED <<synAge, sweepAt>>
      BY <1>3, <2>2, <3>1, <3>2 DEF PeerCloseWr, Emit, TypeOK
    <3>4. muxOut' \in Seq(Frame) /\ tunOut' \in Seq(OutSegment)
      BY <1>0, <3>3
    <3>5. QED
      BY <3>3, <3>4 DEF TypeOK
  <2>3. QED
    BY <2>1, <2>2
<1>4. CASE PeerRst(s)
  BY <1>0, <1>4, FreeType DEF PeerRst, TypeOK, Emit
<1>5. QED
  BY <1>1, <1>2, <1>3, <1>4 DEF Peer

\* An iteration of the sweep keeps the types.
LEMMA TypeSweep ==
    ASSUME TypeOK, SweepSlot
    PROVE  TypeOK'
<1>1. sweepAt \in Slot /\ sweepAt' \in 0 .. MAX_TCP_CONNS
  BY SlotsAssumption DEF SweepSlot, Idle, Slot, TypeOK
<1>2. <<>> \in Seq(Frame) /\ <<>> \in Seq(OutSegment)
  OBVIOUS
<1>3. CASE SweepPast
  BY <1>1, <1>2, <1>3 DEF SweepPast, Emit, TypeOK
<1>4. CASE SweepAge
  <2>1. synAge' \in [Slot -> Nat]
    BY <1>1, <1>4 DEF SweepAge, TypeOK
  <2>2. ledger' \in [Slot -> [told : BOOLEAN, heard : BOOLEAN, seen : Nat]]
    <3> DEFINE met == [ledger[sweepAt] EXCEPT !.seen = @ + 1]
    <3>1. met \in [told : BOOLEAN, heard : BOOLEAN, seen : Nat]
      <4>1. ledger[sweepAt] \in [told : BOOLEAN, heard : BOOLEAN, seen : Nat]
        BY <1>1 DEF TypeOK
      <4>2. ledger[sweepAt].seen + 1 \in Nat
        BY <4>1
      <4>3. QED
        BY <4>1, <4>2
    <3>2. ledger' = [ledger EXCEPT ![sweepAt] = met]
      BY <1>4 DEF SweepAge
    <3>3. QED
      BY <1>1, <3>1, <3>2 DEF TypeOK
  <2>3. QED
    BY <1>1, <1>2, <1>4, <2>1, <2>2 DEF SweepAge, Emit, TypeOK
<1>5. CASE SweepRecycle
  <2>1. FrameOf("RST", sweepAt, 0, 0) \in Frame
    BY <1>1, FrameType, ZeroType
  <2>2. /\ conns' \in [Slot -> Conn]
        /\ ledger' \in [Slot -> [told : BOOLEAN, heard : BOOLEAN, seen : Nat]]
    BY <1>1, <1>5, FreeType DEF SweepRecycle
  <2>3. muxOut' \in Seq(Frame) /\ tunOut' = <<>>
    BY <2>1, <1>5 DEF SweepRecycle, Emit
  <2>4. synAge' \in [Slot -> Nat]
    BY <1>1, <1>5 DEF SweepRecycle, TypeOK
  <2>5. QED
    BY <1>1, <1>2, <2>2, <2>3, <2>4 DEF TypeOK
<1>6. QED
  BY <1>3, <1>4, <1>5 DEF SweepSlot

\* Every step keeps the types.
LEMMA TypeStep == TypeOK /\ [Next]_vars => TypeOK'
<1> SUFFICES ASSUME TypeOK, [Next]_vars PROVE TypeOK'
  OBVIOUS
<1>1. ASSUME NEW t \in Tuples, Local(t) PROVE TypeOK'
  <2>1. ASSUME NEW syn \in BOOLEAN, LocalIgnored(t, syn) PROVE TypeOK'
    BY <2>1 DEF LocalIgnored, TypeOK, Emit
  <2>2. CASE LocalRst(t)
    <3>1. PICK s \in Slot : Free(s) /\ Emit(<<FrameOf("RST", s, 0, 0)>>, <<>>)
      BY <2>2 DEF LocalRst
    <3>2. FrameOf("RST", s, 0, 0) \in Frame
      BY FrameType, ZeroType
    <3>3. QED
      BY <2>2, <3>1, <3>2, FreeType DEF LocalRst, TypeOK, Emit
  <2>3. QED
    BY <1>1, <2>1, <2>2, TypeSyn, TypeSegment DEF Local
<1>2. ASSUME NEW s \in Slot, Peer(s) PROVE TypeOK'
  BY <1>2, TypePeer
<1>3. CASE SweepStart
  BY <1>3, SlotsAssumption DEF SweepStart, TypeOK, Emit
<1>4. CASE SweepSlot
  BY <1>4, TypeSweep
<1>5. CASE UNCHANGED vars
  BY <1>5 DEF vars, TypeOK
<1>6. QED
  BY <1>1, <1>2, <1>3, <1>4, <1>5 DEF Next

\* The types hold at the start.
LEMMA InitType == Init => TypeOK
<1> SUFFICES ASSUME Init PROVE TypeOK
  OBVIOUS
<1>1. ClosedConn \in Conn
  BY ZeroType DEF ClosedConn, Conn
<1>2. conns \in [Slot -> Conn]
  BY <1>1 DEF Init
<1>3. muxOut \in Seq(Frame) /\ tunOut \in Seq(OutSegment)
  BY DEF Init
<1>4. QED
  BY <1>2, <1>3, SlotsAssumption DEF Init, TypeOK

\* The slot machine stays in its types.
THEOREM TypeCorrect == Spec => []TypeOK
  BY InitType, TypeStep, PTL DEF Spec

------------------------------------------------------------------------------
\* What SlotInv says of one slot, given its state, its ledger and its age.
SlotOK(state, entry, age) ==
    /\ state = "FIN_LOCAL" <=> entry.told
    /\ state = "FIN_REMOTE" <=> entry.heard
    /\ entry.seen <= SYN_RCVD_MAX_AGE
    /\ state = "CLOSED" => entry.seen = 0
    /\ state = "SYN_RCVD" => entry.seen <= age

SlotInv ==
    /\ TypeOK
    /\ UniqueTuple
    /\ \A s \in Slot : SlotOK(conns[s].state, ledger[s], synAge[s])

\* A step that changes slot s only, and leaves it well, keeps the invariant
\* of all slots but for UniqueTuple.
LEMMA OneSlot ==
    ASSUME TypeOK, TypeOK', NEW s \in Slot,
           \A r \in Slot : SlotOK(conns[r].state, ledger[r], synAge[r]),
           \A r \in Slot \ {s} : /\ conns'[r] = conns[r]
                                 /\ ledger'[r] = ledger[r]
                                 /\ synAge'[r] = synAge[r],
           SlotOK(conns'[s].state, ledger'[s], synAge'[s])
    PROVE  \A r \in Slot : SlotOK(conns'[r].state, ledger'[r], synAge'[r])
  OBVIOUS

\* A slot that dies, or keeps its client, cannot collide with another.
LEMMA StillUnique ==
    ASSUME UniqueTuple, NEW s \in Slot,
           \A r \in Slot \ {s} : conns'[r] = conns[r],
           IsLive(s)' => IsLive(s) /\ conns'[s].tuple = conns[s].tuple
    PROVE  UniqueTuple'
<1>1. \A r \in Slot : IsLive(r)' => IsLive(r) /\ conns'[r].tuple = conns[r].tuple
  BY DEF IsLive
<1>2. QED
  BY <1>1 DEF UniqueTuple

\* conn_reset of one slot keeps the invariant.
LEMMA FreeKeeps ==
    ASSUME SlotInv, TypeOK', NEW s \in Slot, Free(s),
           \A r \in Slot \ {s} : synAge'[r] = synAge[r]
    PROVE  SlotInv'
<1>1. /\ conns'[s] = ClosedConn
      /\ ledger'[s] = [told |-> FALSE, heard |-> FALSE, seen |-> 0]
      /\ \A r \in Slot \ {s} : conns'[r] = conns[r] /\ ledger'[r] = ledger[r]
  BY DEF Free, SlotInv, TypeOK
<1>2. conns'[s].state = "CLOSED"
  BY <1>1 DEF ClosedConn
<1>3. SlotOK(conns'[s].state, ledger'[s], synAge'[s])
  BY <1>1, <1>2, AgeAssumption DEF SlotOK
<1>4. ~IsLive(s)'
  BY <1>2 DEF IsLive, Live
<1>5. UniqueTuple'
  BY <1>1, <1>4, StillUnique DEF SlotInv
<1>6. \A r \in Slot : SlotOK(conns'[r].state, ledger'[r], synAge'[r])
  BY <1>1, <1>3, OneSlot DEF SlotInv
<1>7. QED
  BY <1>5, <1>6 DEF SlotInv

\* A new connection takes a closed slot, for a client that has none.
LEMMA SynKeeps ==
    ASSUME SlotInv, TypeOK', NEW t \in Tuples, NEW seq \in SeqNo, LocalSyn(t, seq)
    PROVE  SlotInv'
<1>1. PICK s \in Slot :
        /\ ~IsLive(s)
        /\ conns' = [conns EXCEPT ![s] =
                       [state |-> "SYN_RCVD", tuple |-> t,
                        peerNext |-> Plus(seq, 1), ourNext |-> Isn(s)]]
  BY DEF LocalSyn, FirstFree
<1>2. /\ UNCHANGED <<synAge, ledger>>
      /\ \A r \in Slot : IsLive(r) => conns[r].tuple # t
  BY DEF LocalSyn, Matches
<1>3. /\ conns'[s].state = "SYN_RCVD" /\ conns'[s].tuple = t
      /\ \A r \in Slot \ {s} : conns'[r] = conns[r]
  BY <1>1 DEF SlotInv, TypeOK
<1>4. conns[s].state = "CLOSED"
  BY <1>1 DEF IsLive, SlotInv, TypeOK, Conn
<1>5. synAge[s] \in Nat
  BY DEF SlotInv, TypeOK
<1>6. SlotOK(conns'[s].state, ledger'[s], synAge'[s])
  <2>1. SlotOK("CLOSED", ledger[s], synAge[s])
    BY <1>4 DEF SlotInv
  <2>2. SlotOK("SYN_RCVD", ledger[s], synAge[s])
    BY <2>1, <1>5 DEF SlotOK
  <2>3. QED
    BY <1>2, <1>3, <2>2
<1>7. \A r \in Slot : SlotOK(conns'[r].state, ledger'[r], synAge'[r])
  BY <1>2, <1>3, <1>6, OneSlot DEF SlotInv
<1>8. UniqueTuple'
  <2>1. \A r \in Slot \ {s} : IsLive(r)' => IsLive(r) /\ conns'[r].tuple # t
    BY <1>2, <1>3 DEF IsLive
  <2>2. QED
    BY <1>3, <2>1 DEF SlotInv, UniqueTuple, IsLive
<1>9. QED
  BY <1>7, <1>8 DEF SlotInv

\* A segment moves its slot along, and a FIN is told to the peer.
LEMMA SegmentKeeps ==
    ASSUME SlotInv, TypeOK', NEW t \in Tuples, NEW seq \in SeqNo,
           NEW len \in 0 .. MaxLen, NEW ack \in BOOLEAN, NEW fin \in BOOLEAN,
           LocalSegment(t, seq, len, ack, fin)
    PROVE  SlotInv'
<1> DEFINE reached(s) == IF conns[s].state = "SYN_RCVD" /\ ack THEN "ESTAB"
                         ELSE conns[s].state
<1>1. PICK s \in Slot :
        /\ IsLive(s)
        /\ \/ Free(s)
           \/ /\ ~(fin /\ reached(s) = "FIN_REMOTE")
              /\ \E n \in SeqNo :
                   conns' = [conns EXCEPT ![s] =
                       [conns[s] EXCEPT
                          !.state = IF fin THEN "FIN_LOCAL" ELSE reached(s),
                          !.peerNext = n]]
              /\ ledger' = [ledger EXCEPT ![s].told = @ \/ fin]
        /\ UNCHANGED synAge
  <2>1. PICK s \in Slot : LET r == reached(s)
                          d == IF len > 0 THEN Plus(seq, len) ELSE conns[s].peerNext
                          f == IF fin THEN Plus(seq, len + 1) ELSE d
                      IN  /\ IsLive(s)
                          /\ IF fin /\ r = "FIN_REMOTE"
                             THEN Free(s)
                             ELSE /\ conns' = [conns EXCEPT ![s] =
                                      [conns[s] EXCEPT
                                         !.state = IF fin THEN "FIN_LOCAL" ELSE r,
                                         !.peerNext = f]]
                                  /\ ledger' = [ledger EXCEPT ![s].told = @ \/ fin]
    BY DEF LocalSegment, Matches
  <2>2. UNCHANGED synAge
    BY DEF LocalSegment
  <2>3. \A n \in Nat : Plus(seq, n) \in SeqNo
    <3>1. seq \in Nat
      BY DEF SeqNo
    <3>2. QED
      BY <3>1, PlusType
  <2>4. conns[s].peerNext \in SeqNo
    BY DEF SlotInv, TypeOK, Conn
  <2>5. len \in Nat /\ len + 1 \in Nat
    BY LenAssumption
  <2>6. QED
    BY <2>1, <2>2, <2>3, <2>4, <2>5
<1>2. CASE Free(s)
  BY <1>1, <1>2, FreeKeeps
<1>3. CASE ~Free(s)
  <2>1. /\ conns'[s].state = IF fin THEN "FIN_LOCAL" ELSE reached(s)
        /\ conns'[s].tuple = conns[s].tuple
        /\ \A r \in Slot \ {s} : conns'[r] = conns[r]
    <3>1. PICK n \in SeqNo :
            conns' = [conns EXCEPT ![s] =
                        [conns[s] EXCEPT
                           !.state = IF fin THEN "FIN_LOCAL" ELSE reached(s),
                           !.peerNext = n]]
      BY <1>1, <1>3
    <3>2. conns[s] \in Conn /\ DOMAIN conns = Slot
      BY DEF SlotInv, TypeOK
    <3>3. conns'[s] = [conns[s] EXCEPT
                         !.state = IF fin THEN "FIN_LOCAL" ELSE reached(s),
                         !.peerNext = n]
      BY <3>1, <3>2
    <3>4. \A r \in Slot \ {s} : conns'[r] = conns[r]
      BY <3>1, <3>2
    <3>5. QED
      BY <3>2, <3>3, <3>4 DEF Conn
  <2>2. /\ ledger'[s] = [ledger[s] EXCEPT !.told = @ \/ fin]
        /\ \A r \in Slot \ {s} : ledger'[r] = ledger[r]
    BY <1>1, <1>3 DEF SlotInv, TypeOK
  <2>3. /\ ledger'[s].told = (ledger[s].told \/ fin)
        /\ ledger'[s].heard = ledger[s].heard
        /\ ledger'[s].seen = ledger[s].seen
    BY <2>2 DEF SlotInv, TypeOK
  <2>4. /\ SlotOK(conns[s].state, ledger[s], synAge[s])
        /\ ~(fin /\ reached(s) = "FIN_REMOTE")
        /\ conns[s].state # "CLOSED"
    BY <1>1, <1>3 DEF SlotInv, IsLive, Live
  <2>5. SlotOK(conns'[s].state, ledger'[s], synAge[s])
    BY <2>1, <2>3, <2>4 DEF SlotOK
  <2>6. \A r \in Slot : SlotOK(conns'[r].state, ledger'[r], synAge'[r])
    BY <1>1, <2>1, <2>2, <2>5, OneSlot DEF SlotInv
  <2>7. UniqueTuple'
    BY <1>1, <2>1, StillUnique DEF SlotInv
  <2>8. QED
    BY <2>6, <2>7 DEF SlotInv
<1>4. QED
  BY <1>2, <1>3

\* A frame of the peer frees its slot, marks its half closed, or leaves its
\* state alone.
LEMMA PeerKeeps ==
    ASSUME SlotInv, TypeOK', NEW s \in Slot, Peer(s)
    PROVE  SlotInv'
<1>1. UNCHANGED synAge /\ IsLive(s)
  BY DEF Peer, PeerOpenAck, PeerData, PeerCloseWr, PeerRst
<1>2. CASE Free(s)
  BY <1>1, <1>2, FreeKeeps
<1>3. CASE ~Free(s)
  <2>1. /\ \A r \in Slot \ {s} : conns'[r] = conns[r] /\ ledger'[r] = ledger[r]
        /\ conns'[s].tuple = conns[s].tuple
        /\ \/ /\ conns'[s].state = conns[s].state
              /\ ledger'[s] = ledger[s]
           \/ /\ conns[s].state # "FIN_LOCAL"
              /\ conns'[s].state = "FIN_REMOTE"
              /\ ledger'[s] = [ledger[s] EXCEPT !.heard = TRUE]
    <3>1. ASSUME NEW ok \in BOOLEAN, PeerOpenAck(s, ok)
          PROVE  /\ conns' = [conns EXCEPT ![s].ourNext = Plus(@, 1)]
                 /\ UNCHANGED ledger
      BY <1>3, <3>1 DEF PeerOpenAck
    <3>2. ASSUME NEW len \in 1 .. MaxLen, PeerData(s, len)
          PROVE  /\ conns' = [conns EXCEPT ![s] =
                                 [conns[s] EXCEPT !.ourNext = Plus(@, len)]]
                 /\ UNCHANGED ledger
      BY <3>2 DEF PeerData
    <3>3. ASSUME PeerCloseWr(s)
          PROVE  /\ conns[s].state # "FIN_LOCAL"
                 /\ conns' = [conns EXCEPT ![s].ourNext = Plus(@, 1),
                                           ![s].state = "FIN_REMOTE"]
                 /\ ledger' = [ledger EXCEPT ![s].heard = TRUE]
      BY <1>3, <3>3 DEF PeerCloseWr
    <3>4. CASE PeerCloseWr(s)
      BY <3>3, <3>4 DEF SlotInv, TypeOK, Conn
    <3>5. CASE \E ok \in BOOLEAN : PeerOpenAck(s, ok)
      BY <3>1, <3>5 DEF SlotInv, TypeOK, Conn
    <3>6. CASE \E len \in 1 .. MaxLen : PeerData(s, len)
      BY <3>2, <3>6 DEF SlotInv, TypeOK, Conn
    <3>7. QED
      BY <1>3, <3>4, <3>5, <3>6 DEF Peer, PeerRst
  <2>2. /\ SlotOK(conns[s].state, ledger[s], synAge[s])
        /\ conns[s].state # "CLOSED"
    BY <1>1 DEF SlotInv, IsLive, Live
  <2>3. ledger[s] \in [told : BOOLEAN, heard : BOOLEAN, seen : Nat]
    BY DEF SlotInv, TypeOK
  <2>4. SlotOK(conns'[s].state, ledger'[s], synAge[s])
    BY <2>1, <2>2, <2>3 DEF SlotOK
  <2>5. \A r \in Slot : SlotOK(conns'[r].state, ledger'[r], synAge'[r])
    BY <1>1, <2>1, <2>4, OneSlot DEF SlotInv
  <2>6. UniqueTuple'
    BY <1>1, <2>1, StillUnique DEF SlotInv
  <2>7. QED
    BY <2>5, <2>6 DEF SlotInv
<1>4. QED
  BY <1>2, <1>3

\* The sweep counts a meeting only of a slot young enough to be met again.
LEMMA SweepKeeps ==
    ASSUME SlotInv, TypeOK', SweepSlot
    PROVE  SlotInv'
<1> DEFINE s == sweepAt
<1>1. s \in Slot
  BY SlotsAssumption DEF SweepSlot, Idle, Slot, SlotInv, TypeOK
<1>2. SlotOK(conns[s].state, ledger[s], synAge[s])
  BY <1>1 DEF SlotInv
<1>3. CASE SweepPast
  <2>1. /\ UNCHANGED <<conns, ledger>>
        /\ conns[s].state # "SYN_RCVD"
        /\ \A r \in Slot \ {s} : synAge'[r] = synAge[r]
    BY <1>1, <1>3 DEF SweepPast, SlotInv, TypeOK
  <2>2. SlotOK(conns'[s].state, ledger'[s], synAge'[s])
    BY <1>2, <2>1 DEF SlotOK
  <2>3. \A r \in Slot : SlotOK(conns'[r].state, ledger'[r], synAge'[r])
    BY <1>1, <2>1, <2>2, OneSlot DEF SlotInv
  <2>4. QED
    BY <2>1, <2>3 DEF SlotInv, UniqueTuple, IsLive
<1>4. CASE SweepAge
  <2>1. /\ UNCHANGED conns
        /\ conns[s].state = "SYN_RCVD"
        /\ synAge[s] + 1 <= SYN_RCVD_MAX_AGE
        /\ synAge'[s] = synAge[s] + 1
        /\ ledger'[s] = [ledger[s] EXCEPT !.seen = @ + 1]
        /\ \A r \in Slot \ {s} : synAge'[r] = synAge[r] /\ ledger'[r] = ledger[r]
    BY <1>1, <1>4, AgeAssumption DEF SweepAge, TooOld, SlotInv, TypeOK
  <2>2. synAge[s] \in Nat /\ ledger[s].seen \in Nat
    BY <1>1 DEF SlotInv, TypeOK
  <2>3. /\ ledger'[s].told = ledger[s].told
        /\ ledger'[s].heard = ledger[s].heard
        /\ ledger'[s].seen = ledger[s].seen + 1
    BY <1>1, <2>1 DEF SlotInv, TypeOK
  <2>4. SlotOK(conns'[s].state, ledger'[s], synAge'[s])
    BY <1>2, <2>1, <2>2, <2>3, AgeAssumption DEF SlotOK
  <2>5. \A r \in Slot : SlotOK(conns'[r].state, ledger'[r], synAge'[r])
    BY <1>1, <2>1, <2>4, OneSlot DEF SlotInv
  <2>6. QED
    BY <2>1, <2>5 DEF SlotInv, UniqueTuple, IsLive
<1>5. CASE SweepRecycle
  <2>1. Free(s) /\ \A r \in Slot \ {s} : synAge'[r] = synAge[r]
    BY <1>1, <1>5 DEF SweepRecycle, SlotInv, TypeOK
  <2>2. QED
    BY <1>1, <2>1, FreeKeeps
<1>6. QED
  BY <1>3, <1>4, <1>5 DEF SweepSlot

\* Every step keeps the invariant.
LEMMA SlotStep == SlotInv /\ [Next]_vars => SlotInv'
<1> SUFFICES ASSUME SlotInv, [Next]_vars PROVE SlotInv'
  OBVIOUS
<1>1. TypeOK'
  BY TypeStep DEF SlotInv
<1>2. CASE UNCHANGED <<conns, synAge, ledger>>
  BY <1>1, <1>2 DEF SlotInv, UniqueTuple, IsLive
<1>3. ASSUME NEW t \in Tuples, Local(t) PROVE SlotInv'
  <2>1. ASSUME NEW syn \in BOOLEAN, LocalIgnored(t, syn) PROVE SlotInv'
    BY <1>2, <2>1 DEF LocalIgnored
  <2>2. CASE LocalRst(t)
    BY <1>1, <2>2, FreeKeeps DEF LocalRst
  <2>3. QED
    BY <1>1, <1>3, <2>1, <2>2, SynKeeps, SegmentKeeps DEF Local
<1>4. ASSUME NEW s \in Slot, Peer(s) PROVE SlotInv'
  BY <1>1, <1>4, PeerKeeps
<1>5. CASE SweepStart
  BY <1>2, <1>5 DEF SweepStart
<1>6. CASE SweepSlot
  BY <1>1, <1>6, SweepKeeps
<1>7. CASE UNCHANGED vars
  BY <1>2, <1>7 DEF vars
<1>8. QED
  BY <1>3, <1>4, <1>5, <1>6, <1>7 DEF Next

\* The invariant holds in every behaviour.
LEMMA SlotInvariant == Spec => []SlotInv
<1>1. Init => SlotInv
  <2> SUFFICES ASSUME Init PROVE SlotInv
    OBVIOUS
  <2>1. TypeOK
    BY InitType
  <2>2. \A s \in Slot : conns[s].state = "CLOSED"
    BY DEF Init, ClosedConn
  <2>3. \A s \in Slot : SlotOK(conns[s].state, ledger[s], synAge[s])
    BY <2>2, AgeAssumption DEF Init, SlotOK
  <2>4. UniqueTuple
    BY <2>2 DEF UniqueTuple, IsLive, Live
  <2>5. QED
    BY <2>1, <2>3, <2>4 DEF SlotInv
<1>2. QED
  BY <1>1, SlotStep, PTL DEF Spec

\* A local connection has one slot, so a segment has one owner.
THEOREM OneOwner == Spec => []UniqueTuple
<1>1. SlotInv => UniqueTuple
  BY DEF SlotInv
<1>2. QED
  BY <1>1, SlotInvariant, PTL

\* The half-close states say which CLOSE_WR were exchanged, and a connection
\* with both halves closed keeps no slot.
THEOREM HalfCloseSound == Spec => []HalfCloseAccounted
<1>1. SlotInv => HalfCloseAccounted
  BY DEF SlotInv, SlotOK, HalfCloseAccounted
<1>2. QED
  BY <1>1, SlotInvariant, PTL

\* tun_tcp_sweep never lets a tenant wait for its handshake longer than
\* SYN_RCVD_MAX_AGE sweeps.
THEOREM HalfOpenIsBounded == Spec => []HalfOpenBounded
<1>1. SlotInv => HalfOpenBounded
  BY DEF SlotInv, SlotOK, HalfOpenBounded
<1>2. QED
  BY <1>1, SlotInvariant, PTL

------------------------------------------------------------------------------
(***************************************************************************)
(* What a step that frees a slot tells the two ends.                       *)
(***************************************************************************)
\* Either end has been told that the slot is freed.
Told(s) ==
    \/ \E i \in DOMAIN muxOut' : muxOut'[i].sid = s /\ muxOut'[i].type = "RST"
    \/ \E i \in DOMAIN tunOut' :
         tunOut'[i].tuple = conns[s].tuple /\ tunOut'[i].kind = "RST"
    \/ /\ ledger[s].told
       /\ \E i \in DOMAIN tunOut' : tunOut'[i].kind = "FIN"
    \/ /\ ledger[s].heard
       /\ \E i \in DOMAIN muxOut' : muxOut'[i].type = "CLOSE_WR"

\* The only element of a sequence, and the last of one that is put together.
LEMMA Only == ASSUME NEW x PROVE 1 \in DOMAIN <<x>> /\ <<x>>[1] = x
  OBVIOUS

LEMMA LastOf ==
    ASSUME NEW S, NEW q \in Seq(S), NEW x \in S
    PROVE  \E i \in DOMAIN (q \o <<x>>) : (q \o <<x>>)[i] = x
<1>1. /\ Len(q) \in Nat /\ Len(q) + 1 \in DOMAIN (q \o <<x>>)
      /\ (q \o <<x>>)[Len(q) + 1] = x
  OBVIOUS
<1>2. QED
  BY <1>1

\* What becomes of the slots that a step does not free.
LEMMA OthersLive ==
    ASSUME TypeOK, NEW s \in Slot, Free(s), NEW r \in Slot, IsLive(r), ~IsLive(r)'
    PROVE  r = s
  BY DEF TypeOK, Free, IsLive

LEMMA StaysLive ==
    ASSUME TypeOK, NEW s \in Slot, NEW c, conns' = [conns EXCEPT ![s] = c],
           c.state \in Live, NEW r \in Slot, IsLive(r)
    PROVE  IsLive(r)'
  BY DEF TypeOK, IsLive

\* A reset is told to the peer or to the client.
LEMMA FrameTells ==
    ASSUME NEW s \in Slot, muxOut' = <<FrameOf("RST", s, 0, 0)>>
    PROVE  Told(s)
<1>1. 1 \in DOMAIN muxOut' /\ muxOut'[1] = FrameOf("RST", s, 0, 0)
  BY Only
<1>2. QED
  BY <1>1 DEF Told, FrameOf

LEMMA SegmentTells ==
    ASSUME NEW s \in Slot, tunOut' = <<Segment(conns[s], "RST")>>
    PROVE  Told(s)
<1>1. 1 \in DOMAIN tunOut' /\ tunOut'[1] = Segment(conns[s], "RST")
  BY Only
<1>2. QED
  BY <1>1 DEF Told, Segment

\* The client's end of a stream whose other half was closed is passed on.
LEMMA SegmentReleases ==
    ASSUME SlotInv, NEW t \in Tuples, NEW seq \in SeqNo, NEW len \in 0 .. MaxLen,
           NEW ack \in BOOLEAN, NEW fin \in BOOLEAN, LocalSegment(t, seq, len, ack, fin),
           NEW r \in Slot, IsLive(r), ~IsLive(r)'
    PROVE  Told(r)
<1>1. TypeOK
  BY DEF SlotInv
<1>2. PICK s \in Slot :
        LET c == conns[s]
            reached == IF c.state = "SYN_RCVD" /\ ack THEN "ESTAB" ELSE c.state
            afterData == IF len > 0 THEN Plus(seq, len) ELSE c.peerNext
            afterFin == IF fin THEN Plus(seq, len + 1) ELSE afterData
            moved == [c EXCEPT !.state = IF fin THEN "FIN_LOCAL" ELSE reached,
                               !.peerNext = afterFin]
        IN  /\ Matches(s, t)
            /\ muxOut' = (IF len > 0 THEN <<FrameOf("DATA", s, seq, len)>> ELSE <<>>)
                           \o (IF fin THEN <<FrameOf("CLOSE_WR", s, 0, 0)>> ELSE <<>>)
            /\ IF fin /\ reached = "FIN_REMOTE"
               THEN Free(s)
               ELSE conns' = [conns EXCEPT ![s] = moved]
  BY DEF LocalSegment, Emit
<1>3. conns[s] \in Conn /\ conns[s].state \in Live
  BY <1>1, <1>2 DEF Matches, IsLive, TypeOK
<1> DEFINE reached == IF conns[s].state = "SYN_RCVD" /\ ack THEN "ESTAB" ELSE conns[s].state
<1>4. CASE fin /\ reached = "FIN_REMOTE"
  <2>1. r = s /\ conns[s].state = "FIN_REMOTE"
    BY <1>1, <1>2, <1>4, OthersLive
  <2>2. ledger[s].heard
    BY <2>1 DEF SlotInv, SlotOK
  <2>3. FrameOf("CLOSE_WR", s, 0, 0) \in Frame /\ FrameOf("DATA", s, seq, len) \in Frame
    BY FrameType, ZeroType
  <2> DEFINE q == IF len > 0 THEN <<FrameOf("DATA", s, seq, len)>> ELSE <<>>
  <2>4. q \in Seq(Frame)
    BY <2>3, OneOrNone
  <2>5. muxOut' = q \o <<FrameOf("CLOSE_WR", s, 0, 0)>>
    BY <1>2, <1>4
  <2> HIDE DEF q
  <2>6. PICK i \in DOMAIN muxOut' : muxOut'[i] = FrameOf("CLOSE_WR", s, 0, 0)
    BY <2>3, <2>4, <2>5, LastOf
  <2>7. QED
    BY <2>1, <2>2, <2>6 DEF Told, FrameOf
<1>5. CASE ~(fin /\ reached = "FIN_REMOTE")
  <2>1. PICK seqno : conns' = [conns EXCEPT ![s] =
                       [conns[s] EXCEPT !.state = IF fin THEN "FIN_LOCAL" ELSE reached,
                                        !.peerNext = seqno]]
    BY <1>2, <1>5
  <2>2. [conns[s] EXCEPT !.state = IF fin THEN "FIN_LOCAL" ELSE reached,
                         !.peerNext = seqno].state \in Live
    BY <1>3 DEF Conn, Live
  <2>3. QED
    BY <1>1, <2>1, <2>2, StaysLive
<1>6. QED
  BY <1>4, <1>5

\* The peer's frames.
LEMMA PeerReleases ==
    ASSUME SlotInv, NEW s \in Slot, Peer(s), NEW r \in Slot, IsLive(r), ~IsLive(r)'
    PROVE  Told(r)
<1>1. TypeOK /\ conns[s] \in Conn /\ IsLive(s)
  BY DEF SlotInv, TypeOK, Peer, PeerOpenAck, PeerData, PeerCloseWr, PeerRst
<1>2. ASSUME Free(s), Told(s) PROVE Told(r)
  BY <1>1, <1>2, OthersLive
<1>3. ASSUME NEW ok \in BOOLEAN, PeerOpenAck(s, ok) PROVE Told(r)
  <2>1. CASE ok
    <3>1. conns' = [conns EXCEPT ![s] = [conns[s] EXCEPT !.ourNext = Plus(@, 1)]]
      BY <1>1, <1>3, <2>1 DEF PeerOpenAck, TypeOK
    <3>2. [conns[s] EXCEPT !.ourNext = Plus(@, 1)].state \in Live
      BY <1>1 DEF Conn, IsLive
    <3>3. QED
      BY <1>1, <3>1, <3>2, StaysLive
  <2>2. CASE ~ok
    BY <1>2, <1>3, <2>2, SegmentTells DEF PeerOpenAck, Emit
  <2>3. QED
    BY <2>1, <2>2
<1>4. ASSUME NEW len \in 1 .. MaxLen, PeerData(s, len) PROVE Told(r)
  <2>1. conns' = [conns EXCEPT ![s] = [conns[s] EXCEPT !.ourNext = Plus(@, len)]]
    BY <1>4 DEF PeerData
  <2>2. [conns[s] EXCEPT !.ourNext = Plus(@, len)].state \in Live
    BY <1>1 DEF Conn, IsLive
  <2>3. QED
    BY <1>1, <2>1, <2>2, StaysLive
<1>5. CASE PeerCloseWr(s)
  <2>1. CASE conns[s].state = "FIN_LOCAL"
    <3>1. ledger[s].told /\ Free(s) /\ tunOut' = <<Segment(conns[s], "FIN")>>
      BY <1>5, <2>1 DEF PeerCloseWr, Emit, SlotInv, SlotOK
    <3>2. 1 \in DOMAIN tunOut' /\ tunOut'[1].kind = "FIN"
      BY <3>1, Only DEF Segment
    <3>3. QED
      BY <1>2, <3>1, <3>2 DEF Told
  <2>2. CASE conns[s].state # "FIN_LOCAL"
    <3>1. conns' = [conns EXCEPT ![s] = [conns[s] EXCEPT !.ourNext = Plus(@, 1),
                                                         !.state = "FIN_REMOTE"]]
      BY <1>1, <1>5, <2>2 DEF PeerCloseWr, TypeOK
    <3>2. [conns[s] EXCEPT !.ourNext = Plus(@, 1), !.state = "FIN_REMOTE"].state \in Live
      BY <1>1 DEF Conn, Live
    <3>3. QED
      BY <1>1, <3>1, <3>2, StaysLive
  <2>3. QED
    BY <2>1, <2>2
<1>6. CASE PeerRst(s)
  BY <1>2, <1>6, SegmentTells DEF PeerRst, Emit
<1>7. QED
  BY <1>3, <1>4, <1>5, <1>6 DEF Peer

\* No slot is freed behind the back of both ends, whatever the segments, the
\* frames and the sweep do.
THEOREM ReleaseIsTold == Spec => NoSilentRelease
<1>1. SlotInv /\ [Next]_vars => [\A s \in Slot : IsLive(s) /\ ~IsLive(s)' => Told(s)]_vars
  <2> SUFFICES ASSUME SlotInv, [Next]_vars, NEW r \in Slot, IsLive(r), ~IsLive(r)'
               PROVE  Told(r)
    OBVIOUS
  <2>1. TypeOK
    BY DEF SlotInv
  <2>2. UNCHANGED conns => FALSE
    BY DEF IsLive
  <2>3. ASSUME NEW t \in Tuples, Local(t) PROVE Told(r)
    <3>1. ASSUME NEW seq \in SeqNo, LocalSyn(t, seq) PROVE FALSE
      <4>1. PICK s \in Slot :
              conns' = [conns EXCEPT ![s] =
                          [state |-> "SYN_RCVD", tuple |-> t,
                           peerNext |-> Plus(seq, 1), ourNext |-> Isn(s)]]
        BY <3>1 DEF LocalSyn
      <4>2. QED
        BY <2>1, <4>1, StaysLive DEF Live
    <3>2. CASE LocalRst(t)
      BY <2>1, <3>2, OthersLive, FrameTells DEF LocalRst, Emit
    <3>3. QED
      BY <2>2, <2>3, <3>1, <3>2, SegmentReleases DEF Local, LocalIgnored
  <2>4. CASE SweepSlot
    <3>1. sweepAt \in Slot
      BY <2>1, <2>4, SlotsAssumption DEF SweepSlot, Idle, Slot, TypeOK
    <3>2. QED
      BY <2>1, <2>2, <2>4, <3>1, OthersLive, FrameTells
         DEF SweepSlot, SweepPast, SweepAge, SweepRecycle, Emit
  <2>5. QED
    BY <2>2, <2>3, <2>4, PeerReleases DEF Next, SweepStart, vars
<1>2. QED
  BY <1>1, SlotInvariant, PTL DEF Spec, NoSilentRelease, Told

==============================================================================
