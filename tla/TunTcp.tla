-------------------------------- MODULE TunTcp --------------------------------
(***************************************************************************)
(* The userland TCP end of the daemon (panctl/tun_tcp.c).  The local       *)
(* kernel's TCP clients reach it through the tun device; every connection  *)
(* is one slot of conns[] and one stream of the mux protocol, whose id is  *)
(* STREAM_ID_BASE + slot.  Here a stream id is the index of its slot.      *)
(*                                                                         *)
(* Each handler runs to its end and leaves in muxOut the frames it handed  *)
(* to the mux session and in tunOut the segments it wrote to the tun, in   *)
(* order; the results of both calls are ignored by the code.  Payloads are *)
(* counted in units of OUR_MSS bytes.  tun_tcp_sweep's loop is the one     *)
(* handler split into steps: sweepAt is the slot it visits next.           *)
(***************************************************************************)
EXTENDS Integers, Sequences

CONSTANTS
    MAX_TCP_CONNS,     \* slots
    SYN_RCVD_MAX_AGE,  \* sweeps a slot may stay in SYN_RCVD
    SEQ_SPACE,         \* sequence numbers, 2^32 in the code
    ISN_STRIDE,        \* distance of the initial numbers of two slots
    Tuples,            \* 5-tuples of the local clients
    NoTuple,           \* the tuple of a slot filled with zeros
    MaxLen             \* bound: payload of one segment or frame

ASSUME SlotsAssumption == MAX_TCP_CONNS \in Nat \ {0}
ASSUME AgeAssumption == SYN_RCVD_MAX_AGE \in Nat
ASSUME SeqAssumption == SEQ_SPACE \in Nat \ {0} /\ ISN_STRIDE \in Nat
ASSUME LenAssumption == MaxLen \in Nat
ASSUME TupleAssumption == NoTuple \notin Tuples

VARIABLES
    conns,    \* the connection in each slot
    synAge,   \* syn_age
    sweepAt,  \* the slot tun_tcp_sweep visits next; MAX_TCP_CONNS outside it
    muxOut,   \* frames the last step handed to the mux session
    tunOut,   \* segments the last step wrote to the tun
    ledger    \* history: CLOSE_WR sent (told) and received (heard), and the
              \* sweeps that met the present tenant in SYN_RCVD (seen)

vars == <<conns, synAge, sweepAt, muxOut, tunOut, ledger>>

Slot == 0 .. MAX_TCP_CONNS - 1
Live == {"SYN_RCVD", "ESTAB", "FIN_LOCAL", "FIN_REMOTE"}
SeqNo == 0 .. SEQ_SPACE - 1

Conn == [state : Live \cup {"CLOSED"}, tuple : Tuples \cup {NoTuple},
         peerNext : SeqNo, ourNext : SeqNo]

Frame == [type : {"OPEN", "DATA", "CLOSE_WR", "RST"}, sid : Slot,
          seq : SeqNo, len : Nat]

OutSegment == [kind : {"SYNACK", "ACK", "DATA", "FIN", "RST"},
               tuple : Tuples \cup {NoTuple}, seq : SeqNo, ack : SeqNo]

TypeOK ==
    /\ conns \in [Slot -> Conn]
    /\ synAge \in [Slot -> Nat]
    /\ sweepAt \in 0 .. MAX_TCP_CONNS
    /\ muxOut \in Seq(Frame)
    /\ tunOut \in Seq(OutSegment)
    /\ ledger \in [Slot -> [told : BOOLEAN, heard : BOOLEAN, seen : Nat]]

------------------------------------------------------------------------------
IsLive(s) == conns[s].state \in Live

ClosedConn ==
    [state |-> "CLOSED", tuple |-> NoTuple, peerNext |-> 0, ourNext |-> 0]

\* Mistake: the arithmetic does not wrap around.
PlusUnwrapped(seq, n) == seq + n

Plus(seq, n) == (seq + n) % SEQ_SPACE

\* OUR_ISN_BASE + (slot << 16), counted from OUR_ISN_BASE.
Isn(s) == (s * ISN_STRIDE) % SEQ_SPACE

FrameOf(type, s, seq, len) == [type |-> type, sid |-> s, seq |-> seq, len |-> len]

\* build_segment and write_segment.
Segment(c, kind) ==
    [kind |-> kind, tuple |-> c.tuple, seq |-> c.ourNext, ack |-> c.peerNext]

Emit(frames, segments) == muxOut' = frames /\ tunOut' = segments

Free(s) ==
    /\ conns' = [conns EXCEPT ![s] = ClosedConn]
    /\ ledger' = [ledger EXCEPT ![s] =
                    [told |-> FALSE, heard |-> FALSE, seen |-> 0]]

Idle == sweepAt = MAX_TCP_CONNS

\* Mistake: the age is compared before it is incremented.
TooOldLate(s) == synAge[s] > SYN_RCVD_MAX_AGE

\* ++t->syn_age[i] > SYN_RCVD_MAX_AGE
TooOld(s) == synAge[s] + 1 > SYN_RCVD_MAX_AGE

------------------------------------------------------------------------------
Init ==
    /\ conns = [s \in Slot |-> ClosedConn]
    /\ synAge = [s \in Slot |-> 0]
    /\ sweepAt = MAX_TCP_CONNS
    /\ muxOut = <<>>
    /\ tunOut = <<>>
    /\ ledger = [s \in Slot |-> [told |-> FALSE, heard |-> FALSE, seen |-> 0]]

Matches(s, t) == IsLive(s) /\ conns[s].tuple = t

\* conn_alloc: the first closed slot.
FirstFree(s) == ~IsLive(s) /\ \A r \in Slot : r < s => IsLive(r)

\* Mistake: a repeated SYN is taken for a new one.
LocalSynRepeated(t, seq) ==
    /\ Idle
    /\ \E s \in Slot :
         /\ FirstFree(s)
         /\ conns' = [conns EXCEPT ![s] =
                        [state |-> "SYN_RCVD", tuple |-> t,
                         peerNext |-> Plus(seq, 1), ourNext |-> Isn(s)]]
         /\ Emit(<<FrameOf("OPEN", s, 0, 0)>>, <<>>)
    /\ UNCHANGED <<synAge, sweepAt, ledger>>

\* A SYN of a local client that no live slot matches, and a free slot.
LocalSyn(t, seq) ==
    /\ Idle
    /\ ~\E s \in Slot : Matches(s, t)
    /\ \E s \in Slot :
         /\ FirstFree(s)
         /\ conns' = [conns EXCEPT ![s] =
                        [state |-> "SYN_RCVD", tuple |-> t,
                         peerNext |-> Plus(seq, 1), ourNext |-> Isn(s)]]
         /\ Emit(<<FrameOf("OPEN", s, 0, 0)>>, <<>>)
    /\ UNCHANGED <<synAge, sweepAt, ledger>>

\* A packet that changes nothing: a SYN that a slot matches or that finds no
\* slot, or a segment of no connection.
LocalIgnored(t, syn) ==
    /\ Idle
    /\ IF syn
       THEN \/ \E s \in Slot : Matches(s, t)
            \/ \A s \in Slot : IsLive(s)
       ELSE ~\E s \in Slot : Matches(s, t)
    /\ Emit(<<>>, <<>>)
    /\ UNCHANGED <<conns, synAge, sweepAt, ledger>>

\* Mistake: the stream is dropped without telling the peer.
LocalRstSilent(t) ==
    /\ Idle
    /\ \E s \in Slot :
         /\ Matches(s, t)
         /\ Free(s)
         /\ Emit(<<>>, <<>>)
    /\ UNCHANGED <<synAge, sweepAt>>

LocalRst(t) ==
    /\ Idle
    /\ \E s \in Slot :
         /\ Matches(s, t)
         /\ Free(s)
         /\ Emit(<<FrameOf("RST", s, 0, 0)>>, <<>>)
    /\ UNCHANGED <<synAge, sweepAt>>

\* A segment with neither SYN nor RST, as a handler of the slot it matches:
\* the state moves on, payload is forwarded and acknowledged, then FIN is.
LocalSegment(t, seq, len, ack, fin) ==
    /\ Idle
    /\ \E s \in Slot :
         LET c == conns[s]
             reached == IF c.state = "SYN_RCVD" /\ ack THEN "ESTAB" ELSE c.state
             afterData == IF len > 0 THEN Plus(seq, len) ELSE c.peerNext
             afterFin == IF fin THEN Plus(seq, len + 1) ELSE afterData
             moved == [c EXCEPT !.state = IF fin THEN "FIN_LOCAL" ELSE reached,
                                !.peerNext = afterFin]
         IN  /\ Matches(s, t)
             /\ Emit((IF len > 0 THEN <<FrameOf("DATA", s, seq, len)>> ELSE <<>>)
                       \o (IF fin THEN <<FrameOf("CLOSE_WR", s, 0, 0)>> ELSE <<>>),
                     (IF len > 0
                      THEN <<Segment([c EXCEPT !.peerNext = afterData], "ACK")>>
                      ELSE <<>>)
                       \o (IF fin THEN <<Segment(moved, "ACK")>> ELSE <<>>))
             /\ IF fin /\ reached = "FIN_REMOTE"
                THEN Free(s)
                ELSE /\ conns' = [conns EXCEPT ![s] = moved]
                     /\ ledger' = [ledger EXCEPT ![s].told = @ \/ fin]
    /\ UNCHANGED <<synAge, sweepAt>>

------------------------------------------------------------------------------
\* tun_tcp_on_tcp_open_ack, on_tcp_data, on_tcp_close_wr and on_tcp_rst for the
\* stream of slot s.  A frame for a stream that is not live is not theirs.
PeerOpenAck(s, ok) ==
    /\ Idle
    /\ IsLive(s)
    /\ IF ok
       THEN /\ conns' = [conns EXCEPT ![s].ourNext = Plus(@, 1)]
            /\ Emit(<<>>, <<Segment(conns[s], "SYNACK")>>)
            /\ UNCHANGED ledger
       ELSE /\ Free(s)
            /\ Emit(<<>>, <<Segment(conns[s], "RST")>>)
    /\ UNCHANGED <<synAge, sweepAt>>

PeerData(s, len) ==
    LET after(n) == [conns[s] EXCEPT !.ourNext = Plus(@, n)]
    IN  /\ Idle
        /\ IsLive(s)
        /\ conns' = [conns EXCEPT ![s] = after(len)]
        /\ Emit(<<>>, [i \in 1 .. len |-> Segment(after(i - 1), "DATA")])
        /\ UNCHANGED <<synAge, sweepAt, ledger>>

\* Mistake: the peer's half is closed without looking at our own.
PeerCloseWrForgetful(s) ==
    /\ Idle
    /\ IsLive(s)
    /\ Emit(<<>>, <<Segment(conns[s], "FIN")>>)
    /\ conns' = [conns EXCEPT ![s].ourNext = Plus(@, 1),
                              ![s].state = "FIN_REMOTE"]
    /\ ledger' = [ledger EXCEPT ![s].heard = TRUE]
    /\ UNCHANGED <<synAge, sweepAt>>

PeerCloseWr(s) ==
    /\ Idle
    /\ IsLive(s)
    /\ Emit(<<>>, <<Segment(conns[s], "FIN")>>)
    /\ IF conns[s].state = "FIN_LOCAL"
       THEN Free(s)
       ELSE /\ conns' = [conns EXCEPT ![s].ourNext = Plus(@, 1),
                                      ![s].state = "FIN_REMOTE"]
            /\ ledger' = [ledger EXCEPT ![s].heard = TRUE]
    /\ UNCHANGED <<synAge, sweepAt>>

PeerRst(s) ==
    /\ Idle
    /\ IsLive(s)
    /\ Free(s)
    /\ Emit(<<>>, <<Segment(conns[s], "RST")>>)
    /\ UNCHANGED <<synAge, sweepAt>>

------------------------------------------------------------------------------
\* The slow tick of on_tcp_sweep_timer enters tun_tcp_sweep.
SweepStart ==
    /\ Idle
    /\ sweepAt' = 0
    /\ Emit(<<>>, <<>>)
    /\ UNCHANGED <<conns, synAge, ledger>>

\* The three ways of one iteration, at the slot sweepAt: a slot that does not
\* wait for its handshake gets its age cleared, one that does ages, and one too
\* old is recycled.
SweepPast ==
    /\ conns[sweepAt].state # "SYN_RCVD"
    /\ synAge' = [synAge EXCEPT ![sweepAt] = 0]
    /\ Emit(<<>>, <<>>)
    /\ UNCHANGED <<conns, ledger>>

SweepAge ==
    /\ conns[sweepAt].state = "SYN_RCVD"
    /\ ~TooOld(sweepAt)
    /\ synAge' = [synAge EXCEPT ![sweepAt] = @ + 1]
    /\ ledger' = [ledger EXCEPT ![sweepAt].seen = @ + 1]
    /\ Emit(<<>>, <<>>)
    /\ UNCHANGED conns

SweepRecycle ==
    /\ conns[sweepAt].state = "SYN_RCVD"
    /\ TooOld(sweepAt)
    /\ synAge' = [synAge EXCEPT ![sweepAt] = 0]
    /\ Free(sweepAt)
    /\ Emit(<<FrameOf("RST", sweepAt, 0, 0)>>, <<>>)

SweepSlot ==
    /\ ~Idle
    /\ sweepAt' = sweepAt + 1
    /\ SweepPast \/ SweepAge \/ SweepRecycle

------------------------------------------------------------------------------
Local(t) ==
    \/ \E seq \in SeqNo : LocalSyn(t, seq)
    \/ \E syn \in BOOLEAN : LocalIgnored(t, syn)
    \/ LocalRst(t)
    \/ \E seq \in SeqNo, len \in 0 .. MaxLen, ack, fin \in BOOLEAN :
         LocalSegment(t, seq, len, ack, fin)

Peer(s) ==
    \/ \E ok \in BOOLEAN : PeerOpenAck(s, ok)
    \/ \E len \in 1 .. MaxLen : PeerData(s, len)
    \/ PeerCloseWr(s)
    \/ PeerRst(s)

Next ==
    \/ \E t \in Tuples : Local(t)
    \/ \E s \in Slot : Peer(s)
    \/ SweepStart
    \/ SweepSlot

Spec == Init /\ [][Next]_vars

------------------------------------------------------------------------------
\* Two live slots never serve the same local connection, so a segment from the
\* tun has one slot and find_by_5tuple cannot pick the wrong one.
UniqueTuple ==
    \A r, s \in Slot :
        IsLive(r) /\ IsLive(s) /\ conns[r].tuple = conns[s].tuple => r = s

\* The half-close states are exactly what was exchanged: FIN_LOCAL means that
\* the peer was told and has not answered, FIN_REMOTE the converse, and a slot
\* with both halves closed is never kept.
HalfCloseAccounted ==
    \A s \in Slot :
        /\ conns[s].state = "FIN_LOCAL" <=> ledger[s].told
        /\ conns[s].state = "FIN_REMOTE" <=> ledger[s].heard

\* The sweep frees a connection that hangs in SYN_RCVD before it has been met
\* there more than SYN_RCVD_MAX_AGE times, whatever else happens to the slots.
HalfOpenBounded == \A s \in Slot : ledger[s].seen <= SYN_RCVD_MAX_AGE

\* No slot is freed behind the peer's back: either the peer is sent RST, or the
\* client is (the peer ended the stream), or both halves have been closed.  To
\* send is to offer to the mux, whose result the code ignores (tun_tcp.c:313, 331,
\* 447): a frame that is refused there counts.
NoSilentRelease ==
    [][\A s \in Slot :
          IsLive(s) /\ ~IsLive(s)' =>
              \/ \E i \in DOMAIN muxOut' :
                    muxOut'[i].sid = s /\ muxOut'[i].type = "RST"
              \/ \E i \in DOMAIN tunOut' :
                    tunOut'[i].tuple = conns[s].tuple /\ tunOut'[i].kind = "RST"
              \/ /\ ledger[s].told
                 /\ \E i \in DOMAIN tunOut' : tunOut'[i].kind = "FIN"
              \/ /\ ledger[s].heard
                 /\ \E i \in DOMAIN muxOut' : muxOut'[i].type = "CLOSE_WR"]_vars

==============================================================================
