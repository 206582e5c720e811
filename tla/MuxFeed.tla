------------------------------- MODULE MuxFeed -------------------------------
(***************************************************************************)
(* How the daemon cuts the byte stream of RFCOMM into frames (mux_feed and *)
(* dispatch_frame in panctl/mux.c) and what main.c makes of it when a      *)
(* frame is bad or the channel closes.  A packet of the channel has any    *)
(* size; mux_feed loops over it and keeps what is left of a frame for the  *)
(* next packet.                                                            *)
(*                                                                         *)
(* A byte is named by its frame and its place in it.  Of a header only the *)
(* length is kept, and whether dispatch_frame accepts the frame (version,  *)
(* type, payload).  External: the phone, which writes frames, and the      *)
(* link, which may close between any two bytes.                            *)
(***************************************************************************)
EXTENDS Naturals, Sequences

CONSTANTS
    FRAME_HEADER_SIZE,
    Lengths,     \* payload lengths of the frames
    Faults,      \* whether frames may be bad and allocations fail
    MaxFrames,   \* bound: frames the phone writes
    MaxChannels, \* bound: channels opened
    MaxPacket    \* bound: bytes of a packet

ASSUME HeaderAssumption == FRAME_HEADER_SIZE \in Nat \ {0}
ASSUME LengthsAssumption == Lengths \subseteq Nat
ASSUME FramesAssumption == MaxFrames \in Nat
ASSUME ChannelsAssumption == MaxChannels \in Nat
ASSUME PacketAssumption == MaxPacket \in Nat
ASSUME FaultsAssumption == Faults \in BOOLEAN

VARIABLES
    up, channels, \* whether a channel is open; how many have been opened
    book,         \* the frames written so far
    wire,         \* bytes written on the channel and not yet received
    chunk,        \* the part of buf[i..len) of mux_feed not yet taken
    phase,        \* phase
    hdr,          \* hdr_buf[0..hdr_filled)
    current,      \* current
    payload,      \* payload[0..payload_filled)
    dispatched,   \* history: frames dispatched while this channel is open
    first,        \* history: frames written before this channel opened
    clean         \* history: mux_feed has not failed, and no channel closed
                  \* inside a frame

link == <<up, channels, book, wire>>
parser == <<phase, hdr, current, payload>>
history == <<dispatched, first, clean>>
vars == <<link, chunk, parser, history>>

FrameNo == 1 .. MaxFrames
Garbled == 0
Byte == FrameNo \X Nat

TypeOK ==
    /\ up \in BOOLEAN /\ clean \in BOOLEAN
    /\ channels \in 0 .. MaxChannels
    /\ book \in Seq([length : Lengths, ok : BOOLEAN])
    /\ wire \in Seq(Byte) /\ chunk \in Seq(Byte)
    /\ phase \in {"MUX_READ_HEADER", "MUX_READ_PAYLOAD"}
    /\ hdr \in Seq(Byte) /\ Len(hdr) < FRAME_HEADER_SIZE
    /\ current \in [no : FrameNo \cup {Garbled}, length : Lengths \cup {0}, ok : BOOLEAN]
    /\ payload \in Seq(Byte) /\ Len(payload) <= current.length
    /\ dispatched \in Seq(FrameNo \cup {Garbled})
    /\ first \in 0 .. MaxFrames

Init ==
    /\ up = FALSE /\ channels = 0
    /\ book = <<>> /\ wire = <<>> /\ chunk = <<>>
    /\ phase = "MUX_READ_HEADER" /\ hdr = <<>> /\ payload = <<>>
    /\ current = [no |-> Garbled, length |-> 0, ok |-> TRUE]
    /\ dispatched = <<>> /\ first = 0 /\ clean = TRUE

------------------------------------------------------------------------------
Bytes(no, from, to) == [i \in 1 .. to - from + 1 |-> <<no, from + i - 1>>]
Header(no) == Bytes(no, 1, FRAME_HEADER_SIZE)
Body(no) == Bytes(no, FRAME_HEADER_SIZE + 1, FRAME_HEADER_SIZE + book[no].length)

Idle == chunk = <<>>
Smaller(a, b) == IF a < b THEN a ELSE b
First(s, n) == SubSeq(s, 1, n)
Rest(s, n) == SubSeq(s, n + 1, Len(s))

\* frame_hdr_decode: bytes that are no header read as any header.
Decode(bytes) ==
    IF \E no \in 1 .. Len(book) : bytes = Header(no)
    THEN {[no |-> bytes[1][1], length |-> book[bytes[1][1]].length,
           ok |-> book[bytes[1][1]].ok]}
    ELSE [no : {Garbled}, length : Lengths, ok : BOOLEAN]

\* The frame a callback sees.
Seen(frame, body) ==
    IF frame.no # Garbled /\ body = Body(frame.no) THEN frame.no ELSE Garbled

\* A callback is called, and the loop goes on.
Dispatch(frame, body, n) ==
    /\ frame.ok
    /\ dispatched' = Append(dispatched, Seen(frame, body))
    /\ chunk' = Rest(chunk, n)
    /\ UNCHANGED <<first, clean>>

\* report_error and return -1: the rest of the packet is dropped.
Fail ==
    /\ clean' = FALSE
    /\ chunk' = <<>>
    /\ UNCHANGED <<dispatched, first>>

Want == IF phase = "MUX_READ_HEADER" THEN FRAME_HEADER_SIZE - Len(hdr)
                                     ELSE current.length - Len(payload)
Take == Smaller(Want, Len(chunk))

\* Mistake: what was kept of a header is not counted.
FeedPartForgetful ==
    /\ ~Idle /\ Take < Want
    /\ IF phase = "MUX_READ_HEADER"
       THEN hdr' = chunk /\ UNCHANGED payload
       ELSE payload' = payload \o chunk /\ UNCHANGED hdr
    /\ chunk' = <<>>
    /\ UNCHANGED <<link, phase, current, history>>

\* The packet ends within a header or within a payload.
FeedPart ==
    /\ ~Idle /\ Take < Want
    /\ IF phase = "MUX_READ_HEADER"
       THEN hdr' = hdr \o chunk /\ UNCHANGED payload
       ELSE payload' = payload \o chunk /\ UNCHANGED hdr
    /\ chunk' = <<>>
    /\ UNCHANGED <<link, phase, current, history>>

\* Mistake: payload_filled is not reset.
FeedHeaderStale ==
    /\ ~Idle /\ phase = "MUX_READ_HEADER" /\ Take = Want
    /\ hdr' = <<>>
    /\ current' \in Decode(hdr \o First(chunk, Take))
    /\ \/ /\ current'.length = 0
          /\ Dispatch(current', <<>>, Take) \/ (~current'.ok /\ Fail)
          /\ UNCHANGED phase
       \/ /\ current'.length > 0
          /\ phase' = "MUX_READ_PAYLOAD"
          /\ chunk' = Rest(chunk, Take)
          /\ UNCHANGED history
    /\ UNCHANGED <<link, payload>>

\* Mistake: an empty payload is waited for.
FeedHeaderWaits ==
    /\ ~Idle /\ phase = "MUX_READ_HEADER" /\ Take = Want
    /\ hdr' = <<>> /\ payload' = <<>>
    /\ current' \in Decode(hdr \o First(chunk, Take))
    /\ phase' = "MUX_READ_PAYLOAD"
    /\ chunk' = Rest(chunk, Take)
    /\ UNCHANGED <<link, history>>

\* A header is complete.
FeedHeader ==
    /\ ~Idle /\ phase = "MUX_READ_HEADER" /\ Take = Want
    /\ hdr' = <<>> /\ payload' = <<>>
    /\ current' \in Decode(hdr \o First(chunk, Take))
    /\ \/ /\ current'.length = 0
          /\ Dispatch(current', <<>>, Take) \/ (~current'.ok /\ Fail)
          /\ UNCHANGED phase
       \/ /\ current'.length > 0
          /\ phase' = "MUX_READ_PAYLOAD"
          /\ chunk' = Rest(chunk, Take)
          /\ UNCHANGED history
       \/ /\ current'.length > 0 /\ Faults \* payload alloc failed
          /\ Fail
          /\ UNCHANGED phase
    /\ UNCHANGED link

\* Mistake: the error of a frame with a payload is not returned.
FeedPayloadGoesOn ==
    /\ ~Idle /\ phase = "MUX_READ_PAYLOAD" /\ Take = Want
    /\ payload' = payload \o First(chunk, Take)
    /\ \/ Dispatch(current, payload', Take) /\ phase' = "MUX_READ_HEADER"
       \/ ~current.ok /\ chunk' = Rest(chunk, Take) /\ UNCHANGED <<phase, history>>
    /\ UNCHANGED <<link, hdr, current>>

\* A payload is complete.  After a failure phase stays, so the next packet
\* finds it complete again.
FeedPayload ==
    /\ ~Idle /\ phase = "MUX_READ_PAYLOAD" /\ Take = Want
    /\ payload' = payload \o First(chunk, Take)
    /\ \/ Dispatch(current, payload', Take) /\ phase' = "MUX_READ_HEADER"
       \/ ~current.ok /\ Fail /\ UNCHANGED phase
    /\ UNCHANGED <<link, hdr, current>>

------------------------------------------------------------------------------
\* The run loop enters mux_feed with a packet; no other handler runs before it
\* returns, and its result is ignored.
Packet(n) ==
    /\ up /\ Idle
    /\ chunk' = First(wire, n)
    /\ wire' = Rest(wire, n)
    /\ UNCHANGED <<up, channels, book, parser, history>>

\* RFCOMM_EVENT_CHANNEL_OPENED and RFCOMM_EVENT_CHANNEL_CLOSED: the parser is
\* left as it is.
ChannelOpened ==
    /\ ~up /\ channels < MaxChannels
    /\ up' = TRUE /\ channels' = channels + 1
    /\ dispatched' = <<>> /\ first' = Len(book)
    /\ UNCHANGED <<book, wire, chunk, parser, clean>>

ChannelClosed ==
    /\ up /\ Idle
    /\ up' = FALSE
    /\ wire' = <<>>
    /\ clean' = (clean /\ hdr = <<>> /\ phase = "MUX_READ_HEADER")
    /\ UNCHANGED <<channels, book, chunk, parser, dispatched, first>>

PhoneWrites(length, ok) ==
    /\ up /\ Len(book) < MaxFrames
    /\ book' = Append(book, [length |-> length, ok |-> ok])
    /\ wire' = wire \o Bytes(Len(book'), 1, FRAME_HEADER_SIZE + length)
    /\ UNCHANGED <<up, channels, chunk, parser, history>>

Next ==
    \/ FeedPart \/ FeedHeader \/ FeedPayload
    \/ \E n \in 1 .. Smaller(MaxPacket, Len(wire)) : Packet(n)
    \/ ChannelOpened \/ ChannelClosed
    \/ \E length \in Lengths, ok \in BOOLEAN :
         (ok \/ Faults) /\ PhoneWrites(length, ok)

Spec == Init /\ [][Next]_vars

\* The loop of mux_feed runs.
FairSpec == Spec /\ WF_vars(FeedPart \/ FeedHeader \/ FeedPayload)

------------------------------------------------------------------------------
(***************************************************************************)
(* Properties                                                              *)
(***************************************************************************)

\* What is dispatched on a channel is what the phone wrote on it, from its
\* first frame on, whole, once and in order, however the bytes are cut into
\* packets and wherever the channels before it were closed.
FramesInOrder ==
    \A i \in DOMAIN dispatched : dispatched[i] = first + i

\* The same, as long as mux_feed has not failed and no channel was closed
\* inside a frame.
CleanInOrder == clean => FramesInOrder

\* A frame is dispatched as soon as its last byte is there: when mux_feed has
\* returned and nothing is under way, no whole frame is kept back.
NothingKeptBack ==
    (clean /\ up /\ Idle /\ wire = <<>>) => Len(dispatched) = Len(book) - first

\* mux_feed returns for every packet, also for a bad frame that stays in the
\* parser: no iteration of its loop leaves everything as it was.
FeedReturns == ~Idle ~> Idle

==============================================================================
