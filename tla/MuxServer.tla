------------------------------ MODULE MuxServer ------------------------------
(***************************************************************************)
(* The phone's end of the mux protocol for TCP streams (MuxServer.kt,      *)
(* TcpStream.kt, FrameWriter.kt).  One coroutine reads frames and          *)
(* dispatches them; each TcpStream has one that runs open() and one that   *)
(* runs the read pump; one writer drains the channel of frames they send.  *)
(* They run on a pool of threads.  A step of the model reaches from one    *)
(* suspension or blocking call to the next.                                *)
(*                                                                         *)
(* External: the socket of a stream (a connect may fail; a read returns    *)
(* data, the end of the stream or an error) and the peer, which may send   *)
(* any frame at any time.  Payloads are counted in chunks, and of the      *)
(* frames that wait for the writer only the number matters here: a sender  *)
(* waits while the channel is full, and names its frame in a comment.      *)
(***************************************************************************)
EXTENDS Naturals

CONSTANTS
    Sids,          \* stream ids the peer uses
    MaxStreams,    \* bound: TcpStream objects made in a behaviour
    InitialWindow, \* chunks the peer's HELLO lets a stream send
    MaxCredit,     \* the limit of peerWindowRemaining (Int.MAX_VALUE), in chunks
    CHUNK_SIZE,    \* chunks a read returns at most
    CREDIT_CHUNK,  \* chunks after which credit is given back
    Capacity       \* frames the writer's channel holds

ASSUME StreamsAssumption == MaxStreams \in Nat
ASSUME CreditAssumption ==
    /\ InitialWindow \in Nat \ {0} /\ MaxCredit \in Nat
    /\ InitialWindow <= MaxCredit
    /\ CHUNK_SIZE \in Nat \ {0} /\ CREDIT_CHUNK \in Nat \ {0}
ASSUME CapacityAssumption == Capacity \in Nat \ {0}

VARIABLES
    reader,     \* the reader coroutine: "reading", "ending" or "over"
    helloSeen,  \* helloSeen
    tcpStreams, \* tcpStreams: the stream of each id, or NoStream
    made,       \* TcpStream objects made so far
    crossed,    \* history: ids opened again before an earlier stream had ended
    stream,     \* the objects
    ledger,     \* history of the objects
    outbox      \* how many frames are in the writer's channel

vars == <<reader, helloSeen, tcpStreams, made, crossed, stream, ledger, outbox>>

Streams == 1 .. MaxStreams
NoStream == 0
Listed(o) == \E s \in Sids : tcpStreams[s] = o

\* Where the coroutines of a stream stand.
Opening == {"connecting", "connected", "refused", "acked"}
Pumping == {"launched", "waiting", "reading", "consuming", "holding", "eof",
            "broken", "leaving"}
Ended == {"done", "failed"}

\* socket and outShut are the socket's; job says that pumpJob is set, credit is
\* peerWindowRemaining, avail and n are the pump's, since receivedSinceCredit.
Object ==
    [sid : Sids \cup {0}, at : {"none"} \cup Opening \cup Pumping \cup Ended,
     socket : {"new", "up", "closed"}, outShut : BOOLEAN,
     job : BOOLEAN, cancelled : BOOLEAN,
     credit : 0 .. MaxCredit, avail : 0 .. MaxCredit, n : 0 .. CHUNK_SIZE,
     since : 0 .. CREDIT_CHUNK - 1]

\* owed: chunks the peer has granted and not got; missed: a reset found no
\* pumpJob although the pump was launched.
Ledger == [owed : 0 .. MaxCredit + CHUNK_SIZE, missed : BOOLEAN]

TypeOK ==
    /\ reader \in {"reading", "ending", "over"}
    /\ helloSeen \in BOOLEAN
    /\ tcpStreams \in [Sids -> 0 .. MaxStreams]
    /\ made \in 0 .. MaxStreams
    /\ crossed \subseteq Sids
    /\ stream \in [Streams -> Object]
    /\ ledger \in [Streams -> Ledger]
    /\ outbox \in 0 .. Capacity

------------------------------------------------------------------------------
\* writer.send: suspends while the channel is full.
Send == outbox < Capacity /\ outbox' = outbox + 1

Unused == [sid |-> 0, at |-> "none", socket |-> "new", outShut |-> FALSE,
           job |-> FALSE, cancelled |-> FALSE, credit |-> 0, avail |-> 0,
           n |-> 0, since |-> 0]

\* onClosed: the entry of the id is removed, whichever stream it holds.
OnClosed(sid) == tcpStreams' = [tcpStreams EXCEPT ![sid] = NoStream]

\* Mistake: the pump is left to notice the closed socket by itself.
ResetNoCancel(o) == [stream[o] EXCEPT !.socket = "closed"]

\* TcpStream.reset but for onClosed.
Reset(o) == [stream[o] EXCEPT !.socket = "closed", !.cancelled = @ \/ stream[o].job]

Missed(o) == stream[o].at \in Pumping /\ ~stream[o].job

Init ==
    /\ reader = "reading" /\ helloSeen = FALSE
    /\ tcpStreams = [s \in Sids |-> NoStream]
    /\ made = 0 /\ crossed = {}
    /\ stream = [o \in Streams |-> Unused]
    /\ ledger = [o \in Streams |-> [owed |-> 0, missed |-> FALSE]]
    /\ outbox = 1 \* HELLO

------------------------------------------------------------------------------
\* The reader.  A stream frame before HELLO breaks the protocol.
InSession == reader = "reading" /\ helloSeen

OnHello ==
    /\ reader = "reading"
    /\ helloSeen' = TRUE
    /\ UNCHANGED <<reader, tcpStreams, made, crossed, stream, ledger, outbox>>

OnPing ==
    /\ reader = "reading"
    /\ Send \* PONG
    /\ UNCHANGED <<reader, helloSeen, tcpStreams, made, crossed, stream, ledger>>

\* A frame that breaks the protocol: sendBye, then the loop returns.
OnFatal ==
    /\ reader = "reading"
    /\ Send \* BYE
    /\ reader' = "ending"
    /\ UNCHANGED <<helloSeen, tcpStreams, made, crossed, stream, ledger>>

\* A stream of id s has left the table and a coroutine of it goes on.
Lingers(s) ==
    \E o \in Streams :
        stream[o].sid = s /\ stream[o].at \notin Ended /\ ~Listed(o)

OpenStream(s) ==
    /\ made < MaxStreams
    /\ made' = made + 1
    /\ crossed' = IF Lingers(s) THEN crossed \cup {s} ELSE crossed
    /\ stream' = [stream EXCEPT ![made'] =
         [Unused EXCEPT !.sid = s, !.at = "connecting", !.credit = InitialWindow]]
    /\ ledger' = [ledger EXCEPT ![made'].owed = InitialWindow]
    /\ tcpStreams' = [tcpStreams EXCEPT ![s] = made']
    /\ UNCHANGED outbox

\* Mistake: an id that is in use is opened again.
OnOpenAlways(s) ==
    /\ InSession
    /\ OpenStream(s)
    /\ UNCHANGED <<reader, helloSeen>>

\* handleTcpOpen; an endpoint that cannot be decoded is answered with BYE, and
\* the loop goes on.
OnOpen(s) ==
    /\ InSession
    /\ \/ tcpStreams[s] = NoStream /\ OpenStream(s)
       \/ /\ Send \* TCP_OPEN_ACK_ERR if the id is in use, else BYE
          /\ UNCHANGED <<tcpStreams, made, crossed, stream, ledger>>
    /\ UNCHANGED <<reader, helloSeen>>

\* A write fails unless the socket is connected and not shut down; it may fail
\* then, too.
Writable(o) == stream[o].socket = "up" /\ ~stream[o].outShut

\* Mistake: receivedSinceCredit is not reset.
CountUnreset(o) ==
    [stream EXCEPT ![o].since = IF @ + 1 > CREDIT_CHUNK THEN @ ELSE @ + 1]

Count(o) == [stream EXCEPT ![o].since = (@ + 1) % CREDIT_CHUNK]

Discard(o, s) ==
    /\ stream' = [stream EXCEPT ![o] = Reset(o)]
    /\ ledger' = [ledger EXCEPT ![o].missed = @ \/ Missed(o)]
    /\ OnClosed(s)

OnData(s) ==
    LET o == tcpStreams[s]
    IN  /\ InSession
        /\ \/ /\ o = NoStream
              /\ Send \* TCP_RST
              /\ UNCHANGED <<tcpStreams, stream, ledger>>
           \/ /\ o # NoStream /\ Writable(o)
              /\ stream' = Count(o)
              /\ IF stream[o].since + 1 >= CREDIT_CHUNK
                 THEN Send (* TCP_WINDOW *) ELSE UNCHANGED outbox
              /\ UNCHANGED <<tcpStreams, ledger>>
           \/ /\ o # NoStream
              /\ Send \* TCP_RST
              /\ Discard(o, s)
        /\ UNCHANGED <<reader, helloSeen, made, crossed>>

\* shutdownOutput fails unless the socket is connected.
OnCloseWr(s) ==
    LET o == tcpStreams[s]
    IN  /\ InSession
        /\ o # NoStream /\ stream[o].socket = "up"
        /\ stream' = [stream EXCEPT ![o].outShut = TRUE]
        /\ UNCHANGED <<reader, helloSeen, tcpStreams, made, crossed, ledger, outbox>>

OnRst(s) ==
    /\ InSession
    /\ tcpStreams[s] # NoStream
    /\ Discard(tcpStreams[s], s)
    /\ UNCHANGED <<reader, helloSeen, made, crossed, outbox>>

\* handleTcpWindow; the sum is capped.
OnWindow(s) ==
    LET o == tcpStreams[s]
    IN  /\ InSession
        /\ o # NoStream
        /\ stream[o].credit < MaxCredit
        /\ stream' = [stream EXCEPT ![o].credit = @ + 1]
        /\ ledger' = [ledger EXCEPT ![o].owed = @ + 1]
        /\ UNCHANGED <<reader, helloSeen, tcpStreams, made, crossed, outbox>>

\* shutdown, after BYE from the peer, the end of the link or OnFatal: the
\* channel is closed, what is in it stays there, and the scope is cancelled.
Shutdown ==
    /\ reader # "over"
    /\ reader' = "over"
    /\ stream' = [o \in Streams |->
         [(IF Listed(o) THEN Reset(o) ELSE stream[o]) EXCEPT !.cancelled = TRUE]]
    /\ tcpStreams' = [s \in Sids |-> NoStream]
    /\ UNCHANGED <<helloSeen, made, crossed, ledger, outbox>>

Reader(s) ==
    \/ OnOpen(s) \/ OnData(s) \/ OnCloseWr(s) \/ OnRst(s) \/ OnWindow(s)

------------------------------------------------------------------------------
\* The coroutines of stream o.
Go(o, place) == stream' = [stream EXCEPT ![o].at = place]

\* A coroutine sends.  Suspended on a full channel it can be cancelled; on a
\* closed channel send throws ClosedSendChannelException, which nobody catches.
Offer(o, next) ==
    \/ /\ reader # "over" /\ Send
       /\ stream' = [stream EXCEPT ![o].at = next, ![o].n = 0]
    \/ /\ stream[o].cancelled /\ outbox = Capacity
       /\ Go(o, IF stream[o].at \in Opening THEN "done" ELSE "leaving")
       /\ UNCHANGED outbox
    \/ /\ reader = "over"
       /\ stream' = [stream EXCEPT ![o].at = "failed",
            ![o].socket = IF stream[o].at \in Opening THEN @ ELSE "closed"]
       /\ UNCHANGED outbox

Connects(o) ==
    /\ stream[o].at = "connecting"
    /\ \/ /\ stream[o].socket = "new"
          /\ stream' = [stream EXCEPT ![o].at = "connected", ![o].socket = "up"]
       \/ Go(o, "refused")
    /\ UNCHANGED <<tcpStreams, ledger, outbox>>

Acks(o) ==
    /\ \/ stream[o].at = "connected" /\ Offer(o, "acked") \* TCP_OPEN_ACK_OK
       \/ stream[o].at = "refused" /\ Offer(o, "leaving") \* TCP_OPEN_ACK_ERR
    /\ UNCHANGED <<tcpStreams, ledger>>

\* scope.launch starts the pump; pumpJob is set when launch has returned.
Launches(o) ==
    /\ stream[o].at = "acked"
    /\ Go(o, "launched")
    /\ UNCHANGED <<tcpStreams, ledger, outbox>>

SetsJob(o) ==
    /\ stream[o].at \in Pumping /\ ~stream[o].job
    /\ stream' = [stream EXCEPT ![o].job = TRUE]
    /\ UNCHANGED <<tcpStreams, ledger, outbox>>

\* A pump cancelled before it starts never runs, not even its finally block.
Starts(o) ==
    /\ stream[o].at = "launched"
    /\ \/ stream[o].cancelled /\ Go(o, "done")
       \/ ~stream[o].cancelled /\ stream[o].socket = "up" /\ Go(o, "waiting")
       \/ ~stream[o].cancelled /\ stream[o].socket = "closed" /\ Go(o, "broken")
    /\ UNCHANGED <<tcpStreams, ledger, outbox>>

\* waitForCredit
GetsCredit(o) ==
    /\ stream[o].at = "waiting"
    /\ \/ /\ stream[o].credit > 0 /\ reader # "over"
          /\ stream' = [stream EXCEPT ![o].at = "reading",
                                      ![o].avail = stream[o].credit]
       \/ /\ stream[o].cancelled /\ (stream[o].credit = 0 \/ reader = "over")
          /\ Go(o, "leaving")
    /\ UNCHANGED <<tcpStreams, ledger, outbox>>

\* input.read: a closed socket errs.
Reads(o) ==
    /\ stream[o].at = "reading"
    /\ \/ Go(o, "broken")
       \/ /\ stream[o].socket = "up"
          /\ \E n \in 1 .. CHUNK_SIZE :
               /\ n <= stream[o].avail
               /\ stream' = [stream EXCEPT ![o].at = "consuming", ![o].n = n]
       \/ stream[o].socket = "up" /\ Go(o, "eof")
    /\ UNCHANGED <<tcpStreams, ledger, outbox>>

\* Mistake: credit granted during the read is lost.
ConsumesStale(o) ==
    /\ stream[o].at = "consuming"
    /\ stream' = [stream EXCEPT ![o].at = "holding",
                                ![o].credit = stream[o].avail - stream[o].n,
                                ![o].avail = 0]
    /\ UNCHANGED <<tcpStreams, ledger, outbox>>

\* consumeCredit
Consumes(o) ==
    /\ stream[o].at = "consuming"
    /\ stream' = [stream EXCEPT ![o].at = "holding", ![o].credit = @ - stream[o].n,
                                ![o].avail = 0]
    /\ UNCHANGED <<tcpStreams, ledger, outbox>>

\* The sends of the pump.
Forwards(o) ==
    /\ \/ /\ stream[o].at = "holding" /\ Offer(o, "waiting") \* TCP_DATA
          /\ ledger' = [ledger EXCEPT ![o].owed =
               IF stream'[o].at = "waiting" THEN @ - stream[o].n ELSE @]
       \/ stream[o].at = "eof" /\ Offer(o, "leaving") (* TCP_CLOSE_WR *) /\ UNCHANGED ledger
       \/ stream[o].at = "broken" /\ Offer(o, "leaving") (* TCP_RST *) /\ UNCHANGED ledger
    /\ UNCHANGED tcpStreams

\* The end of open() after a failure, and the pump's finally block.
Leaves(o) ==
    /\ stream[o].at = "leaving"
    /\ stream' = [stream EXCEPT ![o].socket = "closed", ![o].at = "done"]
    /\ OnClosed(stream[o].sid)
    /\ UNCHANGED <<ledger, outbox>>

\* What a coroutine does without the network's help: a read of an open socket
\* may block for ever, a connect ends at the latest after connectTimeoutMs.
Runs(o) ==
    /\ \/ Connects(o) \/ Acks(o) \/ Launches(o) \/ SetsJob(o) \/ Starts(o)
       \/ GetsCredit(o) \/ (stream[o].socket = "closed" /\ Reads(o))
       \/ Consumes(o) \/ Forwards(o) \/ Leaves(o)
    /\ UNCHANGED <<reader, helloSeen, made, crossed>>

Receives(o) ==
    /\ stream[o].socket = "up" /\ Reads(o)
    /\ UNCHANGED <<reader, helloSeen, made, crossed>>

\* FrameWriter.drain
Drain ==
    /\ reader # "over"
    /\ outbox > 0
    /\ outbox' = outbox - 1
    /\ UNCHANGED <<reader, helloSeen, tcpStreams, made, crossed, stream, ledger>>

Next ==
    \/ OnHello \/ OnPing \/ OnFatal \/ Shutdown
    \/ \E s \in Sids : Reader(s)
    \/ \E o \in Streams : Runs(o) \/ Receives(o)
    \/ Drain

Spec == Init /\ [][Next]_vars

\* Every coroutine that can go on does, also one that waits for room in the channel
\* again and again, for suspended senders get their turn in the order of their
\* arrival; the link takes what is written.
Fairness ==
    /\ \A o \in Streams : SF_vars(Runs(o))
    /\ WF_vars(Drain)

FairSpec == Spec /\ Fairness

------------------------------------------------------------------------------
(***************************************************************************)
(* Properties                                                              *)
(***************************************************************************)

\* Credit is neither lost nor spent twice, although grants arrive between the
\* moment the pump looks at its window and the moment it takes from it
\* (pumpReadLoop, onPeerWindowUpdate).
CreditConserved ==
    \A o \in Streams : stream[o].at \notin Ended \cup {"leaving"} =>
        ledger[o].owed = stream[o].credit
            + (IF stream[o].at = "holding" THEN stream[o].n ELSE 0)

\* The table and the sockets agree: an entry holds a stream of its own id that
\* has not ended, and a socket that is up belongs to the stream its id leads
\* to, so that it is closed with the link (handleTcpOpen, reset, onClosed,
\* shutdown).  Excepted are the streams of an id that was opened again while an
\* earlier stream of it was coming to its end: the earlier one takes the later
\* one's entry with it.
TableAgrees ==
    /\ \A s \in Sids : tcpStreams[s] # NoStream =>
         /\ stream[tcpStreams[s]].sid = s
         /\ stream[tcpStreams[s]].at \notin Ended
    /\ \A o \in Streams :
         stream[o].socket = "up" /\ stream[o].sid \notin crossed => Listed(o)

\* A stream that has left the table comes to its end: no coroutine waits for
\* credit or data that nobody can deliver any more.  The exceptions are a reset
\* that comes before pumpJob is set, and a stream whose entry another may have
\* removed: that one is neither closed nor cancelled.
UnlistedEnds ==
    \A o \in Streams :
        (o <= made /\ ~Listed(o) /\ ~ledger[o].missed) ~>
            (stream[o].at \in Ended \/ ledger[o].missed \/ stream[o].sid \in crossed)

\* It is why it ends: a reset closes the socket before the stream leaves the
\* table, and cancels a pump that may wait for credit, for data or for room in the
\* writer's channel (reset, shutdown).  It rests on the stream having left by its
\* own end or reset, and so excepts the ids that were opened too early.
UnlistedIsWoken ==
    \A o \in Streams : o <= made /\ ~Listed(o) /\ stream[o].sid \notin crossed =>
        /\ stream[o].socket = "closed"
        /\ stream[o].at \in Pumping \ {"launched", "broken", "leaving"}
             => stream[o].cancelled \/ ledger[o].missed

\* The stream that leaves the table at id s is closed by then: it has ended or
\* was reset.
LeavesClosed(s) ==
    LET o == tcpStreams[s]
    IN  (o # NoStream /\ tcpStreams'[s] # o) => stream'[o].socket = "closed"

\* A stream is taken out of the table by its own end or reset, or by the end
\* of the session, and never by another stream.
OnlyItselfRemoved == [][\A s \in Sids : LeavesClosed(s)]_vars

==============================================================================
