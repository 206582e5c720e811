------------------------------ MODULE SendQueue ------------------------------
(***************************************************************************)
(* The credit-aware RFCOMM transmit path of the daemon (panctl/main.c):    *)
(* the ring g_send_q, the "can send now" request kept in g_can_send_-      *)
(* requested, the writer callback of the mux session, and the channel      *)
(* events that fill, drain and reset the ring.                             *)
(*                                                                         *)
(* The daemon is one thread around BTstack's run loop, so a handler runs   *)
(* to its end.  The drain loop is the exception in the model only: each of *)
(* its iterations is a step, and `draining' keeps every other handler out  *)
(* until the loop returns.                                                 *)
(*                                                                         *)
(* BTstack is external.  rfcomm_send answers "ok", "busy" (no ACL buffer   *)
(* or no outgoing credit) or "fatal" (any other code); `owed' says that it *)
(* holds a request to signal RFCOMM_EVENT_CAN_SEND_NOW on the channel.     *)
(* Frames are numbered in the order the mux layer offers them.             *)
(***************************************************************************)
EXTENDS Integers, Sequences

CONSTANTS
    SEND_Q_DEPTH,  \* slots of the ring; one of them always stays free
    MaxFrames      \* bound: frames the mux layer offers in a behaviour

ASSUME DepthAssumption == SEND_Q_DEPTH \in Nat \ {0}
ASSUME MaxFramesAssumption == MaxFrames \in Nat

VARIABLES
    channelOpen,       \* g_rfcomm_cid # 0
    slots,             \* g_send_q: the frame number in each slot
    head,              \* g_send_q_head: the oldest frame
    tail,              \* g_send_q_tail: the next free slot
    canSendRequested,  \* g_can_send_requested
    draining,          \* inside the while loop of send_q_drain
    owed,              \* BTstack will signal CAN_SEND_NOW
    offered,           \* frames offered to mux_write_rfcomm so far
    wire,              \* frames BTstack accepted on the current channel
    openedAt           \* `offered' when the current channel opened

queueVars == <<slots, head, tail>>
vars == <<channelOpen, slots, head, tail, canSendRequested, draining, owed,
          offered, wire, openedAt>>

Slot == 0 .. SEND_Q_DEPTH - 1

TypeOK ==
    /\ channelOpen \in BOOLEAN
    /\ slots \in [Slot -> Nat]
    /\ head \in Slot
    /\ tail \in Slot
    /\ canSendRequested \in BOOLEAN
    /\ draining \in BOOLEAN
    /\ owed \in BOOLEAN
    /\ offered \in Nat
    /\ wire \in Seq(Nat)
    /\ openedAt \in Nat

------------------------------------------------------------------------------
\* Mistake: the index is advanced without wrapping around.
SuccUnwrapped(i) == i + 1

Succ(i) == (i + 1) % SEND_Q_DEPTH

QueueEmpty == head = tail

QueueFull == Succ(tail) = head

Enqueue(f) ==
    /\ slots' = [slots EXCEPT ![tail] = f]
    /\ tail' = Succ(tail)
    /\ UNCHANGED head

\* send_q_request_can_send; channelOpen' is the channel the handler sees.
RequestCanSend ==
    IF ~canSendRequested /\ channelOpen'
    THEN canSendRequested' = TRUE /\ owed' = TRUE
    ELSE UNCHANGED <<canSendRequested, owed>>

------------------------------------------------------------------------------
Init ==
    /\ channelOpen = FALSE
    /\ slots = [i \in Slot |-> 0]
    /\ head = 0
    /\ tail = 0
    /\ canSendRequested = FALSE
    /\ draining = FALSE
    /\ owed = FALSE
    /\ offered = 0
    /\ wire = <<>>
    /\ openedAt = 0

\* Mistake: a frame is sent directly although others are waiting.
WriteFrameOvertaking(rc, fits, sent) ==
    /\ offered < MaxFrames
    /\ offered' = offered + 1
    /\ \/ /\ rc = "ok"
          /\ wire' = Append(sent, offered')
          /\ UNCHANGED <<queueVars, canSendRequested, owed>>
       \/ /\ rc # "ok" /\ ~QueueFull /\ fits
          /\ Enqueue(offered')
          /\ RequestCanSend
          /\ wire' = sent

\* mux_write_rfcomm on an open channel: `rc' is what rfcomm_send would answer
\* and `fits' whether the frame is at most SEND_Q_BYTES long.
WriteFrame(rc, fits, sent) ==
    LET f == offered + 1
        direct == QueueEmpty /\ rc # "busy"
        room == ~QueueFull /\ fits
    IN  /\ offered < MaxFrames
        /\ offered' = f
        /\ \/ /\ direct
              /\ wire' = IF rc = "ok" THEN Append(sent, f) ELSE sent
              /\ UNCHANGED <<queueVars, canSendRequested, owed>>
           \/ /\ ~direct /\ room
              /\ Enqueue(f)
              /\ RequestCanSend
              /\ wire' = sent
           \/ /\ ~direct /\ ~room
              /\ wire' = sent
              /\ UNCHANGED <<queueVars, canSendRequested, owed>>

\* The mux layer sends a frame; without a channel mux_write_rfcomm fails.
MuxWrite(rc, fits) ==
    /\ ~draining
    /\ \/ /\ channelOpen
          /\ UNCHANGED channelOpen
          /\ WriteFrame(rc, fits, wire)
       \/ /\ ~channelOpen
          /\ offered < MaxFrames
          /\ offered' = offered + 1
          /\ UNCHANGED <<channelOpen, queueVars, canSendRequested, owed, wire>>
    /\ UNCHANGED <<draining, openedAt>>

\* RFCOMM_EVENT_CHANNEL_OPENED: the handler records the channel and sends HELLO.
ChannelOpened(rc) ==
    /\ ~draining
    /\ ~channelOpen
    /\ channelOpen' = TRUE
    /\ openedAt' = offered
    /\ WriteFrame(rc, TRUE, <<>>)
    /\ UNCHANGED draining

\* Mistake: the close handler forgets the request flag.
ChannelClosedKeepsFlag ==
    /\ ~draining
    /\ channelOpen
    /\ channelOpen' = FALSE
    /\ head' = 0
    /\ tail' = 0
    /\ owed' = FALSE
    /\ wire' = <<>>
    /\ UNCHANGED <<slots, canSendRequested, draining, offered, openedAt>>

\* RFCOMM_EVENT_CHANNEL_CLOSED.  BTstack forgets the channel and its request.
ChannelClosed ==
    /\ ~draining
    /\ channelOpen
    /\ channelOpen' = FALSE
    /\ head' = 0
    /\ tail' = 0
    /\ canSendRequested' = FALSE
    /\ owed' = FALSE
    /\ wire' = <<>>
    /\ UNCHANGED <<slots, draining, offered, openedAt>>

\* RFCOMM_EVENT_CAN_SEND_NOW: clear the flag and enter send_q_drain.
CanSendNow ==
    /\ ~draining
    /\ owed
    /\ owed' = FALSE
    /\ canSendRequested' = FALSE
    /\ draining' = TRUE
    /\ UNCHANGED <<channelOpen, queueVars, offered, wire, openedAt>>

\* One iteration: the frame at the head is sent, or dropped on a fatal code.
DrainHead(rc) ==
    /\ draining
    /\ ~QueueEmpty
    /\ rc # "busy"
    /\ wire' = IF rc = "ok" THEN Append(wire, slots[head]) ELSE wire
    /\ head' = Succ(head)
    /\ UNCHANGED <<channelOpen, slots, tail, canSendRequested, draining, owed,
                   offered, openedAt>>

\* Mistake: the loop returns without asking for another event.
DrainBusySilent ==
    /\ draining
    /\ ~QueueEmpty
    /\ draining' = FALSE
    /\ UNCHANGED <<channelOpen, queueVars, canSendRequested, owed, offered,
                   wire, openedAt>>

\* The stack is busy again: ask for another event and return.
DrainBusy ==
    /\ draining
    /\ ~QueueEmpty
    /\ draining' = FALSE
    /\ UNCHANGED channelOpen
    /\ RequestCanSend
    /\ UNCHANGED <<queueVars, offered, wire, openedAt>>

DrainDone ==
    /\ draining
    /\ QueueEmpty
    /\ draining' = FALSE
    /\ UNCHANGED <<channelOpen, queueVars, canSendRequested, owed, offered,
                   wire, openedAt>>

DrainProgress == DrainHead("ok") \/ DrainHead("fatal")

Next ==
    \/ \E rc \in {"ok", "busy", "fatal"}, fits \in BOOLEAN : MuxWrite(rc, fits)
    \/ \E rc \in {"ok", "busy", "fatal"} : ChannelOpened(rc)
    \/ ChannelClosed
    \/ CanSendNow
    \/ DrainProgress
    \/ DrainBusy
    \/ DrainDone

\* The run loop dispatches a signalled event and the drain loop runs; BTstack
\* signals CAN_SEND_NOW when it can send, so drains that are repeated do not
\* find it busy for ever.
Fairness ==
    /\ WF_vars(CanSendNow)
    /\ WF_vars(DrainBusy \/ DrainDone)
    /\ SF_vars(DrainProgress)

Spec == Init /\ [][Next]_vars

FairSpec == Spec /\ Fairness

------------------------------------------------------------------------------
\* The frames in the ring, oldest first.
Count == IF head <= tail THEN tail - head ELSE tail - head + SEND_Q_DEPTH

SlotAt(i) ==
    IF head + i < SEND_Q_DEPTH THEN head + i ELSE head + i - SEND_Q_DEPTH

Contents == [i \in 1 .. Count |-> slots[SlotAt(i - 1)]]

Pipe == INSTANCE OrderedPipe WITH up <- channelOpen, waiting <- Contents

\* mux_write_rfcomm, the ring and the drain loop together keep the promise of
\* OrderedPipe: frames leave in order, once, on the channel they were accepted
\* for, and none is lost but one the stack refuses for good.
KeepsOrder == Pipe!Safety

\* Every frame accepted into the ring leaves it: send_q_drain transmits it or
\* the channel's close drops it; the request flag never strands it.
EveryFrameLeaves ==
    \A f \in 1 .. MaxFrames :
        (\E i \in 1 .. Count : Contents[i] = f)
            ~> (\A i \in 1 .. Count : Contents[i] # f)

\* A frame left in the ring has a wake-up on its way: the drain loop is
\* running or BTstack owes CAN_SEND_NOW, and the flag agrees with BTstack, so
\* send_q_request_can_send never skips a request that is needed.
NeverWedged ==
    /\ canSendRequested = owed
    /\ ~QueueEmpty => channelOpen /\ (draining \/ owed)

\* Nothing queued or sent before the current channel opened is sent on it, and
\* what is on the wire or in the ring is in the order it was offered: the
\* first frame the peer can see is the HELLO unless the stack refused it.  This
\* is what KeepsOrder says of the frames themselves, so no run repeats it; it is
\* proved on its own.
OnlyThisChannel ==
    LET trace == wire \o Contents
    IN  /\ \A i \in 1 .. Len(trace) : trace[i] \in openedAt + 1 .. offered
        /\ \A i, j \in 1 .. Len(trace) : i < j => trace[i] < trace[j]

==============================================================================
