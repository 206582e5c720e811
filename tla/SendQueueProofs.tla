--------------------------- MODULE SendQueueProofs ---------------------------
(***************************************************************************)
(* Proofs about SendQueue, for a ring and a run of any length.             *)
(*                                                                         *)
(* WakeInv adds to NeverWedged that only an open channel has a request     *)
(* outstanding.  OrderInv says of the wire and of the ring, apart, what    *)
(* OnlyThisChannel says of their concatenation.  Between the ring's        *)
(* indices and its contents as a sequence stand the lemmas ContentsSeq,    *)
(* EnqueueAppends and AdvanceRemovesHead.                                  *)
(***************************************************************************)
EXTENDS SendQueue, SequenceTheorems, TLAPS

\* The successor of an index of the ring is an index of the ring.
LEMMA SuccStep ==
    ASSUME NEW i \in Slot
    PROVE  /\ Succ(i) = IF i = SEND_Q_DEPTH - 1 THEN 0 ELSE i + 1
           /\ Succ(i) \in Slot
  BY DepthAssumption DEF Succ, Slot

\* What mux_write_rfcomm does to the ring, the flag and the wire keeps types.
LEMMA WriteFrameType ==
    ASSUME TypeOK, NEW rc \in {"ok", "busy", "fatal"}, NEW fits \in BOOLEAN,
           NEW sent \in Seq(Nat), channelOpen' \in BOOLEAN,
           WriteFrame(rc, fits, sent)
    PROVE  /\ slots' \in [Slot -> Nat] /\ head' \in Slot /\ tail' \in Slot
           /\ canSendRequested' \in BOOLEAN /\ owed' \in BOOLEAN
           /\ offered' \in Nat /\ wire' \in Seq(Nat)
<1>1. Succ(tail) \in Slot
  BY SuccStep DEF TypeOK
<1>2. offered + 1 \in Nat
  BY DEF TypeOK
<1>3. Append(sent, offered + 1) \in Seq(Nat)
  BY <1>2, AppendProperties
<1>4. wire' \in Seq(Nat) /\ offered' \in Nat
  BY <1>2, <1>3 DEF WriteFrame
<1>5. slots' \in [Slot -> Nat] /\ head' \in Slot /\ tail' \in Slot
  BY <1>1, <1>2 DEF WriteFrame, Enqueue, TypeOK, queueVars
<1>6. canSendRequested' \in BOOLEAN /\ owed' \in BOOLEAN
  BY DEF WriteFrame, RequestCanSend, TypeOK
<1>7. QED
  BY <1>4, <1>5, <1>6

\* Every step keeps the types.
LEMMA TypeStep == TypeOK /\ [Next]_vars => TypeOK'
<1> SUFFICES ASSUME TypeOK, [Next]_vars PROVE TypeOK'
  OBVIOUS
<1>0. Succ(head) \in Slot /\ 0 \in Slot /\ <<>> \in Seq(Nat)
  BY SuccStep, DepthAssumption DEF Slot, TypeOK
<1>1. ASSUME NEW rc \in {"ok", "busy", "fatal"}, NEW fits \in BOOLEAN,
             MuxWrite(rc, fits)
      PROVE  TypeOK'
  <2>1. CASE channelOpen
    <3>1. /\ WriteFrame(rc, fits, wire)
          /\ UNCHANGED <<channelOpen, draining, openedAt>>
      BY <1>1, <2>1 DEF MuxWrite
    <3>2. QED
      BY <3>1, WriteFrameType DEF TypeOK
  <2>2. CASE ~channelOpen
    BY <1>1, <2>2 DEF MuxWrite, TypeOK, queueVars
  <2>3. QED
    BY <2>1, <2>2
<1>2. ASSUME NEW rc \in {"ok", "busy", "fatal"}, ChannelOpened(rc)
      PROVE  TypeOK'
  <2>1. /\ WriteFrame(rc, TRUE, <<>>)
        /\ channelOpen' = TRUE /\ openedAt' = offered /\ UNCHANGED draining
    BY <1>2 DEF ChannelOpened
  <2>2. QED
    BY <1>0, <2>1, WriteFrameType DEF TypeOK
<1>3. CASE ChannelClosed
  BY <1>0, <1>3 DEF ChannelClosed, TypeOK
<1>4. CASE CanSendNow
  BY <1>4 DEF CanSendNow, TypeOK, queueVars
<1>5. ASSUME NEW rc \in {"ok", "fatal"}, DrainHead(rc)
      PROVE  TypeOK'
  <2>1. slots[head] \in Nat
    BY DEF TypeOK
  <2>2. Append(wire, slots[head]) \in Seq(Nat)
    BY <2>1, AppendProperties DEF TypeOK
  <2>3. QED
    BY <1>0, <1>5, <2>2 DEF DrainHead, TypeOK
<1>6. CASE DrainBusy
  BY <1>6 DEF DrainBusy, RequestCanSend, TypeOK, queueVars
<1>7. CASE DrainDone
  BY <1>7 DEF DrainDone, TypeOK, queueVars
<1>8. CASE UNCHANGED vars
  BY <1>8 DEF vars, TypeOK
<1>9. QED
  BY <1>1, <1>2, <1>3, <1>4, <1>5, <1>6, <1>7, <1>8 DEF Next, DrainProgress

\* The ring's indices stay inside send_q's array, the wire holds frame numbers.
THEOREM TypeCorrect == Spec => []TypeOK
<1>1. Init => TypeOK
  <2>1. <<>> \in Seq(Nat) /\ 0 \in Slot
    BY DepthAssumption DEF Slot
  <2>2. QED
    BY <2>1 DEF Init, TypeOK
<1>2. QED
  BY <1>1, TypeStep, PTL DEF Spec

------------------------------------------------------------------------------
\* The wake-up invariant, with the two facts that make it inductive: only an
\* open channel is drained or owed an event.
WakeInv ==
    /\ TypeOK
    /\ NeverWedged
    /\ owed \/ draining => channelOpen

\* Every step keeps the wake-up invariant.
LEMMA WakeStep == WakeInv /\ [Next]_vars => WakeInv'
<1> SUFFICES ASSUME WakeInv, [Next]_vars PROVE WakeInv'
  OBVIOUS
<1>0. TypeOK'
  BY TypeStep DEF WakeInv
<1> USE <1>0 DEF WakeInv, TypeOK, NeverWedged, QueueEmpty, queueVars
<1>1. ASSUME NEW rc \in {"ok", "busy", "fatal"}, NEW fits \in BOOLEAN,
             MuxWrite(rc, fits)
      PROVE  WakeInv'
  BY <1>1 DEF MuxWrite, WriteFrame, Enqueue, RequestCanSend
<1>2. ASSUME NEW rc \in {"ok", "busy", "fatal"}, ChannelOpened(rc)
      PROVE  WakeInv'
  BY <1>2 DEF ChannelOpened, WriteFrame, Enqueue, RequestCanSend
<1>3. CASE ChannelClosed
  BY <1>3 DEF ChannelClosed
<1>4. CASE CanSendNow
  BY <1>4 DEF CanSendNow
<1>5. CASE DrainProgress
  BY <1>5 DEF DrainProgress, DrainHead
<1>6. CASE DrainBusy
  BY <1>6 DEF DrainBusy, RequestCanSend
<1>7. CASE DrainDone
  BY <1>7 DEF DrainDone
<1>8. CASE UNCHANGED vars
  BY <1>8 DEF vars
<1>9. QED
  BY <1>1, <1>2, <1>3, <1>4, <1>5, <1>6, <1>7, <1>8 DEF Next

\* The wake-up invariant holds in every behaviour.
LEMMA WakeInvariant == Spec => []WakeInv
<1>1. Init => WakeInv
  <2>1. <<>> \in Seq(Nat) /\ 0 \in Slot
    BY DepthAssumption DEF Slot
  <2>2. QED
    BY <2>1 DEF Init, WakeInv, TypeOK, NeverWedged, QueueEmpty
<1>2. QED
  BY <1>1, WakeStep, PTL DEF Spec

\* A frame in the ring always has a wake-up on its way: the flag g_can_send_-
\* requested never says that one was asked for when none is owed.
THEOREM NoWedge == Spec => []NeverWedged
<1>1. WakeInv => NeverWedged
  BY DEF WakeInv
<1>2. QED
  BY <1>1, WakeInvariant, PTL

------------------------------------------------------------------------------
\* What the ring holds is a sequence of Count frames.
ContentsOK ==
    /\ Count \in Nat
    /\ Contents \in Seq(Nat)
    /\ Len(Contents) = Count
    /\ \A i \in 1 .. Count :
         SlotAt(i - 1) \in Slot /\ Contents[i] = slots[SlotAt(i - 1)]

\* The ring read as a sequence: its length and its elements.
LEMMA ContentsSeq == TypeOK => ContentsOK
<1> SUFFICES ASSUME TypeOK PROVE ContentsOK
  OBVIOUS
<1>1. Count \in Nat /\ Count < SEND_Q_DEPTH
  BY DepthAssumption DEF TypeOK, Count, Slot
<1>2. \A i \in 1 .. Count : SlotAt(i - 1) \in Slot
  BY <1>1, DepthAssumption DEF TypeOK, SlotAt, Slot
<1>3. \A i \in 1 .. Count : slots[SlotAt(i - 1)] \in Nat
  BY <1>2 DEF TypeOK
<1>4. Contents \in [1 .. Count -> Nat]
  BY <1>3 DEF Contents
<1>5. QED
  BY <1>1, <1>2, <1>4 DEF Contents, ContentsOK

LEMMA ContentsSeqNext == TypeOK' => ContentsOK'
  BY ContentsSeq, PTL

\* Equal indices are an empty ring.
LEMMA EmptyContents == TypeOK => (QueueEmpty <=> Contents = <<>>)
<1> SUFFICES ASSUME TypeOK PROVE QueueEmpty <=> Contents = <<>>
  OBVIOUS
<1>1. QueueEmpty <=> Count = 0
  BY DepthAssumption DEF TypeOK, QueueEmpty, Count, Slot
<1>2. QED
  BY <1>1, ContentsSeq, EmptySeq DEF ContentsOK

LEMMA EmptyContentsNext == TypeOK' => (QueueEmpty <=> Contents = <<>>)'
  BY EmptyContents, PTL

\* Enqueueing appends at the end.
LEMMA EnqueueAppends ==
    ASSUME TypeOK, TypeOK', NEW f \in Nat, ~QueueFull, Enqueue(f)
    PROVE  Contents' = Append(Contents, f)
<1>0. Succ(tail) = IF tail = SEND_Q_DEPTH - 1 THEN 0 ELSE tail + 1
  BY SuccStep DEF TypeOK
<1>1. Count' = Count + 1
  BY <1>0, DepthAssumption DEF TypeOK, QueueFull, Enqueue, Count, Slot
<1>2. ContentsOK /\ ContentsOK'
  BY ContentsSeq, ContentsSeqNext
<1>3. /\ Append(Contents, f) \in Seq(Nat)
      /\ Len(Append(Contents, f)) = Count + 1
      /\ \A i \in 1 .. Count : Append(Contents, f)[i] = Contents[i]
      /\ Append(Contents, f)[Count + 1] = f
  <2>1. Contents \in Seq(Nat) /\ Len(Contents) = Count
    BY <1>2 DEF ContentsOK
  <2>2. QED
    BY <2>1, AppendProperties
<1>4. ASSUME NEW i \in 1 .. Count
      PROVE  Contents'[i] = Contents[i]
  <2>1. SlotAt(i - 1) # tail
    BY SMTT(30), DepthAssumption DEF TypeOK, SlotAt, Slot, Count
  <2>2. SlotAt(i - 1)' = SlotAt(i - 1)
    BY DEF SlotAt, Enqueue
  <2>3. SlotAt(i - 1) \in Slot /\ Contents[i] = slots[SlotAt(i - 1)]
    BY <1>2 DEF ContentsOK
  <2>4. i \in 1 .. Count'
    BY <1>1, <1>2 DEF ContentsOK
  <2>5. Contents'[i] = slots'[SlotAt(i - 1)']
    BY <1>2, <2>4 DEF ContentsOK
  <2>6. QED
    BY <2>1, <2>2, <2>3, <2>5 DEF Enqueue, TypeOK
<1>5. Contents'[Count + 1] = f
  <2>1. SlotAt(Count) = tail
    BY SMTT(30), DepthAssumption DEF TypeOK, SlotAt, Slot, Count
  <2>2. Contents'[Count + 1] = slots'[tail]
    BY <1>1, <1>2, <2>1 DEF ContentsOK, Enqueue, SlotAt
  <2>3. QED
    BY <2>2 DEF Enqueue, TypeOK
<1>6. QED
  BY <1>1, <1>2, <1>3, <1>4, <1>5, SeqEqual DEF ContentsOK

\* Advancing the head removes the oldest frame.
LEMMA AdvanceRemovesHead ==
    ASSUME TypeOK, TypeOK', ~QueueEmpty,
           head' = Succ(head), UNCHANGED <<slots, tail>>
    PROVE  /\ Contents # <<>>
           /\ Head(Contents) = slots[head]
           /\ Contents' = Tail(Contents)
<1>1. ContentsOK /\ ContentsOK' /\ Contents # <<>>
  BY ContentsSeq, ContentsSeqNext, EmptyContents
<1>0. head' = IF head = SEND_Q_DEPTH - 1 THEN 0 ELSE head + 1
  BY SuccStep DEF TypeOK
<1>2. Count > 0 /\ Count' = Count - 1
  BY <1>0, DepthAssumption DEF TypeOK, QueueEmpty, Count, Slot
<1>3. Head(Contents) = slots[head]
  <2>1. SlotAt(0) = head
    BY DepthAssumption DEF TypeOK, SlotAt, Slot
  <2>2. Contents[1] = slots[head]
    BY <1>1, <1>2, <2>1 DEF ContentsOK
  <2>3. QED
    BY <1>1, <2>2 DEF ContentsOK
<1>4. /\ Tail(Contents) \in Seq(Nat)
      /\ Len(Tail(Contents)) = Count - 1
      /\ \A i \in 1 .. Count - 1 : Tail(Contents)[i] = Contents[i + 1]
  BY <1>1, HeadTailProperties DEF ContentsOK
<1>5. ASSUME NEW i \in 1 .. Count - 1
      PROVE  Contents'[i] = Contents[i + 1]
  <2>1. SlotAt(i - 1)' = SlotAt(i)
    <3>1. i \in Nat \ {0} /\ i < SEND_Q_DEPTH - 1
      BY DepthAssumption DEF TypeOK, Count, Slot
    <3>2. QED
      BY <1>0, <3>1, DepthAssumption DEF TypeOK, SlotAt, Slot
  <2>2. i \in 1 .. Count' /\ i + 1 \in 1 .. Count /\ (i + 1) - 1 = i
    BY <1>1, <1>2 DEF ContentsOK
  <2>3. Contents'[i] = slots'[SlotAt(i - 1)']
    BY <1>1, <2>2 DEF ContentsOK
  <2>4. Contents[i + 1] = slots[SlotAt((i + 1) - 1)]
    BY <1>1, <2>2 DEF ContentsOK
  <2>5. QED
    BY <2>1, <2>2, <2>3, <2>4
<1>6. QED
  BY <1>1, <1>2, <1>3, <1>4, <1>5, SeqEqual DEF ContentsOK

------------------------------------------------------------------------------
\* Every step of the ring is a step of OrderedPipe or changes nothing the pipe
\* sees, and a channel remembers what had been offered when it opened.
PipeStep ==
    \/ Pipe!Open /\ openedAt' = offered
    \/ /\ Pipe!Accept \/ Pipe!Refuse \/ Pipe!Transmit \/ Pipe!Discard
                      \/ Pipe!Close
       /\ openedAt' = openedAt
    \/ UNCHANGED <<channelOpen, offered, Contents, wire, openedAt>>

\* The contents depend on the ring only.
LEMMA SameRing == UNCHANGED queueVars => Contents' = Contents
  BY DEF queueVars, Contents, Count, SlotAt

\* Every step of the transmit path is a step of the pipe or leaves it alone.
LEMMA StepRefines == WakeInv /\ [Next]_vars => PipeStep
<1> SUFFICES ASSUME WakeInv, [Next]_vars PROVE PipeStep
  OBVIOUS
<1>0. TypeOK /\ TypeOK' /\ ContentsOK
  BY TypeStep, ContentsSeq DEF WakeInv
<1>f. offered + 1 \in Nat
  BY <1>0 DEF TypeOK
<1>1. ASSUME NEW rc \in {"ok", "busy", "fatal"}, NEW fits \in BOOLEAN,
             MuxWrite(rc, fits)
      PROVE  PipeStep
  <2>0. openedAt' = openedAt /\ channelOpen' = channelOpen
        /\ offered' = offered + 1
    BY <1>1 DEF MuxWrite, WriteFrame
  <2>1. CASE ~channelOpen
    BY <1>1, <2>0, <2>1, SameRing
       DEF MuxWrite, PipeStep, Pipe!Refuse
  <2>2. CASE channelOpen /\ QueueEmpty /\ rc # "busy"
    <3>1. UNCHANGED queueVars /\ Contents = <<>>
      BY <1>0, <1>1, <2>2, EmptyContents DEF MuxWrite, WriteFrame
    <3>2. wire' = Append(wire, offered') \/ wire' = wire
      BY <1>1, <2>2 DEF MuxWrite, WriteFrame
    <3>3. QED
      BY <2>0, <2>2, <3>1, <3>2, SameRing
         DEF PipeStep, Pipe!Accept, Pipe!Refuse
  <2>3. CASE channelOpen /\ ~(QueueEmpty /\ rc # "busy") /\ ~QueueFull /\ fits
    <3>1. Enqueue(offered + 1) /\ wire' = wire
      BY <1>1, <2>3 DEF MuxWrite, WriteFrame
    <3>2. Contents' = Append(Contents, offered + 1)
      BY <1>0, <1>f, <2>3, <3>1, EnqueueAppends
    <3>3. QED
      BY <2>0, <2>3, <3>1, <3>2 DEF PipeStep, Pipe!Accept
  <2>4. CASE channelOpen /\ ~(QueueEmpty /\ rc # "busy") /\ ~(~QueueFull /\ fits)
    <3>1. UNCHANGED queueVars /\ wire' = wire
      BY <1>1, <2>4 DEF MuxWrite, WriteFrame
    <3>2. QED
      BY <2>0, <3>1, SameRing DEF PipeStep, Pipe!Refuse
  <2>5. QED
    BY <2>1, <2>2, <2>3, <2>4
<1>2. ASSUME NEW rc \in {"ok", "busy", "fatal"}, ChannelOpened(rc)
      PROVE  PipeStep
  <2>0. ~channelOpen /\ channelOpen' = TRUE /\ openedAt' = offered
        /\ offered' = offered + 1
    BY <1>2 DEF ChannelOpened, WriteFrame
  <2>1. QueueEmpty /\ Contents = <<>>
    BY <1>0, <2>0, EmptyContents DEF WakeInv, NeverWedged
  <2>2. Append(<<>>, offered + 1) = <<offered + 1>>
    OBVIOUS
  <2>3. CASE UNCHANGED queueVars
    <3>1. wire' = <<>> \/ wire' = <<offered'>>
      BY <1>2, <2>0, <2>2 DEF ChannelOpened, WriteFrame
    <3>2. QED
      BY <2>0, <2>1, <2>3, <3>1, SameRing DEF PipeStep, Pipe!Open
  <2>4. CASE ~QueueFull /\ Enqueue(offered + 1) /\ wire' = <<>>
    <3>1. Contents' = <<offered'>>
      BY <1>0, <1>f, <2>0, <2>1, <2>2, <2>4, EnqueueAppends
    <3>2. QED
      BY <2>0, <2>4, <3>1 DEF PipeStep, Pipe!Open
  <2>5. QED
    BY <1>2, <2>3, <2>4 DEF ChannelOpened, WriteFrame
<1>3. CASE ChannelClosed
  <2>1. QueueEmpty'
    BY <1>3 DEF ChannelClosed, QueueEmpty
  <2>2. Contents' = <<>>
    BY <1>0, <2>1, EmptyContentsNext
  <2>3. QED
    BY <1>3, <2>2 DEF ChannelClosed, PipeStep, Pipe!Close
<1>4. CASE CanSendNow
  BY <1>4, SameRing DEF CanSendNow, PipeStep
<1>5. ASSUME NEW rc \in {"ok", "fatal"}, DrainHead(rc)
      PROVE  PipeStep
  <2>1. /\ Contents # <<>>
        /\ Head(Contents) = slots[head]
        /\ Contents' = Tail(Contents)
    BY <1>0, <1>5, AdvanceRemovesHead DEF DrainHead
  <2>2. /\ wire' = Append(wire, slots[head]) \/ wire' = wire
        /\ UNCHANGED <<channelOpen, offered, openedAt>>
    BY <1>5 DEF DrainHead
  <2>3. QED
    BY <2>1, <2>2 DEF PipeStep, Pipe!Transmit, Pipe!Discard
<1>6. CASE DrainBusy
  BY <1>6, SameRing DEF DrainBusy, PipeStep
<1>7. CASE DrainDone
  BY <1>7, SameRing DEF DrainDone, PipeStep
<1>8. CASE UNCHANGED vars
  BY <1>8, SameRing DEF vars, queueVars, PipeStep
<1>9. QED
  BY <1>1, <1>2, <1>3, <1>4, <1>5, <1>6, <1>7, <1>8 DEF Next, DrainProgress

\* The transmit path implements OrderedPipe, for a ring of any size: what it
\* accepts leaves in order, at most once, and only on its own channel.
THEOREM ImplementsPipe == Spec => KeepsOrder
<1>1. Init => Pipe!Init
  <2> SUFFICES ASSUME Init PROVE Pipe!Init
    OBVIOUS
  <2>1. TypeOK /\ QueueEmpty
    <3>1. <<>> \in Seq(Nat) /\ 0 \in Slot
      BY DepthAssumption DEF Slot
    <3>2. QED
      BY <3>1 DEF Init, TypeOK, QueueEmpty
  <2>2. QED
    BY <2>1, EmptyContents DEF Init, Pipe!Init
<1>2. WakeInv /\ [Next]_vars => [Pipe!Next]_(Pipe!vars)
  BY StepRefines DEF PipeStep, Pipe!Next, Pipe!vars
<1>3. QED
  BY <1>1, <1>2, WakeInvariant, PTL DEF Spec, KeepsOrder, Pipe!Safety

------------------------------------------------------------------------------
\* The order invariant, kept apart for the wire and the ring so that each step
\* has to look at one end of one of them.
Rising(s) == \A i, j \in 1 .. Len(s) : i < j => s[i] < s[j]

Fresh(s) == \A i \in 1 .. Len(s) : s[i] \in openedAt + 1 .. offered

OrderInv ==
    /\ WakeInv
    /\ openedAt <= offered
    /\ Rising(wire) /\ Fresh(wire)
    /\ Rising(Contents) /\ Fresh(Contents)
    /\ \A i \in 1 .. Len(wire), j \in 1 .. Len(Contents) : wire[i] < Contents[j]

\* A greater element appended to a rising sequence keeps it rising.
LEMMA AppendRising ==
    ASSUME NEW s \in Seq(Nat), NEW e \in Nat, Rising(s),
           \A i \in 1 .. Len(s) : s[i] < e
    PROVE  Rising(Append(s, e))
<1>1. /\ Len(Append(s, e)) = Len(s) + 1 /\ Len(s) \in Nat
      /\ \A i \in 1 .. Len(s) : Append(s, e)[i] = s[i] /\ s[i] \in Nat
      /\ Append(s, e)[Len(s) + 1] = e
  BY AppendProperties, ElementOfSeq, LenProperties
<1>2. ASSUME NEW i \in 1 .. Len(Append(s, e)), NEW j \in 1 .. Len(Append(s, e)),
             i < j
      PROVE  Append(s, e)[i] < Append(s, e)[j]
  <2>1. i \in 1 .. Len(s) /\ (j \in 1 .. Len(s) \/ j = Len(s) + 1)
    BY <1>1, <1>2
  <2>2. Append(s, e)[i] = s[i]
    BY <1>1, <2>1
  <2>3. CASE j \in 1 .. Len(s)
    <3>1. Append(s, e)[j] = s[j] /\ s[i] < s[j]
      BY <1>1, <1>2, <2>1, <2>3 DEF Rising
    <3>2. QED
      BY <2>2, <3>1
  <2>4. CASE j = Len(s) + 1
    BY <1>1, <2>1, <2>2, <2>4
  <2>5. QED
    BY <2>1, <2>3, <2>4
<1>3. QED
  BY <1>2 DEF Rising

\* The tail of a rising sequence rises.
LEMMA TailRising ==
    ASSUME NEW s \in Seq(Nat), s # <<>>, Rising(s)
    PROVE  /\ Rising(Tail(s))
           /\ \A i \in 1 .. Len(Tail(s)) :
                /\ i + 1 \in 1 .. Len(s) /\ Tail(s)[i] = s[i + 1]
                /\ Head(s) < Tail(s)[i]
<1>1. /\ Len(Tail(s)) = Len(s) - 1 /\ Len(s) \in Nat \ {0}
      /\ \A i \in 1 .. Len(Tail(s)) : Tail(s)[i] = s[i + 1]
  BY HeadTailProperties, EmptySeq
<1>2. Head(s) = s[1]
  OBVIOUS
<1>3. QED
  BY <1>1, <1>2 DEF Rising

\* Every step keeps the order of the wire and of the ring.
LEMMA OrderStep == OrderInv /\ [Next]_vars => OrderInv'
<1> SUFFICES ASSUME OrderInv, [Next]_vars PROVE OrderInv'
  OBVIOUS
<1>0. /\ WakeInv /\ WakeInv' /\ PipeStep
      /\ wire \in Seq(Nat) /\ Contents \in Seq(Nat)
      /\ wire' \in Seq(Nat) /\ Contents' \in Seq(Nat)
      /\ openedAt \in Nat /\ offered \in Nat /\ openedAt <= offered
      /\ Len(wire) \in Nat /\ Len(Contents) \in Nat
  BY WakeStep, StepRefines, ContentsSeq, ContentsSeqNext, LenProperties
     DEF OrderInv, WakeInv, TypeOK, ContentsOK
<1>1. CASE Pipe!Open /\ openedAt' = offered
  <2>1. /\ offered' = offered + 1
        /\ \/ Contents' = <<offered + 1>> /\ wire' = <<>>
           \/ Contents' = <<>> /\ wire' = <<offered + 1>>
           \/ Contents' = <<>> /\ wire' = <<>>
    BY <1>1 DEF Pipe!Open
  <2>2. ASSUME NEW s, s = <<>> \/ s = <<offered + 1>>
        PROVE  /\ Rising(s)
               /\ \A i \in 1 .. Len(s) : s[i] \in offered + 1 .. offered + 1
    <3>1. CASE s = <<>>
      BY <3>1 DEF Rising
    <3>2. CASE s = <<offered + 1>>
      <4>1. Len(s) = 1 /\ s[1] = offered + 1
        BY <3>2
      <4>2. QED
        BY <1>0, <4>1 DEF Rising
    <3>3. QED
      BY <2>2, <3>1, <3>2
  <2>3. Rising(wire') /\ Rising(Contents')
    BY <2>1, <2>2
  <2>4. Fresh(wire)' /\ Fresh(Contents)'
    BY <1>1, <2>1, <2>2 DEF Fresh
  <2>5. QED
    BY <1>0, <1>1, <2>1, <2>3, <2>4 DEF OrderInv, Rising
<1>2. CASE Pipe!Accept /\ openedAt' = openedAt
  <2>0. \A x \in openedAt + 1 .. offered : x < offered + 1
    BY <1>0
  <2>a. /\ \A i \in 1 .. Len(wire) : wire[i] \in openedAt + 1 .. offered
        /\ \A i \in 1 .. Len(Contents) : Contents[i] \in openedAt + 1 .. offered
    BY DEF OrderInv, Fresh
  <2>1. /\ offered' = offered + 1 /\ offered + 1 \in Nat
        /\ \A i \in 1 .. Len(wire) : wire[i] < offered + 1
        /\ \A i \in 1 .. Len(Contents) : Contents[i] < offered + 1
    <3>1. \A i \in 1 .. Len(wire) : wire[i] < offered + 1
      BY <2>0, <2>a
    <3>2. \A i \in 1 .. Len(Contents) : Contents[i] < offered + 1
      BY <2>0, <2>a
    <3>3. QED
      BY <1>0, <1>2, <3>1, <3>2 DEF Pipe!Accept
  <2>2. CASE Contents' = Append(Contents, offered') /\ wire' = wire
    <3>1. Rising(Contents')
      <4>1. Contents' = Append(Contents, offered + 1) /\ Rising(Contents)
        BY <2>1, <2>2 DEF OrderInv
      <4>2. Rising(Append(Contents, offered + 1))
        BY <1>0, <2>1, <4>1, AppendRising
      <4>3. QED
        BY <4>1, <4>2
    <3>2. /\ Len(Contents') = Len(Contents) + 1
          /\ \A i \in 1 .. Len(Contents) : Contents'[i] = Contents[i]
          /\ Contents'[Len(Contents) + 1] = offered + 1
      BY <1>0, <2>1, <2>2, AppendProperties
    <3>3. QED
      BY SMTT(30), <1>0, <1>2, <2>1, <2>2, <3>1, <3>2 DEF OrderInv, Rising, Fresh
  <2>3. CASE /\ Contents = <<>> /\ Contents' = Contents
             /\ wire' = Append(wire, offered')
    <3>1. Rising(wire')
      BY <1>0, <2>1, <2>3, AppendRising DEF OrderInv
    <3>2. /\ Len(wire') = Len(wire) + 1
          /\ \A i \in 1 .. Len(wire) : wire'[i] = wire[i]
          /\ wire'[Len(wire) + 1] = offered + 1
      BY <1>0, <2>1, <2>3, AppendProperties
    <3>3. QED
      BY <1>0, <1>2, <2>1, <2>3, <3>1, <3>2 DEF OrderInv, Rising, Fresh
  <2>4. QED
    BY <1>2, <2>2, <2>3 DEF Pipe!Accept
<1>3. CASE Pipe!Refuse /\ openedAt' = openedAt
  BY <1>0, <1>3 DEF Pipe!Refuse, OrderInv, Rising, Fresh
<1>4. CASE (Pipe!Transmit \/ Pipe!Discard) /\ openedAt' = openedAt
  <2>1. /\ Contents # <<>> /\ Contents' = Tail(Contents)
        /\ UNCHANGED offered
        /\ wire' = Append(wire, Head(Contents)) \/ wire' = wire
    BY <1>4 DEF Pipe!Transmit, Pipe!Discard
  <2>2. /\ Head(Contents) = Contents[1] /\ 1 \in 1 .. Len(Contents)
        /\ Head(Contents) \in Nat
    BY <1>0, <2>1, HeadTailProperties, EmptySeq
  <2>3. /\ Rising(Contents')
        /\ \A i \in 1 .. Len(Contents') :
             /\ i + 1 \in 1 .. Len(Contents) /\ Contents'[i] = Contents[i + 1]
             /\ Head(Contents) < Contents'[i]
    BY <1>0, <2>1, TailRising DEF OrderInv
  <2>4. Fresh(Contents') /\ Fresh(Contents)'
    BY <1>0, <1>4, <2>1, <2>3 DEF OrderInv, Fresh
  <2>5. CASE wire' = wire
    BY <1>0, <1>4, <2>1, <2>3, <2>4, <2>5 DEF OrderInv, Rising, Fresh
  <2>6. CASE wire' = Append(wire, Head(Contents))
    <3>1. Rising(wire')
      BY <1>0, <2>2, <2>6, AppendRising DEF OrderInv
    <3>2. /\ Len(wire') = Len(wire) + 1
          /\ \A i \in 1 .. Len(wire) : wire'[i] = wire[i]
          /\ wire'[Len(wire) + 1] = Head(Contents)
      BY <1>0, <2>2, <2>6, AppendProperties
    <3>3. Fresh(wire)'
      <4>1. Head(Contents) \in openedAt + 1 .. offered
        BY <2>2 DEF OrderInv, Fresh
      <4>2. \A i \in 1 .. Len(wire) : wire[i] \in openedAt + 1 .. offered
        BY DEF OrderInv, Fresh
      <4>i. \A i \in 1 .. Len(wire') : i \in 1 .. Len(wire) \/ i = Len(wire) + 1
        BY <1>0, <3>2
      <4>3. \A i \in 1 .. Len(wire') : wire'[i] \in openedAt + 1 .. offered
        BY <3>2, <4>i, <4>1, <4>2
      <4>4. QED
        BY <1>4, <2>1, <4>3 DEF Fresh
    <3>4. ASSUME NEW i \in 1 .. Len(wire'), NEW j \in 1 .. Len(Contents')
          PROVE  wire'[i] < Contents'[j]
      <4>1. CASE i = Len(wire) + 1
        BY <2>3, <3>2, <4>1
      <4>2. CASE i \in 1 .. Len(wire)
        <5>1. j + 1 \in 1 .. Len(Contents) /\ Contents'[j] = Contents[j + 1]
          BY <2>3
        <5>2. wire[i] < Contents[j + 1]
          BY <4>2, <5>1 DEF OrderInv
        <5>3. QED
          BY <3>2, <4>2, <5>1, <5>2
      <4>3. QED
        BY <1>0, <3>2, <4>1, <4>2
    <3>5. QED
      BY <1>0, <1>4, <2>1, <2>3, <2>4, <3>1, <3>3, <3>4 DEF OrderInv, Rising
  <2>7. QED
    BY <2>1, <2>5, <2>6
<1>5. CASE Pipe!Close /\ openedAt' = openedAt
  BY <1>0, <1>5 DEF Pipe!Close, OrderInv, Rising, Fresh
<1>6. CASE UNCHANGED <<channelOpen, offered, Contents, wire, openedAt>>
  BY <1>0, <1>6 DEF OrderInv, Rising, Fresh
<1>7. QED
  BY <1>0, <1>1, <1>2, <1>3, <1>4, <1>5, <1>6 DEF PipeStep

\* No frame of an earlier channel reaches a later one, and what a channel
\* carries and will carry is in the order it was offered.
THEOREM NoStaleFrame == Spec => []OnlyThisChannel
<1>1. Init => OrderInv
  <2> SUFFICES ASSUME Init PROVE OrderInv
    OBVIOUS
  <2>1. WakeInv /\ Contents = <<>>
    <3>1. <<>> \in Seq(Nat) /\ 0 \in Slot
      BY DepthAssumption DEF Slot
    <3>2. TypeOK /\ QueueEmpty
      BY <3>1 DEF Init, TypeOK, QueueEmpty
    <3>3. QED
      BY <3>2, EmptyContents DEF Init, WakeInv, NeverWedged
  <2>2. QED
    BY <2>1 DEF Init, OrderInv, Rising, Fresh
<1>2. OrderInv => OnlyThisChannel
  <2> SUFFICES ASSUME OrderInv PROVE OnlyThisChannel
    OBVIOUS
  <2> DEFINE trace == wire \o Contents
  <2>1. /\ wire \in Seq(Nat) /\ Contents \in Seq(Nat)
        /\ Len(wire) \in Nat /\ Len(Contents) \in Nat
    BY ContentsSeq, LenProperties DEF OrderInv, WakeInv, TypeOK, ContentsOK
  <2>2. /\ Len(trace) = Len(wire) + Len(Contents)
        /\ \A i \in 1 .. Len(wire) + Len(Contents) :
             trace[i] = IF i <= Len(wire) THEN wire[i]
                                          ELSE Contents[i - Len(wire)]
    BY <2>1, ConcatProperties
  <2>3. \A i \in 1 .. Len(trace) : trace[i] \in openedAt + 1 .. offered
    BY <2>1, <2>2 DEF OrderInv, Fresh
  <2>4. ASSUME NEW i \in 1 .. Len(trace), NEW j \in 1 .. Len(trace), i < j
        PROVE  trace[i] < trace[j]
    <3>0. \A k \in 1 .. Len(trace) :
             \/ k \in 1 .. Len(wire) /\ trace[k] = wire[k]
             \/ /\ k > Len(wire) /\ k - Len(wire) \in 1 .. Len(Contents)
                /\ trace[k] = Contents[k - Len(wire)]
      BY <2>1, <2>2
    <3>1. CASE j \in 1 .. Len(wire)
      <4>1. i \in 1 .. Len(wire) /\ trace[i] = wire[i] /\ trace[j] = wire[j]
        BY <2>1, <2>2, <2>4, <3>1
      <4>2. wire[i] < wire[j]
        BY <2>4, <3>1, <4>1 DEF OrderInv, Rising
      <4>3. QED
        BY <4>1, <4>2
    <3>2. CASE j > Len(wire) /\ i \in 1 .. Len(wire)
      <4>1. /\ trace[i] = wire[i] /\ trace[j] = Contents[j - Len(wire)]
            /\ j - Len(wire) \in 1 .. Len(Contents)
        BY <2>1, <2>2, <3>2
      <4>2. wire[i] < Contents[j - Len(wire)]
        BY <3>2, <4>1 DEF OrderInv
      <4>3. QED
        BY <4>1, <4>2
    <3>3. CASE i > Len(wire)
      <4>1. /\ trace[i] = Contents[i - Len(wire)]
            /\ trace[j] = Contents[j - Len(wire)]
            /\ i - Len(wire) \in 1 .. Len(Contents)
            /\ j - Len(wire) \in 1 .. Len(Contents)
            /\ i - Len(wire) < j - Len(wire)
        BY <2>1, <2>2, <2>4, <3>3
      <4>2. Contents[i - Len(wire)] < Contents[j - Len(wire)]
        BY <4>1 DEF OrderInv, Rising
      <4>3. QED
        BY <4>1, <4>2
    <3>4. QED
      BY <2>1, <2>4, <3>0, <3>1, <3>2, <3>3
  <2>5. QED
    BY <2>3, <2>4 DEF OnlyThisChannel
<1>3. QED
  BY <1>1, <1>2, OrderStep, PTL DEF Spec

==============================================================================
