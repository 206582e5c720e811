------------------------ MODULE RfcommServiceProofs ------------------------
(***************************************************************************)
(* Proofs about RfcommService, for any number of instances, sockets and    *)
(* commands that wait: the types, that no client is stranded, that no      *)
(* socket goes on listening behind a service at rest, and that a start is  *)
(* heard.                                                                  *)
(***************************************************************************)
EXTENDS RfcommService, TLAPS

(***************************************************************************)
(* The commands that wait.  Those for an instance that is not current are  *)
(* followed by its destruction, which waits for no current instance.       *)
(***************************************************************************)
Waits(q, i) == \E n \in 1 .. Len(q) : q[n] = <<i, "destroy">>

Queued(q, c, m) ==
    /\ q \in Seq(Message)
    /\ \A n \in 1 .. Len(q) : q[n][1] <= m
    /\ \A n \in 1 .. Len(q) : q[n][2] = "destroy" => q[n][1] # c
    /\ \A n \in 1 .. Len(q) :
         q[n][1] = c \/ \E k \in n .. Len(q) : q[k] = <<q[n][1], "destroy">>

LEMMA MessageParts ==
    ASSUME NEW q \in Seq(Message), NEW n \in 1 .. Len(q)
    PROVE  /\ q[n] \in Message /\ q[n] = <<q[n][1], q[n][2]>>
           /\ q[n][1] \in Insts /\ q[n][2] \in {"start", "stop", "destroy"}
  BY DEF Message

LEMMA TailQueued ==
    ASSUME NEW q, NEW c, NEW m, Queued(q, c, m), q # <<>>
    PROVE  Queued(Tail(q), c, m)
<1>1. q \in Seq(Message) /\ Len(q) \in Nat /\ Len(q) > 0
  BY DEF Queued
<1>2. /\ Tail(q) \in Seq(Message) /\ Len(Tail(q)) = Len(q) - 1
      /\ \A n \in 1 .. Len(Tail(q)) : Tail(q)[n] = q[n + 1] /\ n + 1 \in 1 .. Len(q)
  BY <1>1
<1>3. ASSUME NEW n \in 1 .. Len(Tail(q)), Tail(q)[n][1] # c
      PROVE  \E k \in n .. Len(Tail(q)) : Tail(q)[k] = <<Tail(q)[n][1], "destroy">>
  <2>1. n + 1 \in 1 .. Len(q) /\ Tail(q)[n] = q[n + 1]
    BY <1>2
  <2>2. PICK k \in n + 1 .. Len(q) : q[k] = <<q[n + 1][1], "destroy">>
    BY <1>3, <2>1 DEF Queued
  <2>3. k - 1 \in n .. Len(Tail(q)) /\ k - 1 \in 1 .. Len(Tail(q)) /\ (k - 1) + 1 = k
    BY <1>1, <1>2, <2>2
  <2>4. Tail(q)[k - 1] = q[k]
    BY <1>2, <2>3
  <2>5. QED
    BY <2>1, <2>2, <2>3, <2>4
<1>4. \A n \in 1 .. Len(Tail(q)) :
        Tail(q)[n][1] <= m /\ (Tail(q)[n][2] = "destroy" => Tail(q)[n][1] # c)
  BY <1>2 DEF Queued
<1>5. QED
  BY <1>2, <1>3, <1>4 DEF Queued

\* A command for instance i is added, which is current or is made for it.
LEMMA AppendQueued ==
    ASSUME NEW q, NEW c, NEW m, Queued(q, c, m), NEW i \in Insts,
           NEW k \in Nat, m \in Nat, m <= k, i <= k,
           i = c \/ (c = 0 /\ i > m), NEW what \in {"start", "stop"}
    PROVE  Queued(Append(q, <<i, what>>), i, k)
<1> DEFINE r == Append(q, <<i, what>>)
<1>1. q \in Seq(Message) /\ Len(q) \in Nat /\ <<i, what>> \in Message
  BY DEF Queued, Message
<1>2. /\ r \in Seq(Message) /\ Len(r) = Len(q) + 1 /\ r[Len(q) + 1] = <<i, what>>
      /\ \A n \in 1 .. Len(q) : r[n] = q[n]
      /\ \A n \in 1 .. Len(r) : n \in 1 .. Len(q) \/ n = Len(q) + 1
  BY <1>1
<1>3. \A n \in 1 .. Len(q) : q[n][1] \in Insts /\ q[n][1] \in Nat /\ q[n][1] <= m
  <2>1. \A n \in 1 .. Len(q) : q[n][1] \in Insts
    BY <1>1, MessageParts
  <2>2. \A n \in 1 .. Len(q) : q[n][1] <= m
    BY DEF Queued
  <2>3. QED
    BY <2>1, <2>2 DEF Insts
<1> HIDE DEF r
<1>4. ASSUME NEW n \in 1 .. Len(r) PROVE r[n][1] <= k
  <2>1. CASE n \in 1 .. Len(q)
    <3>1. r[n] = q[n] /\ q[n][1] \in Nat /\ q[n][1] <= m
      BY <1>2, <1>3, <2>1
    <3>2. QED
      BY <3>1
  <2>2. CASE n = Len(q) + 1
    BY <1>2, <2>2
  <2>3. QED
    BY <1>2, <2>1, <2>2
<1>5. ASSUME NEW n \in 1 .. Len(r), r[n][2] = "destroy" PROVE r[n][1] # i
  <2>1. n \in 1 .. Len(q) /\ r[n] = q[n]
    BY <1>2, <1>5
  <2>2. q[n][1] # c /\ q[n][1] <= m /\ q[n][1] \in Nat
    BY <1>3, <1>5, <2>1 DEF Queued
  <2>3. q[n][1] # 0
    BY <1>3, <2>1 DEF Insts
  <2>4. QED
    BY <2>1, <2>2, <2>3
<1>6. ASSUME NEW n \in 1 .. Len(r), r[n][1] # i
      PROVE  \E j \in n .. Len(r) : r[j] = <<r[n][1], "destroy">>
  <2>1. n \in 1 .. Len(q) /\ r[n] = q[n]
    BY <1>2, <1>6
  <2>2. q[n][1] # c
    BY <1>3, <1>6, <2>1 DEF Insts
  <2>3. PICK j \in n .. Len(q) : q[j] = <<q[n][1], "destroy">>
    BY <2>1, <2>2 DEF Queued
  <2>4. j \in n .. Len(r) /\ j \in 1 .. Len(q)
    BY <1>1, <1>2, <2>1
  <2>5. r[j] = <<r[n][1], "destroy">>
    BY <1>2, <2>1, <2>3, <2>4
  <2>6. QED
    BY <2>4, <2>5
<1>7. QED
  BY <1>2, <1>4, <1>5, <1>6 DEF Queued, r

\* The current instance is to be destroyed.
LEMMA DestroyQueued ==
    ASSUME NEW q, NEW c \in Insts, NEW m, Queued(q, c, m), c <= m
    PROVE  Queued(Append(q, <<c, "destroy">>), 0, m)
<1> DEFINE r == Append(q, <<c, "destroy">>)
<1>1. q \in Seq(Message) /\ Len(q) \in Nat /\ <<c, "destroy">> \in Message
  BY DEF Queued, Message
<1>2. /\ r \in Seq(Message) /\ Len(r) = Len(q) + 1 /\ r[Len(q) + 1] = <<c, "destroy">>
      /\ \A n \in 1 .. Len(q) : r[n] = q[n]
      /\ \A n \in 1 .. Len(r) : n \in 1 .. Len(q) \/ n = Len(q) + 1
  BY <1>1
<1> HIDE DEF r
<1>3. \A n \in 1 .. Len(r) : r[n][1] <= m
  BY <1>2 DEF Queued
<1>4. \A n \in 1 .. Len(r) : r[n][1] # 0
  BY <1>2, MessageParts DEF Insts
<1>5. ASSUME NEW n \in 1 .. Len(r)
      PROVE  \E j \in n .. Len(r) : r[j] = <<r[n][1], "destroy">>
  <2>1. CASE r[n][1] = c
    <3>1. Len(r) \in n .. Len(r) /\ r[Len(r)] = <<c, "destroy">>
      BY <1>1, <1>2
    <3>2. QED
      BY <2>1, <3>1
  <2>2. CASE r[n][1] # c
    <3>1. n \in 1 .. Len(q) /\ r[n] = q[n]
      BY <1>2, <2>2
    <3>2. PICK j \in n .. Len(q) : q[j] = <<q[n][1], "destroy">>
      BY <2>2, <3>1 DEF Queued
    <3>3. j \in n .. Len(r) /\ j \in 1 .. Len(q)
      BY <1>1, <1>2, <3>1
    <3>4. r[j] = <<r[n][1], "destroy">>
      BY <1>2, <3>1, <3>2, <3>3
    <3>5. QED
      BY <3>3, <3>4
  <2>3. QED
    BY <2>1, <2>2
<1>6. QED
  BY <1>2, <1>3, <1>4, <1>5 DEF Queued, r

LEMMA WaitsAppend ==
    ASSUME NEW q \in Seq(Message), NEW msg \in Message, NEW i
    PROVE  /\ Waits(q, i) => Waits(Append(q, msg), i)
           /\ msg = <<i, "destroy">> => Waits(Append(q, msg), i)
<1>1. /\ Len(Append(q, msg)) = Len(q) + 1 /\ Len(q) \in Nat
      /\ \A n \in 1 .. Len(q) : Append(q, msg)[n] = q[n] /\ n \in 1 .. Len(q) + 1
      /\ Append(q, msg)[Len(q) + 1] = msg /\ Len(q) + 1 \in 1 .. Len(q) + 1
  OBVIOUS
<1>2. QED
  BY <1>1 DEF Waits

LEMMA WaitsTail ==
    ASSUME NEW q \in Seq(Message), q # <<>>, NEW i, Waits(q, i),
           Head(q) # <<i, "destroy">>
    PROVE  Waits(Tail(q), i)
<1>1. PICK n \in 1 .. Len(q) : q[n] = <<i, "destroy">>
  BY DEF Waits
<1>2. n # 1 /\ Len(q) \in Nat
  BY <1>1
<1>3. n - 1 \in 1 .. Len(Tail(q)) /\ Tail(q)[n - 1] = q[n]
  BY <1>2
<1>4. QED
  BY <1>1, <1>3 DEF Waits

------------------------------------------------------------------------------
(***************************************************************************)
(* The inductive invariant.                                                *)
(***************************************************************************)
\* Whatever is named has been made, and a scope that is cancelled is that of an
\* instance that is current no more, or about to stop itself.
AtStop(i) == doing = [inst |-> i, step |-> "stopself", what |-> "stop"]

Named ==
    /\ current <= made
    /\ doing.step # "none" => doing.inst \in Insts /\ doing.inst <= made
    /\ doing.step \in {"close", "cancel"} => doing.what \in {"stop", "destroy"}
    /\ doing.step # "none" /\ doing.what = "destroy" => doing.inst # current
    /\ \A i \in Insts : cancelled[i] => i <= made /\ (i = current => AtStop(i))
    /\ \A s \in Socks : listener[s].of <= made

\* A connection came through a socket that was made, and is in the hands of the
\* thread that has accepted it.
ClientInv ==
    /\ client.at # "none" => client.sock \in Socks /\ listener[client.sock].of # 0
    /\ \A s \in Socks : listener[s].at = "taken" => client = [at |-> "taken", sock |-> s]
    /\ NobodyStranded

\* Of an instance that did not overlap one thread at most is under way, and none
\* when it is about to listen; while its socket listens and its thread is in the
\* loop, it is the instance's own, which is running or about to close it.
Under(s) == listener[s].at \notin {"none", "done"}
Counts(s) == listener[s].of \notin overlapped
InLoop == {"loop", "accept", "taken"}
Kept(i) == running[i] \/ (doing.step = "close" /\ doing.inst = i)

ThreadInv ==
    /\ \A s \in Socks : listener[s].at \in {"none", "closed", "leaving", "done"}
                           => ~listener[s].open
    /\ \A s \in Socks : listener[s].of = 0 => listener[s].at = "none"
    /\ \A s \in Socks : listener[s].open => bt
    /\ \A s, t \in Socks :
         Under(s) /\ Under(t) /\ listener[s].of = listener[t].of /\ Counts(s) => s = t
    /\ \A s \in Socks :
         listener[s].open /\ Counts(s) /\ listener[s].at \in InLoop
           => serverSocket[listener[s].of] = s /\ Kept(listener[s].of)
    /\ doing.step = "listen" /\ doing.inst \notin overlapped =>
         /\ running[doing.inst]
         /\ \A s \in Socks : Under(s) => listener[s].of # doing.inst

\* An instance that runs is the current one or is going to be destroyed.
RunningInv == \A i \in Insts : running[i] => i = current \/ Waits(messages, i)

\* It has a socket or is about to get one, and what stops is not running.
SocketInv ==
    /\ doing.step \in {"close", "cancel", "stopself"} => ~running[doing.inst]
    /\ \A i \in Insts : running[i] =>
         serverSocket[i] # 0 \/ (doing.step = "listen" /\ doing.inst = i)

Types ==
    /\ bt \in BOOLEAN /\ asked \in Asked
    /\ current \in 0 .. MaxInsts /\ made \in 0 .. MaxInsts
    /\ doing \in Callback
    /\ running \in [Insts -> BOOLEAN] /\ cancelled \in [Insts -> BOOLEAN]
    /\ serverSocket \in [Insts -> 0 .. MaxSocks]
    /\ listener \in [Socks -> Listener]
    /\ client \in Client
    /\ overlapped \subseteq Insts

ServiceInv ==
    /\ Types
    /\ Queued(messages, current, made)
    /\ Named
    /\ ClientInv
    /\ ThreadInv
    /\ RunningInv
    /\ SocketInv

LEMMA StopSelfStep ==
    ASSUME NEW q, Queued(q, current, made), NEW i \in Insts, i <= made,
           current \in 0 .. MaxInsts, StopSelf(i, q), UNCHANGED made
    PROVE  /\ Queued(messages', current', made')
           /\ current' \in {0, current} /\ current' # i
           /\ \A j \in Insts : j = current \/ Waits(q, j) =>
                                 j = current' \/ Waits(messages', j)
<1>1. CASE current = i
  <2>1. messages' = Append(q, <<i, "destroy">>) /\ current' = 0
    BY <1>1 DEF StopSelf
  <2>2. Queued(Append(q, <<i, "destroy">>), 0, made)
    BY <1>1, DestroyQueued
  <2>3. q \in Seq(Message) /\ <<i, "destroy">> \in Message
    BY DEF Queued, Message
  <2>4. i # 0
    BY DEF Insts
  <2>5. \A j \in Insts : j = i \/ Waits(q, j) => Waits(messages', j)
    BY <2>1, <2>3, WaitsAppend
  <2>6. QED
    BY <1>1, <2>1, <2>2, <2>4, <2>5
<1>2. CASE current # i
  BY <1>2 DEF StopSelf
<1>3. QED
  BY <1>1, <1>2

\* The instance of an accept thread that is not at its end.
LEMMA ThreadOf ==
    ASSUME ServiceInv, NEW s \in Socks, listener[s].at # "none"
    PROVE  listener[s] \in Listener /\ listener[s].of \in Insts /\ listener[s].of <= made
<1>1. listener[s] \in Listener /\ listener[s].of \in 0 .. MaxInsts
  BY DEF ServiceInv, Types, Listener
<1>2. listener[s].of # 0
  BY DEF ServiceInv, ThreadInv
<1>3. QED
  BY <1>1, <1>2, BoundAssumption DEF Insts, ServiceInv, Named

\* The first command that waits.
LEMMA HeadOf ==
    ASSUME ServiceInv, messages # <<>>
    PROVE  /\ messages \in Seq(Message) /\ Head(messages) \in Message
           /\ Head(messages)[1] \in Insts /\ Head(messages)[1] <= made
           /\ Head(messages)[2] \in {"start", "stop", "destroy"}
           /\ Head(messages) = <<Head(messages)[1], Head(messages)[2]>>
           /\ Head(messages)[2] = "destroy" => Head(messages)[1] # current
           /\ Queued(Tail(messages), current, made)
<1>1. messages \in Seq(Message) /\ Queued(messages, current, made)
  BY DEF ServiceInv, Queued
<1>2. 1 \in 1 .. Len(messages) /\ Head(messages) = messages[1]
  BY <1>1
<1>3. /\ messages[1] \in Message /\ messages[1] = <<messages[1][1], messages[1][2]>>
      /\ messages[1][1] \in Insts /\ messages[1][2] \in {"start", "stop", "destroy"}
  BY <1>1, <1>2, MessageParts
<1>4. /\ messages[1][1] <= made
      /\ messages[1][2] = "destroy" => messages[1][1] # current
  BY <1>1, <1>2 DEF Queued
<1>5. Queued(Tail(messages), current, made)
  BY <1>1, TailQueued
<1>6. QED
  BY <1>1, <1>2, <1>3, <1>4, <1>5

LEMMA QueueStep == ServiceInv /\ [Next]_vars => Queued(messages', current', made')
<1> SUFFICES ASSUME ServiceInv, [Next]_vars PROVE Queued(messages', current', made')
  OBVIOUS
<1>1. Queued(messages, current, made) /\ current \in 0 .. MaxInsts
      /\ made \in 0 .. MaxInsts /\ current <= made /\ made \in Nat /\ current \in Nat
  BY BoundAssumption DEF ServiceInv, Types, Named
<1>2. ASSUME NEW what \in {"start", "stop"}, Command(what)
      PROVE  Queued(messages', current', made')
  <2>1. CASE current # 0 /\ messages' = Append(messages, <<current, what>>)
             /\ UNCHANGED <<current, made>>
    <3>1. current \in Insts
      BY <1>1, <2>1 DEF Insts
    <3>2. Queued(Append(messages, <<current, what>>), current, made)
      <4>1. made <= made
        BY <1>1
      <4>2. QED
        BY <1>1, <3>1, <4>1, AppendQueued
    <3>3. QED
      BY <2>1, <3>2
  <2>2. CASE /\ current = 0 /\ made < MaxInsts
             /\ current' = made + 1 /\ made' = made + 1
             /\ messages' = Append(messages, <<made + 1, what>>)
    <3>1. made + 1 \in Insts /\ made + 1 \in Nat /\ made <= made + 1 /\ made + 1 > made
      BY <1>1, <2>2, BoundAssumption DEF Insts
    <3> DEFINE k == made + 1
    <3> HIDE DEF k
    <3>2. Queued(Append(messages, <<k, what>>), k, k)
      <4>1. k \in Insts /\ k \in Nat /\ made <= k /\ k > made /\ k <= k
        BY <3>1 DEF k
      <4>2. QED
        BY <1>1, <2>2, <4>1, AppendQueued
    <3>3. QED
      BY <2>2, <3>2 DEF k
  <2>3. QED
    BY <1>2, <2>1, <2>2 DEF Command
<1>3. CASE Handle
  BY <1>3, HeadOf DEF Handle, serviceVars
<1>4. CASE Stops
  <2>1. doing.inst \in Insts /\ doing.inst <= made
    BY <1>4 DEF Stops, ServiceInv, Named
  <2>2. QED
    BY <1>1, <1>4, <2>1, StopSelfStep DEF Stops, serviceVars
<1>5. ASSUME NEW s \in Socks, TakesDown(s)
      PROVE  Queued(messages', current', made')
  <2>1. listener[s].of \in Insts /\ listener[s].of <= made
    BY <1>5, ThreadOf DEF TakesDown
  <2>2. QED
    BY <1>1, <1>5, <2>1, StopSelfStep DEF TakesDown, threadVars
<1>6. CASE UNCHANGED <<messages, current, made>>
  BY <1>1, <1>6
<1>7. ASSUME NEW s \in Socks,
             Listen(s) \/ Loop(s) \/ Accept(s) \/ AcceptFails(s) \/ HandleClient(s)
               \/ CloseOwn(s) \/ Leaves(s) \/ Connect(s)
      PROVE  UNCHANGED <<messages, current, made>>
  BY <1>7 DEF Listen, Loop, Accept, AcceptFails, HandleClient, CloseOwn, Leaves, Connect,
              serviceVars, threadVars, clientOnly
<1>8. ASSUME \/ BtOff \/ BtOn \/ ListenFails \/ Close \/ Cancel \/ Serve \/ Gone
             \/ UNCHANGED vars
      PROVE  UNCHANGED <<messages, current, made>>
  BY <1>8 DEF BtOff, BtOn, ListenFails, Close, Cancel, Serve, Gone, serviceVars,
              clientOnly, vars
<1>9. QED
  BY <1>2, <1>3, <1>4, <1>5, <1>6, <1>7, <1>8 DEF Next, Start, Stop, AcceptThread

\* What was promised of a running instance is kept: it is current, or its
\* destruction waits.
LEMMA RunningStep == ServiceInv /\ [Next]_vars => RunningInv'
<1> SUFFICES ASSUME ServiceInv, [Next]_vars PROVE RunningInv'
  OBVIOUS
<1>1. /\ Queued(messages, current, made) /\ messages \in Seq(Message)
      /\ current \in 0 .. MaxInsts /\ RunningInv /\ running \in [Insts -> BOOLEAN]
  BY DEF ServiceInv, Types, Queued
<1>2. ASSUME NEW what \in {"start", "stop"}, Command(what), UNCHANGED running
      PROVE  RunningInv'
  <2>1. current' \in Insts /\ messages' = Append(messages, <<current', what>>)
        /\ current \in {0, current'}
    BY <1>1, <1>2, BoundAssumption DEF Command, Insts, ServiceInv, Types
  <2>2. <<current', what>> \in Message
    BY <2>1 DEF Message
  <2>3. \A i \in Insts : Waits(messages, i) => Waits(messages', i)
    BY <1>1, <2>1, <2>2, WaitsAppend
  <2>4. \A i \in Insts : i # 0
    BY DEF Insts
  <2>5. QED
    BY <1>1, <1>2, <2>1, <2>3, <2>4 DEF RunningInv
<1>3. CASE Handle
  <2> DEFINE i == Head(messages)[1]
             what == Head(messages)[2]
  <2>1. /\ i \in Insts /\ i <= made /\ Queued(Tail(messages), current, made)
        /\ Head(messages) = <<i, what>> /\ messages # <<>>
    BY <1>3, HeadOf DEF Handle
  <2>2. UNCHANGED made
    BY <1>3 DEF Handle, serviceVars
  <2>3. \A j \in Insts :
          Waits(messages, j) => Waits(Tail(messages), j) \/ (j = i /\ what = "destroy")
    BY <1>1, <2>1, WaitsTail
  <2> HIDE DEF i, what
  <2>4. CASE HandleStart(i) /\ what = "start"
    <3>1. UNCHANGED running \/ running' = [running EXCEPT ![i] = TRUE]
      BY <2>4 DEF HandleStart
    <3>2. i = current \/ Waits(Tail(messages), i)
      <4>1. 1 \in 1 .. Len(messages) /\ messages[1] = Head(messages) /\ messages[1][1] = i
        BY <1>1, <2>1
      <4>2. i = current \/ \E k \in 1 .. Len(messages) : messages[k] = <<i, "destroy">>
        BY <1>1, <4>1 DEF Queued
      <4>3. QED
        BY <2>1, <2>3, <2>4, <4>2 DEF Waits
    <3>3. messages' = Tail(messages) /\ UNCHANGED current
      BY <1>3 DEF Handle
    <3>4. ASSUME NEW j \in Insts, running'[j]
          PROVE  j = current' \/ Waits(messages', j)
      <4>1. CASE j = i
        BY <3>2, <3>3, <4>1
      <4>2. CASE j # i
        BY <1>1, <2>3, <3>1, <3>3, <3>4, <4>2 DEF RunningInv
      <4>3. QED
        BY <4>1, <4>2
    <3>5. QED
      BY <3>4 DEF RunningInv
  <2>5. CASE HandleStop(i, what) /\ what # "start"
    <3>1. ~running'[i] /\ \A j \in Insts : j # i => running'[j] = running[j]
      BY <1>1, <2>1, <2>5 DEF HandleStop
    <3>2. messages' = Tail(messages) /\ UNCHANGED current
      BY <1>3 DEF Handle
    <3>3. QED
      BY <1>1, <2>3, <3>1, <3>2 DEF RunningInv
  <2>6. QED
    BY <1>3, <2>4, <2>5 DEF Handle, i, what
<1>4. ASSUME NEW i \in Insts, i <= made, UNCHANGED <<made, running>>, StopSelf(i, messages)
      PROVE  RunningInv'
  <2>1. \A j \in Insts : j = current \/ Waits(messages, j) =>
                           j = current' \/ Waits(messages', j)
    BY <1>1, <1>4, StopSelfStep
  <2>2. QED
    BY <1>1, <1>4, <2>1 DEF RunningInv
<1>5. CASE Stops
  <2>1. doing.inst \in Insts /\ doing.inst <= made
    BY <1>5 DEF Stops, ServiceInv, Named
  <2>2. QED
    BY <1>4, <1>5, <2>1 DEF Stops, serviceVars
<1>6. ASSUME NEW s \in Socks, TakesDown(s)
      PROVE  RunningInv'
  <2>1. listener[s].of \in Insts /\ listener[s].of <= made
    BY <1>6, ThreadOf DEF TakesDown
  <2>2. QED
    BY <1>4, <1>6, <2>1 DEF TakesDown, threadVars
<1>7. CASE UNCHANGED <<messages, current>> /\ \A i \in Insts : running'[i] => running[i]
  BY <1>1, <1>7 DEF RunningInv, Waits
<1>8. ASSUME NEW s \in Socks,
             Listen(s) \/ Loop(s) \/ Accept(s) \/ AcceptFails(s) \/ HandleClient(s)
               \/ CloseOwn(s) \/ Leaves(s) \/ Connect(s)
      PROVE  UNCHANGED <<messages, current>> /\ \A i \in Insts : running'[i] => running[i]
  BY <1>1, <1>8 DEF Listen, Loop, Accept, AcceptFails, HandleClient, CloseOwn, Leaves,
                    Connect, serviceVars, threadVars, clientOnly
<1>9. ASSUME \/ BtOff \/ BtOn \/ ListenFails \/ Close \/ Cancel \/ Serve \/ Gone
             \/ UNCHANGED vars
      PROVE  UNCHANGED <<messages, current>> /\ \A i \in Insts : running'[i] => running[i]
  BY <1>1, <1>9 DEF BtOff, BtOn, ListenFails, Close, Cancel, Serve, Gone, serviceVars,
                    clientOnly, vars
<1>10. ASSUME NEW what, Command(what) PROVE UNCHANGED running
  BY <1>10 DEF Command
<1>11. QED
  BY <1>2, <1>3, <1>5, <1>6, <1>7, <1>8, <1>9, <1>10 DEF Next, Start, Stop, AcceptThread

\* An accept thread goes from place to place.
LEMMA GoesType ==
    ASSUME Types, NEW s \in Socks, NEW place \in Places, Goes(s, place)
    PROVE  /\ listener' \in [Socks -> Listener]
           /\ \A t \in Socks : /\ listener'[t].of = listener[t].of
                               /\ listener'[t].open = listener[t].open
                               /\ listener'[t].at = IF t = s THEN place ELSE listener[t].at
<1>1. listener \in [Socks -> Listener] /\ listener[s] \in Listener
  BY DEF Types
<1>2. /\ [listener[s] EXCEPT !.at = place] \in Listener
      /\ [listener[s] EXCEPT !.at = place].of = listener[s].of
      /\ [listener[s] EXCEPT !.at = place].open = listener[s].open
      /\ [listener[s] EXCEPT !.at = place].at = place
  BY <1>1 DEF Listener
<1>3. listener' = [listener EXCEPT ![s] = [listener[s] EXCEPT !.at = place]]
  BY <1>1 DEF Goes
<1>4. QED
  BY <1>1, <1>2, <1>3

\* Sockets are closed and nothing else happens to a thread; one may go on.
LEMMA ShutType ==
    ASSUME Types, NEW S \in SUBSET Socks,
           listener' = [t \in Socks |->
             IF t \in S THEN [listener[t] EXCEPT !.open = FALSE] ELSE listener[t]]
    PROVE  /\ listener' \in [Socks -> Listener]
           /\ \A t \in Socks : /\ listener'[t].of = listener[t].of
                               /\ listener'[t].open = (listener[t].open /\ t \notin S)
                               /\ listener'[t].at = listener[t].at
<1>1. \A t \in Socks : listener[t] \in Listener
  BY DEF Types
<1>2. \A t \in Socks :
        /\ [listener[t] EXCEPT !.open = FALSE] \in Listener
        /\ [listener[t] EXCEPT !.open = FALSE].of = listener[t].of
        /\ [listener[t] EXCEPT !.open = FALSE].open = FALSE
        /\ [listener[t] EXCEPT !.open = FALSE].at = listener[t].at
        /\ listener[t].open \in BOOLEAN
  BY <1>1 DEF Listener
<1>3. \A t \in Socks :
        listener'[t] = IF t \in S THEN [listener[t] EXCEPT !.open = FALSE] ELSE listener[t]
  OBVIOUS
<1>4. QED
  BY <1>1, <1>2, <1>3

LEMMA BtOffShuts ==
    ASSUME Types, BtOff
    PROVE  /\ listener' \in [Socks -> Listener]
           /\ \A t \in Socks : /\ listener'[t].of = listener[t].of
                               /\ ~listener'[t].open
                               /\ listener'[t].at = listener[t].at
<1>1. listener' = [t \in Socks |->
        IF t \in Socks THEN [listener[t] EXCEPT !.open = FALSE] ELSE listener[t]]
  BY DEF BtOff
<1>2. QED
  BY <1>1, ShutType

LEMMA CloseShuts ==
    ASSUME Types, Close
    PROVE  /\ listener' \in [Socks -> Listener]
           /\ \A t \in Socks :
                /\ listener'[t].of = listener[t].of
                /\ listener'[t].open = (listener[t].open /\ t # serverSocket[doing.inst])
                /\ listener'[t].at = listener[t].at
<1> DEFINE S == {t \in Socks : t = serverSocket[doing.inst]}
<1>1. listener' = [t \in Socks |->
        IF t \in S THEN [listener[t] EXCEPT !.open = FALSE] ELSE listener[t]]
  BY DEF Close
<1>2. S \in SUBSET Socks /\ \A t \in Socks : t \in S <=> t = serverSocket[doing.inst]
  OBVIOUS
<1> HIDE DEF S
<1>3. /\ listener' \in [Socks -> Listener]
      /\ \A t \in Socks : /\ listener'[t].of = listener[t].of
                          /\ listener'[t].open = (listener[t].open /\ t \notin S)
                          /\ listener'[t].at = listener[t].at
  BY <1>1, <1>2, ShutType
<1>4. QED
  BY <1>2, <1>3

LEMMA CloseOwnShuts ==
    ASSUME Types, NEW s \in Socks, CloseOwn(s)
    PROVE  /\ listener' \in [Socks -> Listener]
           /\ \A t \in Socks :
                /\ listener'[t].of = listener[t].of
                /\ listener'[t].open = (listener[t].open /\ t # s)
                /\ listener'[t].at = IF t = s THEN "closed" ELSE listener[t].at
<1>1. listener \in [Socks -> Listener] /\ listener[s] \in Listener
      /\ \A t \in Socks : listener[t].open \in BOOLEAN
  BY DEF Types, Listener
<1> DEFINE y == [listener[s] EXCEPT !.open = FALSE, !.at = "closed"]
<1>2. y \in Listener /\ y.of = listener[s].of /\ y.open = FALSE /\ y.at = "closed"
  BY <1>1 DEF Listener, Places
<1>3. listener' = [listener EXCEPT ![s] = y]
  BY <1>1 DEF CloseOwn
<1> HIDE DEF y
<1>4. QED
  BY <1>1, <1>2, <1>3

LEMMA ListenOpens ==
    ASSUME Types, NEW s \in Socks, Listen(s), doing.inst \in Insts
    PROVE  /\ listener' \in [Socks -> Listener]
           /\ \A t \in Socks :
                /\ listener'[t].of = IF t = s THEN doing.inst ELSE listener[t].of
                /\ listener'[t].open = IF t = s THEN TRUE ELSE listener[t].open
                /\ listener'[t].at = IF t = s THEN "loop" ELSE listener[t].at
<1>1. listener \in [Socks -> Listener]
  BY DEF Types
<1> DEFINE y == [of |-> doing.inst, open |-> TRUE, at |-> "loop"]
<1>2. y \in Listener /\ y.of = doing.inst /\ y.open /\ y.at = "loop"
  BY BoundAssumption DEF Listener, Places, Insts
<1>3. listener' = [listener EXCEPT ![s] = y]
  BY DEF Listen
<1> HIDE DEF y
<1>4. QED
  BY <1>1, <1>2, <1>3

\* The places an accept thread goes to.
LEMMA ThreadGoes ==
    ASSUME NEW s \in Socks,
           \/ Loop(s) \/ Accept(s) \/ AcceptFails(s) \/ HandleClient(s)
           \/ Leaves(s) \/ TakesDown(s)
    PROVE  \E place \in Places : Goes(s, place)
  BY DEF Loop, Accept, AcceptFails, HandleClient, Leaves, TakesDown, Places

LEMMA ListenerType ==
    ASSUME ServiceInv, [Next]_vars
    PROVE  listener' \in [Socks -> Listener]
<1>1. Types
  BY DEF ServiceInv
<1>2. CASE UNCHANGED listener
  BY <1>1, <1>2 DEF Types
<1>3. ASSUME NEW s \in Socks, Listen(s)
      PROVE  listener' \in [Socks -> Listener]
  BY <1>1, <1>3, ListenOpens DEF ServiceInv, Named, Listen
<1>4. ASSUME NEW s \in Socks, AcceptThread(s)
      PROVE  listener' \in [Socks -> Listener]
  BY <1>1, <1>4, ThreadGoes, GoesType, CloseOwnShuts DEF AcceptThread
<1>5. CASE BtOff \/ Close
  BY <1>1, <1>5, BtOffShuts, CloseShuts
<1>6. QED
  BY <1>2, <1>3, <1>4, <1>5
     DEF Next, Start, Stop, Command, BtOn, Handle, ListenFails, Cancel, Stops, Connect,
         Serve, Gone, clientOnly, vars

\* What happens to the connection.
LEMMA ClientType ==
    ASSUME ServiceInv, [Next]_vars
    PROVE  client' \in Client
<1>1. Types /\ client \in Client /\ client.sock \in 0 .. MaxSocks
  BY DEF ServiceInv, Types, Client
<1>2. NoClient \in Client
  BY BoundAssumption DEF NoClient, Client
<1>3. \A place \in {"taken", "launched", "served", "stranded"} :
        [client EXCEPT !.at = place] \in Client
  BY <1>1 DEF Client
<1>4. \A s \in Socks : [at |-> "backlog", sock |-> s] \in Client
  BY BoundAssumption DEF Client, Socks
<1>5. ASSUME NEW s \in Socks, Accept(s) \/ HandleClient(s) \/ CloseOwn(s) \/ Connect(s)
      PROVE  client' \in Client
  BY <1>1, <1>2, <1>3, <1>4, <1>5 DEF Accept, HandleClient, CloseOwn, Connect
<1>6. CASE BtOff \/ Close \/ Cancel \/ Serve \/ Gone
  BY <1>1, <1>2, <1>3, <1>6 DEF BtOff, Close, Cancel, Serve, Gone
<1>7. CASE UNCHANGED client
  BY <1>1, <1>7
<1>8. ASSUME NEW s \in Socks,
             Listen(s) \/ Loop(s) \/ AcceptFails(s) \/ Leaves(s) \/ TakesDown(s)
      PROVE  UNCHANGED client
  BY <1>8 DEF Listen, Loop, AcceptFails, Leaves, TakesDown
<1>9. QED
  BY <1>5, <1>6, <1>7, <1>8
     DEF Next, Start, Stop, Command, BtOn, Handle, ListenFails, Stops, AcceptThread, vars

LEMMA TypesStep == ServiceInv /\ [Next]_vars => Types'
<1> SUFFICES ASSUME ServiceInv, [Next]_vars PROVE Types'
  OBVIOUS
<1>1. Types /\ Named /\ Queued(messages', current', made')
  BY QueueStep DEF ServiceInv
<1>2. listener' \in [Socks -> Listener] /\ client' \in Client
  BY ListenerType, ClientType
<1> DEFINE Rest1 == /\ bt' \in BOOLEAN /\ asked' \in Asked
                    /\ current' \in 0 .. MaxInsts /\ made' \in 0 .. MaxInsts
                    /\ doing' \in Callback
                    /\ running' \in [Insts -> BOOLEAN]
                    /\ cancelled' \in [Insts -> BOOLEAN]
                    /\ serverSocket' \in [Insts -> 0 .. MaxSocks]
                    /\ overlapped' \subseteq Insts
<1>3. /\ 0 \in 0 .. MaxInsts /\ 0 \in 0 .. MaxSocks /\ Idle \in Callback
      /\ "none" \in Asked /\ "calm" \in Asked
  BY BoundAssumption DEF Idle, Callback, Asked
<1>4. ASSUME NEW what, Command(what), asked' \in Asked PROVE Rest1
  <2>1. current' \in 0 .. MaxInsts /\ made' \in 0 .. MaxInsts
    BY <1>1, <1>4, BoundAssumption DEF Command, Types
  <2>2. UNCHANGED <<bt, doing, running, cancelled, serverSocket, overlapped>>
    BY <1>4 DEF Command
  <2>3. QED
    BY <1>1, <1>4, <2>1, <2>2 DEF Types
<1>5. ASSUME BtOff \/ BtOn \/ Serve \/ Gone \/ UNCHANGED vars PROVE Rest1
  BY <1>1, <1>2, <1>3, <1>5 DEF BtOff, BtOn, Serve, Gone, clientOnly, vars, Types
<1>6. \A i, q : StopSelf(i, q) => current' \in {0, current}
  BY DEF StopSelf
<1>7. ASSUME Handle PROVE Rest1
  <2>1. messages # <<>>
    BY <1>7 DEF Handle
  <2>2. Head(messages)[1] \in Insts /\ Head(messages)[2] \in {"start", "stop", "destroy"}
    BY <2>1, HeadOf
  <2>3. \A step \in {"listen", "close", "stopself"} :
          [inst |-> Head(messages)[1], step |-> step, what |-> Head(messages)[2]] \in Callback
    BY <2>2, BoundAssumption DEF Callback, Insts
  <2>4. running' \in [Insts -> BOOLEAN] /\ overlapped' \subseteq Insts
    BY <1>1, <1>7, <2>2 DEF Handle, HandleStart, HandleStop, Types
  <2>5. doing' \in Callback
    BY <1>1, <1>3, <1>7, <2>2, <2>3 DEF Handle, HandleStart, HandleStop, Types
  <2>6. QED
    BY <1>1, <1>7, <2>4, <2>5 DEF Handle, serviceVars, Types
<1>8. ASSUME ListenFails \/ Close \/ Cancel \/ Stops PROVE Rest1
  <2>1. \A step \in {"cancel", "stopself"} : [doing EXCEPT !.step = step] \in Callback
    BY <1>1 DEF Types, Callback
  <2>2. doing' \in Callback
    BY <1>3, <1>8, <2>1 DEF ListenFails, Close, Cancel, Stops
  <2>3. current' \in {0, current}
    BY <1>6, <1>8 DEF ListenFails, Close, Cancel, Stops
  <2>4. running' \in [Insts -> BOOLEAN] /\ cancelled' \in [Insts -> BOOLEAN]
    BY <1>1, <1>8 DEF ListenFails, Close, Cancel, Stops, Types
  <2>5. serverSocket' \in [Insts -> 0 .. MaxSocks]
    BY <1>1, <1>3, <1>8 DEF ListenFails, Close, Cancel, Stops, Types
  <2>6. asked' \in Asked /\ UNCHANGED <<bt, made, overlapped>>
    BY <1>1, <1>3, <1>8 DEF ListenFails, Close, Cancel, Stops, serviceVars, Types
  <2>7. QED
    BY <1>1, <1>3, <2>2, <2>3, <2>4, <2>5, <2>6 DEF Types
<1>9. ASSUME NEW s \in Socks, Listen(s) PROVE Rest1
  <2>1. doing.inst \in Insts /\ s \in 0 .. MaxSocks
    BY <1>1, <1>9, BoundAssumption DEF Named, Listen, Socks
  <2>2. QED
    BY <1>1, <1>3, <1>9, <2>1 DEF Listen, serviceVars, Types
<1>10. ASSUME NEW s \in Socks, AcceptThread(s) PROVE Rest1
  <2>1. current' \in {0, current}
    BY <1>6, <1>10
       DEF AcceptThread, Loop, Accept, AcceptFails, HandleClient, CloseOwn, Leaves, TakesDown
  <2>2. running' \in [Insts -> BOOLEAN]
    BY <1>1, <1>10
       DEF AcceptThread, Loop, Accept, AcceptFails, HandleClient, CloseOwn, Leaves,
           TakesDown, Types
  <2>3. UNCHANGED threadVars
    BY <1>10
       DEF AcceptThread, Loop, Accept, AcceptFails, HandleClient, CloseOwn, Leaves, TakesDown
  <2>4. asked' = asked \/ asked' = "none"
    BY <1>10
       DEF AcceptThread, Loop, Accept, AcceptFails, HandleClient, CloseOwn, Leaves, TakesDown
  <2>5. QED
    BY <1>1, <1>3, <2>1, <2>2, <2>3, <2>4 DEF threadVars, Types
<1>11. ASSUME NEW s \in Socks, Connect(s) PROVE Rest1
  BY <1>1, <1>11 DEF Connect, clientOnly, Types
<1>12. ASSUME Start \/ Stop PROVE Rest1
  BY <1>3, <1>4, <1>12 DEF Start, Stop
<1> HIDE DEF Rest1
<1>13. Rest1
  BY <1>5, <1>7, <1>8, <1>9, <1>10, <1>11, <1>12 DEF Next
<1>14. QED
  BY <1>2, <1>13 DEF Rest1, Types

------------------------------------------------------------------------------
\* A socket that was made keeps its instance; one that is made has an instance
\* that was made before.
LEMMA OfKept ==
    ASSUME ServiceInv, [Next]_vars, NEW t \in Socks
    PROVE  /\ listener[t].of # 0 => listener'[t].of = listener[t].of
           /\ listener'[t].of = listener[t].of \/ listener'[t].of = doing.inst
           /\ listener'[t].of <= made
<1>1. Types /\ listener[t].of <= made
  BY DEF ServiceInv, Named
<1>2. CASE listener'[t].of = listener[t].of
  BY <1>1, <1>2
<1>3. ASSUME NEW s \in Socks, Listen(s)
      PROVE  /\ listener[t].of # 0 => listener'[t].of = listener[t].of
             /\ listener'[t].of = listener[t].of \/ listener'[t].of = doing.inst
             /\ listener'[t].of <= made
  <2>1. doing.inst \in Insts /\ doing.inst <= made
    BY <1>3 DEF ServiceInv, Named, Listen
  <2>2. listener'[t].of = IF t = s THEN doing.inst ELSE listener[t].of
    BY <1>1, <1>3, <2>1, ListenOpens
  <2>3. listener[s].of = 0
    BY <1>3 DEF Listen, Fresh
  <2>4. QED
    BY <1>1, <2>1, <2>2, <2>3
<1>4. ASSUME NEW s \in Socks, AcceptThread(s)
      PROVE  listener'[t].of = listener[t].of
  BY <1>1, <1>4, ThreadGoes, GoesType, CloseOwnShuts DEF AcceptThread
<1>5. CASE BtOff \/ Close
  BY <1>1, <1>2, <1>5, BtOffShuts, CloseShuts
<1>6. CASE UNCHANGED listener
  BY <1>1, <1>6
<1>7. QED
  BY <1>2, <1>3, <1>4, <1>5, <1>6
     DEF Next, Start, Stop, Command, BtOn, Handle, ListenFails, Cancel, Stops, Connect,
         Serve, Gone, clientOnly, vars

\* The current instance goes or is replaced by a new one.
LEMMA CurrentStep ==
    ASSUME ServiceInv, [Next]_vars
    PROVE  /\ \/ current' \in {0, current} /\ made' = made
              \/ /\ current' = made + 1 /\ made' = made + 1
                 /\ UNCHANGED <<doing, cancelled, client, listener>>
           /\ current' <= made'
<1>1. current \in Nat /\ made \in Nat /\ current <= made
  BY BoundAssumption DEF ServiceInv, Types, Named
<1>2. \A i, q : StopSelf(i, q) => current' \in {0, current}
  BY DEF StopSelf
<1>3. ASSUME NEW what, Command(what)
      PROVE  \/ current' \in {0, current} /\ made' = made
             \/ /\ current' = made + 1 /\ made' = made + 1
                /\ UNCHANGED <<doing, cancelled, client, listener>>
  BY <1>3 DEF Command
<1>4. ASSUME Stops PROVE current' \in {0, current} /\ made' = made
  BY <1>2, <1>4 DEF Stops, serviceVars
<1>5. ASSUME NEW s \in Socks, TakesDown(s)
      PROVE  current' \in {0, current} /\ made' = made
  BY <1>2, <1>5 DEF TakesDown, threadVars
<1>6. CASE UNCHANGED <<current, made>>
  BY <1>1, <1>6
<1>7. ASSUME NEW s \in Socks,
             Listen(s) \/ Loop(s) \/ Accept(s) \/ AcceptFails(s) \/ HandleClient(s)
               \/ CloseOwn(s) \/ Leaves(s) \/ Connect(s)
      PROVE  UNCHANGED <<current, made>>
  BY <1>7 DEF Listen, Loop, Accept, AcceptFails, HandleClient, CloseOwn, Leaves, Connect,
              serviceVars, threadVars, clientOnly
<1>8. ASSUME \/ BtOff \/ BtOn \/ Handle \/ ListenFails \/ Close \/ Cancel \/ Serve
             \/ Gone \/ UNCHANGED vars
      PROVE  UNCHANGED <<current, made>>
  BY <1>8 DEF BtOff, BtOn, Handle, ListenFails, Close, Cancel, Serve, Gone, serviceVars,
              clientOnly, vars
<1>9. \/ current' \in {0, current} /\ made' = made
      \/ /\ current' = made + 1 /\ made' = made + 1
         /\ UNCHANGED <<doing, cancelled, client, listener>>
  BY <1>3, <1>4, <1>5, <1>6, <1>7, <1>8 DEF Next, Start, Stop, AcceptThread
<1>10. QED
  BY <1>1, <1>9

\* What is about to stop itself goes on to do so.
LEMMA StopsStep ==
    ASSUME ServiceInv, [Next]_vars, doing.step = "stopself"
    PROVE  UNCHANGED doing \/ (current' # doing.inst /\ doing' = Idle)
<1>1. CASE Stops
  <2>1. doing.inst # 0
    BY <1>1 DEF ServiceInv, Named, Stops, Insts
  <2>2. QED
    BY <1>1, <2>1 DEF Stops, StopSelf
<1>2. doing # Idle
  BY DEF Idle
<1>3. ASSUME NEW s \in Socks, Listen(s) \/ AcceptThread(s) \/ Connect(s)
      PROVE  UNCHANGED doing
  BY <1>3 DEF Listen, AcceptThread, Loop, Accept, AcceptFails, HandleClient, CloseOwn,
              Leaves, TakesDown, Connect, threadVars, clientOnly
<1>4. ASSUME \/ Start \/ Stop \/ BtOff \/ BtOn \/ Handle \/ ListenFails \/ Close
             \/ Cancel \/ Serve \/ Gone \/ UNCHANGED vars
      PROVE  UNCHANGED doing
  BY <1>2, <1>4 DEF Start, Stop, Command, BtOff, BtOn, Handle, ListenFails, Close, Cancel,
                    Serve, Gone, clientOnly, vars
<1>5. QED
  BY <1>1, <1>3, <1>4 DEF Next

LEMMA NamedStep == ServiceInv /\ [Next]_vars => Named'
<1> SUFFICES ASSUME ServiceInv, [Next]_vars PROVE Named'
  OBVIOUS
<1>1. Types /\ Named /\ made \in Nat /\ current \in Nat /\ doing \in Callback
  BY BoundAssumption DEF ServiceInv, Types
<1>2. /\ current' <= made' /\ made <= made' /\ made' \in Nat
      /\ \/ current' \in {0, current} /\ made' = made
         \/ /\ current' = made + 1
            /\ UNCHANGED <<doing, cancelled, client, listener>>
  BY <1>1, CurrentStep
<1>3. \A s \in Socks : listener'[s].of <= made'
  <2>1. \A s \in Socks : listener'[s].of <= made
    BY OfKept
  <2>2. listener' \in [Socks -> Listener]
    BY ListenerType
  <2>3. \A s \in Socks : listener'[s].of \in Nat
    BY <2>2, BoundAssumption DEF Listener
  <2>4. QED
    BY <1>1, <1>2, <2>1, <2>3
<1> DEFINE DoingNamed ==
      /\ doing'.step # "none" => doing'.inst \in Insts /\ doing'.inst <= made'
      /\ doing'.step \in {"close", "cancel"} => doing'.what \in {"stop", "destroy"}
      /\ doing'.step # "none" /\ doing'.what = "destroy" => doing'.inst # current'
    CancelledNamed == \A i \in Insts :
      cancelled'[i] => i <= made' /\ (i = current' =>
                         doing' = [inst |-> i, step |-> "stopself", what |-> "stop"])
<1>4. \A i \in Insts : i # 0 /\ i \in Nat
  BY DEF Insts
<1>5. ASSUME UNCHANGED cancelled PROVE CancelledNamed
  <2> SUFFICES ASSUME NEW i \in Insts, cancelled[i]
               PROVE  i <= made' /\ (i = current' =>
                         doing' = [inst |-> i, step |-> "stopself", what |-> "stop"])
    BY <1>5
  <2>1. i <= made /\ (i = current => AtStop(i))
    BY <1>1 DEF Named
  <2>2. CASE i = current'
    <3>1. i = current
      BY <1>1, <1>2, <1>4, <2>1, <2>2
    <3>2. doing = [inst |-> i, step |-> "stopself", what |-> "stop"]
      BY <2>1, <3>1 DEF AtStop
    <3>3. UNCHANGED doing
      BY <2>2, <3>2, StopsStep
    <3>4. QED
      BY <1>1, <1>2, <1>4, <2>1, <3>2, <3>3
  <2>3. QED
    BY <1>1, <1>2, <1>4, <2>1, <2>2
<1>6. UNCHANGED doing => DoingNamed
  BY <1>1, <1>2, <1>4 DEF Named
<1>7. doing' = Idle => DoingNamed
  BY DEF Idle
<1> HIDE DEF CancelledNamed
<1>8. CASE Handle
  <2> DEFINE i == Head(messages)[1]
             what == Head(messages)[2]
  <2>1. /\ i \in Insts /\ i <= made /\ what \in {"start", "stop", "destroy"}
        /\ what = "destroy" => i # current
    BY <1>8, HeadOf DEF Handle
  <2>2. UNCHANGED <<made, current, cancelled>>
    BY <1>8 DEF Handle, serviceVars
  <2>3. IF what = "start" THEN HandleStart(i) ELSE HandleStop(i, what)
    BY <1>8 DEF Handle
  <2> HIDE DEF i, what, DoingNamed
  <2>4. ASSUME NEW step \in {"close", "stopself"}, what # "start",
               doing' = [inst |-> i, step |-> step, what |-> what]
        PROVE  DoingNamed
    BY <2>1, <2>2, <2>4 DEF DoingNamed
  <2>5. ASSUME doing' = [inst |-> i, step |-> "listen", what |-> "start"]
        PROVE  DoingNamed
    BY <2>1, <2>2, <2>5 DEF DoingNamed
  <2>6. DoingNamed
    BY <1>6, <1>7, <2>2, <2>3, <2>4, <2>5 DEF HandleStart, HandleStop
  <2>7. QED
    BY <1>2, <1>3, <1>5, <2>2, <2>6 DEF Named, AtStop, CancelledNamed, DoingNamed
<1>9. CASE Cancel
  <2>1. doing.inst \in Insts /\ doing.inst <= made /\ doing.what \in {"stop", "destroy"}
        /\ (doing.what = "destroy" => doing.inst # current)
        /\ UNCHANGED <<made, current>>
    BY <1>1, <1>9 DEF Cancel, Named, serviceVars
  <2>2. \/ doing' = Idle /\ doing.what = "destroy"
        \/ doing' = [inst |-> doing.inst, step |-> "stopself", what |-> "stop"]
    BY <1>1, <1>9, <2>1 DEF Cancel, Callback
  <2>3. \A i \in Insts : cancelled'[i] => cancelled[i] \/ i = doing.inst
    BY <1>1, <1>9 DEF Cancel, Types
  <2>4. \A i \in Insts : ~AtStop(i)
    BY <1>9 DEF Cancel, AtStop
  <2>5. CancelledNamed
    BY <1>1, <2>1, <2>2, <2>3, <2>4 DEF Named, CancelledNamed
  <2>6. DoingNamed
    BY <1>7, <2>1, <2>2
  <2>7. QED
    BY <1>2, <1>3, <2>5, <2>6 DEF Named, AtStop, CancelledNamed
<1>10. CASE ListenFails \/ Close
  <2>1. /\ doing'.inst = doing.inst /\ doing'.what = doing.what
        /\ doing.step # "none" /\ (doing'.step = "cancel" => doing.step = "close")
        /\ doing'.step \in {"cancel", "stopself"}
        /\ UNCHANGED <<made, current, cancelled>>
    BY <1>1, <1>10 DEF ListenFails, Close, serviceVars, Callback
  <2>2. DoingNamed
    BY <1>1, <2>1 DEF Named
  <2>3. QED
    BY <1>2, <1>3, <1>5, <2>1, <2>2 DEF Named, AtStop, CancelledNamed
<1>11. ASSUME UNCHANGED cancelled, UNCHANGED doing \/ doing' = Idle
       PROVE  Named'
  BY <1>2, <1>3, <1>5, <1>6, <1>7, <1>11 DEF Named, AtStop, CancelledNamed
<1>12. ASSUME NEW s \in Socks, Listen(s) \/ AcceptThread(s) \/ Connect(s)
       PROVE  UNCHANGED cancelled /\ (UNCHANGED doing \/ doing' = Idle)
  BY <1>12 DEF Listen, AcceptThread, Loop, Accept, AcceptFails, HandleClient, CloseOwn,
               Leaves, TakesDown, Connect, threadVars, clientOnly
<1>13. ASSUME Start \/ Stop \/ BtOff \/ BtOn \/ Stops \/ Serve \/ Gone \/ UNCHANGED vars
       PROVE  UNCHANGED cancelled /\ (UNCHANGED doing \/ doing' = Idle)
  BY <1>13 DEF Start, Stop, Command, BtOff, BtOn, Stops, Serve, Gone, clientOnly, vars
<1>14. QED
  BY <1>8, <1>9, <1>10, <1>11, <1>12, <1>13 DEF Next

LEMMA ClientStep == ServiceInv /\ [Next]_vars => ClientInv'
<1> SUFFICES ASSUME ServiceInv, [Next]_vars PROVE ClientInv'
  OBVIOUS
<1>1. /\ Types /\ Named /\ ClientInv /\ ThreadInv /\ client \in Client
      /\ made \in Nat /\ current \in Nat /\ listener \in [Socks -> Listener]
  BY BoundAssumption DEF ServiceInv, Types
<1>2. \A s \in Socks : listener[s].of # 0 => listener'[s].of = listener[s].of
  BY OfKept
<1>3. current' \in {0, current} \/ (current' = made + 1 /\ UNCHANGED <<client, listener>>)
  BY CurrentStep
\* A connection that was there and is not newly stranded stays right.
<1>4. ASSUME client'.at # "none", client'.sock = client.sock, client.at # "none",
             client'.at = "stranded" => client.at = "stranded"
      PROVE  /\ client'.sock \in Socks /\ listener'[client'.sock].of # 0
             /\ client'.at = "stranded" =>
                  \/ listener'[client'.sock].of # current'
                  \/ doing' = [inst |-> current', step |-> "stopself", what |-> "stop"]
  <2>1. client.sock \in Socks /\ listener[client.sock].of # 0
        /\ listener[client.sock].of \in 0 .. MaxInsts
        /\ listener[client.sock].of <= made
    BY <1>1, <1>4 DEF ClientInv, Named, Listener
  <2>2. listener'[client.sock].of = listener[client.sock].of
    BY <1>2, <2>1
  <2>3. CASE client'.at = "stranded" /\ listener[client.sock].of = current'
    <3>1. current' = current
      BY <1>1, <1>3, <2>1, <2>3, BoundAssumption
    <3>2. doing = [inst |-> current, step |-> "stopself", what |-> "stop"]
      BY <1>1, <1>4, <2>3, <3>1 DEF ClientInv, NobodyStranded
    <3>3. UNCHANGED doing
      BY <3>1, <3>2, StopsStep
    <3>4. QED
      BY <1>4, <2>1, <2>2, <3>1, <3>2, <3>3
  <2>4. QED
    BY <1>4, <2>1, <2>2, <2>3
<1>5. ASSUME client'.at = "none" \/ (client'.sock = client.sock /\ client.at # "none"
                /\ (client'.at = "stranded" => client.at = "stranded")),
             \A s \in Socks : listener'[s].at = "taken" =>
                                client' = [at |-> "taken", sock |-> s]
      PROVE  ClientInv'
  BY <1>4, <1>5 DEF ClientInv, NobodyStranded
<1>6. ASSUME UNCHANGED client,
             \A s \in Socks : listener'[s].at = "taken" => listener[s].at = "taken"
      PROVE  ClientInv'
  <2>1. \A s \in Socks : listener'[s].at = "taken" => client' = [at |-> "taken", sock |-> s]
    BY <1>1, <1>6 DEF ClientInv
  <2>2. QED
    BY <1>5, <1>6, <2>1
<1>7. ASSUME client' \in {client, NoClient}, client' # client => client.at # "taken",
             \A s \in Socks : listener'[s].at = "taken" => listener[s].at = "taken"
      PROVE  ClientInv'
  <2>1. \A s \in Socks : listener'[s].at = "taken" => client' = [at |-> "taken", sock |-> s]
    BY <1>1, <1>7 DEF ClientInv
  <2>2. client' = NoClient => client'.at = "none"
    BY DEF NoClient
  <2>3. QED
    BY <1>5, <1>6, <1>7, <2>1, <2>2
<1>8. CASE BtOff \/ Close
  <2>1. \A s \in Socks : listener'[s].at = listener[s].at
    BY <1>1, <1>8, BtOffShuts, CloseShuts
  <2>2. client' \in {client, NoClient} /\ (client' # client => client.at # "taken")
    BY <1>8 DEF BtOff, Close
  <2>3. QED
    BY <1>7, <2>1, <2>2
<1>9. ASSUME NEW s \in Socks, CloseOwn(s) PROVE ClientInv'
  <2>1. \A t \in Socks : listener'[t].at = "taken" => listener[t].at = "taken"
    BY <1>1, <1>9, CloseOwnShuts
  <2>2. client' \in {client, NoClient} /\ (client' # client => client.at # "taken")
    BY <1>9 DEF CloseOwn
  <2>3. QED
    BY <1>7, <2>1, <2>2
<1>10. ASSUME NEW s \in Socks, Accept(s) PROVE ClientInv'
  <2>1. client = [at |-> "backlog", sock |-> s] /\ client' = [at |-> "taken", sock |-> s]
    BY <1>10 DEF Accept
  <2>2. \A t \in Socks : listener'[t].at = IF t = s THEN "taken" ELSE listener[t].at
    BY <1>1, <1>10, GoesType DEF Accept, Places
  <2>3. \A t \in Socks : listener[t].at # "taken"
    BY <1>1, <2>1 DEF ClientInv
  <2>4. QED
    BY <1>5, <2>1, <2>2, <2>3
<1>11. ASSUME NEW s \in Socks, HandleClient(s) PROVE ClientInv'
  <2>1. client = [at |-> "taken", sock |-> s]
    BY <1>1, <1>11 DEF HandleClient, ClientInv
  <2>2. \A t \in Socks : listener'[t].at = IF t = s THEN "loop" ELSE listener[t].at
    BY <1>1, <1>11, GoesType DEF HandleClient, Places
  <2>3. \A t \in Socks : listener'[t].at # "taken"
    BY <1>1, <2>1, <2>2 DEF ClientInv
  <2>4. /\ client'.sock = s
        /\ client'.at = IF cancelled[listener[s].of] THEN "stranded" ELSE "launched"
    BY <1>11, <2>1 DEF HandleClient
  <2>5. CASE ~cancelled[listener[s].of]
    BY <1>5, <2>1, <2>3, <2>4, <2>5
  <2>6. CASE cancelled[listener[s].of]
    <3>1. listener[s].of \in Insts /\ UNCHANGED <<current, doing>>
      BY <1>11, ThreadOf DEF HandleClient, threadVars
    <3>2. listener'[s].of = listener[s].of /\ listener[s].of # 0
      BY <1>2, <3>1 DEF Insts
    <3>3. \/ listener[s].of # current
          \/ doing = [inst |-> current, step |-> "stopself", what |-> "stop"]
      BY <1>1, <2>6, <3>1 DEF Named, AtStop
    <3>4. QED
      BY <2>3, <2>4, <3>1, <3>2, <3>3 DEF ClientInv, NobodyStranded
  <2>7. QED
    BY <2>5, <2>6
<1>12. ASSUME NEW s \in Socks, Loop(s) \/ AcceptFails(s) \/ Leaves(s) \/ TakesDown(s)
       PROVE  ClientInv'
  <2>1. UNCHANGED client
    BY <1>12 DEF Loop, AcceptFails, Leaves, TakesDown
  <2>2. PICK place \in {"accept", "left", "leaving", "done"} : Goes(s, place)
    BY <1>12 DEF Loop, AcceptFails, Leaves, TakesDown
  <2>3. \A t \in Socks : listener'[t].at = IF t = s THEN place ELSE listener[t].at
    BY <1>1, <2>2, GoesType DEF Places
  <2>4. QED
    BY <1>6, <2>1, <2>2, <2>3
<1>13. ASSUME NEW s \in Socks, Listen(s) PROVE ClientInv'
  <2>1. UNCHANGED client
    BY <1>13 DEF Listen
  <2>2. \A t \in Socks : listener'[t].at = IF t = s THEN "loop" ELSE listener[t].at
    BY <1>1, <1>13, ListenOpens DEF Listen, Named
  <2>3. QED
    BY <1>6, <2>1, <2>2
<1>14. ASSUME NEW s \in Socks, Connect(s) PROVE ClientInv'
  <2>1. client = NoClient /\ client' = [at |-> "backlog", sock |-> s]
        /\ UNCHANGED <<listener, current>> /\ listener[s].open
    BY <1>14 DEF Connect, clientOnly
  <2>2. \A t \in Socks : listener[t].at # "taken"
    BY <1>1, <2>1 DEF ClientInv, NoClient
  <2>3. listener[s].of # 0
    BY <1>1, <2>1 DEF ThreadInv
  <2>4. QED
    BY <2>1, <2>2, <2>3 DEF ClientInv, NobodyStranded
<1>15. CASE Cancel
  <2>1. UNCHANGED listener
    BY <1>15 DEF Cancel
  <2>2. CASE client.at = "launched" /\ listener[client.sock].of = doing.inst
    <3>1. /\ client'.sock = client.sock /\ client'.at = "stranded"
      BY <1>1, <1>15, <2>2 DEF Cancel, Client
    <3>2. \A s \in Socks : listener[s].at # "taken"
      BY <1>1, <2>2 DEF ClientInv
    <3>3. client.sock \in Socks /\ listener[client.sock].of # 0
      BY <1>1, <2>2 DEF ClientInv
    <3>4. \/ doing.inst # current'
          \/ doing' = [inst |-> current', step |-> "stopself", what |-> "stop"]
      <4>1. doing.inst \in Insts /\ doing.what \in {"stop", "destroy"}
            /\ (doing.what = "destroy" => doing.inst # current) /\ UNCHANGED current
        BY <1>1, <1>15 DEF Cancel, Named
      <4>2. doing.what = "stop" =>
              doing' = [inst |-> doing.inst, step |-> "stopself", what |-> "stop"]
        BY <1>1, <1>15 DEF Cancel, Callback, Types
      <4>3. QED
        BY <4>1, <4>2
    <3>5. QED
      BY <2>1, <2>2, <3>1, <3>2, <3>3, <3>4 DEF ClientInv, NobodyStranded
  <2>3. CASE UNCHANGED client
    BY <1>6, <2>1, <2>3
  <2>4. QED
    BY <1>15, <2>2, <2>3 DEF Cancel
<1>16. CASE Serve
  <2>1. client'.sock = client.sock /\ client'.at = "served" /\ client.at = "launched"
        /\ UNCHANGED listener
    BY <1>1, <1>16 DEF Serve, Client, clientOnly
  <2>2. \A s \in Socks : listener'[s].at # "taken"
    BY <1>1, <2>1 DEF ClientInv
  <2>3. QED
    BY <1>5, <2>1, <2>2
<1>17. CASE Gone
  BY <1>7, <1>17 DEF Gone, clientOnly
<1>18. CASE UNCHANGED <<client, listener>>
  BY <1>6, <1>18
<1>19. QED
  BY <1>8, <1>9, <1>10, <1>11, <1>12, <1>13, <1>14, <1>15, <1>16, <1>17, <1>18
     DEF Next, AcceptThread, Start, Stop, Command, BtOn, Handle, ListenFails, Stops, vars

------------------------------------------------------------------------------
\* The threads after a step that makes none: a socket that is shut stays shut,
\* and what a thread counts on is there after the step.
LEMMA ThreadKept ==
    ASSUME ThreadInv, overlapped \subseteq overlapped',
           \A t \in Socks : /\ listener'[t].of = listener[t].of
                            /\ listener'[t].open => listener[t].open /\ bt'
                            /\ listener[t].at = "none" => listener'[t].at = "none"
                            /\ listener[t].at = "done" => listener'[t].at = "done"
                            /\ listener'[t].at \in {"none", "closed", "leaving", "done"}
                                 => ~listener'[t].open,
           \A t \in Socks :
             listener'[t].open /\ Counts(t) /\ listener'[t].at \in InLoop
               => /\ serverSocket'[listener[t].of] = t
                  /\ \/ running'[listener[t].of]
                     \/ doing'.step = "close" /\ doing'.inst = listener[t].of,
           doing'.step = "listen" /\ doing'.inst \notin overlapped'
             => /\ running'[doing'.inst]
                /\ \A t \in Socks : Under(t) => listener[t].of # doing'.inst
    PROVE  ThreadInv'
<1>1. \A t \in Socks : Under(t)' => Under(t)
  BY DEF Under
<1>2. \A t \in Socks : Counts(t)' => Counts(t)
  BY DEF Counts
<1>3. \A s \in Socks : listener'[s].of = 0 => listener'[s].at = "none"
  BY DEF ThreadInv
<1>4. \A s, t \in Socks :
        Under(s)' /\ Under(t)' /\ listener'[s].of = listener'[t].of /\ Counts(s)' => s = t
  BY <1>1, <1>2 DEF ThreadInv
<1>5. \A s \in Socks :
        listener'[s].open /\ Counts(s)' /\ listener'[s].at \in InLoop
          => serverSocket'[listener'[s].of] = s /\ Kept(listener[s].of)'
  BY <1>2 DEF Kept
<1>6. doing'.step = "listen" /\ doing'.inst \notin overlapped' =>
        /\ running'[doing'.inst]
        /\ \A s \in Socks : Under(s)' => listener'[s].of # doing'.inst
  BY <1>1
<1>7. \A s \in Socks :
        /\ listener'[s].at \in {"none", "closed", "leaving", "done"} => ~listener'[s].open
        /\ listener'[s].open => bt'
  OBVIOUS
<1>8. QED
  BY <1>3, <1>4, <1>5, <1>6, <1>7 DEF ThreadInv, InLoop

\* What is known of a socket that listens before the step.
LEMMA ThreadNow ==
    ASSUME ServiceInv, NEW t \in Socks, listener[t].open, Counts(t),
           listener[t].at \in InLoop
    PROVE  /\ bt /\ listener[t].of \in Insts /\ Under(t)
           /\ serverSocket[listener[t].of] = t /\ Kept(listener[t].of)
<1>1. ThreadInv /\ listener[t].at \notin {"none", "done"}
  BY DEF ServiceInv, InLoop
<1>2. listener[t].of \in Insts
  BY <1>1, ThreadOf
<1>3. QED
  BY <1>1, <1>2 DEF ThreadInv, Under

\* A step that leaves the sockets alone.
LEMMA ThreadRest ==
    ASSUME ServiceInv, UNCHANGED <<listener, serverSocket>>, bt => bt',
           overlapped \subseteq overlapped',
           \A t \in Socks :
             listener[t].open /\ Counts(t) /\ listener[t].at \in InLoop
               => \/ running'[listener[t].of]
                  \/ doing'.step = "close" /\ doing'.inst = listener[t].of,
           doing'.step = "listen" /\ doing'.inst \notin overlapped'
             => /\ running'[doing'.inst]
                /\ \A t \in Socks : Under(t) => listener[t].of # doing'.inst
    PROVE  ThreadInv'
<1>1. ThreadInv
  BY DEF ServiceInv
<1>2. \A t \in Socks : /\ listener'[t].of = listener[t].of
                       /\ listener'[t].open => listener[t].open /\ bt'
                       /\ listener[t].at = "none" => listener'[t].at = "none"
                       /\ listener[t].at = "done" => listener'[t].at = "done"
                       /\ listener'[t].at \in {"none", "closed", "leaving", "done"}
                            => ~listener'[t].open
  BY <1>1 DEF ThreadInv
<1>3. \A t \in Socks :
        listener'[t].open /\ Counts(t) /\ listener'[t].at \in InLoop
          => serverSocket'[listener[t].of] = t
  BY <1>1 DEF ThreadInv
<1>4. QED
  BY <1>1, <1>2, <1>3, ThreadKept

LEMMA HandleThread == ServiceInv /\ Handle => ThreadInv'
<1> SUFFICES ASSUME ServiceInv, Handle PROVE ThreadInv'
  OBVIOUS
<1> DEFINE i == Head(messages)[1]
           what == Head(messages)[2]
<1>1. i \in Insts /\ running \in [Insts -> BOOLEAN] /\ doing = Idle
  BY HeadOf DEF Handle, ServiceInv, Types
<1>2. HandleStart(i) \/ HandleStop(i, what)
  BY DEF Handle
<1>3. UNCHANGED <<listener, serverSocket, bt>>
  BY DEF Handle, serviceVars
<1> HIDE DEF i, what
<1>4. \A t \in Socks :
        listener[t].open /\ Counts(t) /\ listener[t].at \in InLoop
          => listener[t].of \in Insts /\ running[listener[t].of]
  BY <1>1, ThreadNow DEF Kept, Idle
<1>5. CASE HandleStart(i)
  <2>1. overlapped \subseteq overlapped' /\ \A j \in Insts : running[j] => running'[j]
    BY <1>1, <1>5 DEF HandleStart
  <2>2. ASSUME doing'.step = "listen", doing'.inst \notin overlapped'
        PROVE  /\ running'[doing'.inst]
               /\ \A t \in Socks : Under(t) => listener[t].of # doing'.inst
    <3>1. /\ running' = [running EXCEPT ![i] = TRUE] /\ doing'.inst = i
          /\ overlapped' = overlapped \cup
               {k \in {i} : \E s \in Socks :
                   listener[s].of = k /\ listener[s].at # "done"}
      BY <1>1, <1>5, <2>2 DEF HandleStart, Idle
    <3>2. QED
      BY <1>1, <2>2, <3>1 DEF Under
  <2>3. QED
    BY <1>3, <1>4, <2>1, <2>2, ThreadRest
<1>6. CASE HandleStop(i, what)
  <2>1. /\ \A j \in Insts : j # i /\ running[j] => running'[j]
        /\ running[i] => doing'.step = "close" /\ doing'.inst = i
        /\ doing'.step # "listen" /\ UNCHANGED overlapped
    BY <1>1, <1>6 DEF HandleStop, Idle
  <2>2. QED
    BY <1>3, <1>4, <2>1, ThreadRest
<1>7. QED
  BY <1>2, <1>5, <1>6

LEMMA CloseThread == ServiceInv /\ Close => ThreadInv'
<1> SUFFICES ASSUME ServiceInv, Close PROVE ThreadInv'
  OBVIOUS
<1>1. Types /\ ThreadInv /\ doing.step = "close" /\ doing.inst \in Insts
  BY DEF ServiceInv, Named, Close
<1>2. \A t \in Socks :
        /\ listener'[t].of = listener[t].of
        /\ listener'[t].open = (listener[t].open /\ t # serverSocket[doing.inst])
        /\ listener'[t].at = listener[t].at
  BY <1>1, CloseShuts
<1>3. UNCHANGED <<overlapped, running, bt>> /\ doing'.step # "listen"
  BY <1>1 DEF Close, serviceVars, Types, Callback
<1>4. \A i \in Insts : i # doing.inst => serverSocket'[i] = serverSocket[i]
  BY <1>1 DEF Close, Types
<1>5. ASSUME NEW t \in Socks, listener'[t].open, Counts(t), listener'[t].at \in InLoop
      PROVE  serverSocket'[listener[t].of] = t /\ running'[listener[t].of]
  <2>1. listener[t].open /\ t # serverSocket[doing.inst] /\ listener[t].at \in InLoop
    BY <1>2, <1>5
  <2>2. /\ listener[t].of \in Insts /\ serverSocket[listener[t].of] = t
        /\ Kept(listener[t].of)
    BY <1>5, <2>1, ThreadNow
  <2>3. listener[t].of # doing.inst
    BY <2>1, <2>2
  <2>4. QED
    BY <1>3, <1>4, <2>2, <2>3 DEF Kept
<1>6. \A t \in Socks : /\ listener'[t].of = listener[t].of
                       /\ listener'[t].open => listener[t].open /\ bt'
                       /\ listener[t].at = "none" => listener'[t].at = "none"
                       /\ listener[t].at = "done" => listener'[t].at = "done"
                       /\ listener'[t].at \in {"none", "closed", "leaving", "done"}
                            => ~listener'[t].open
  BY <1>1, <1>2, <1>3 DEF ThreadInv
<1>7. QED
  BY <1>1, <1>3, <1>5, <1>6, ThreadKept

LEMMA ListenThread == \A s \in Socks : ServiceInv /\ Listen(s) => ThreadInv'
<1> SUFFICES ASSUME NEW s \in Socks, ServiceInv, Listen(s) PROVE ThreadInv'
  OBVIOUS
<1> DEFINE i == doing.inst
<1>1. Types /\ ThreadInv /\ i \in Insts /\ i # 0 /\ doing.step = "listen" /\ bt
  BY DEF ServiceInv, Named, Listen, Insts
<1>2. \A t \in Socks :
        /\ listener'[t].of = IF t = s THEN i ELSE listener[t].of
        /\ listener'[t].open = IF t = s THEN TRUE ELSE listener[t].open
        /\ listener'[t].at = IF t = s THEN "loop" ELSE listener[t].at
  BY <1>1, ListenOpens
<1>3. UNCHANGED <<bt, running, overlapped>> /\ doing' = Idle
  BY DEF Listen, serviceVars
<1>4. serverSocket'[i] = s /\ \A j \in Insts : j # i => serverSocket'[j] = serverSocket[j]
  BY <1>1 DEF Listen, Types
<1>5. i \notin overlapped =>
        running[i] /\ \A t \in Socks : Under(t) => listener[t].of # i
  BY <1>1 DEF ThreadInv
<1> HIDE DEF i
<1>6. \A t \in Socks : t # s => /\ Under(t)' <=> Under(t)
                                /\ Counts(t)' <=> Counts(t)
  BY <1>2, <1>3 DEF Under, Counts
<1>7. Counts(s)' <=> i \notin overlapped
  BY <1>2, <1>3 DEF Counts
<1>8. \A u, t \in Socks :
        Under(u)' /\ Under(t)' /\ listener'[u].of = listener'[t].of /\ Counts(u)' => u = t
  <2> SUFFICES ASSUME NEW u \in Socks, NEW t \in Socks, Under(u)', Under(t)', Counts(u)',
                      listener'[u].of = listener'[t].of, u # t
               PROVE  FALSE
    OBVIOUS
  <2>1. i = listener'[u].of => i \notin overlapped
    BY <1>3 DEF Counts
  <2>2. CASE u = s
    BY <1>2, <1>5, <1>6, <2>1, <2>2
  <2>3. CASE t = s
    BY <1>2, <1>5, <1>6, <2>1, <2>3
  <2>4. CASE u # s /\ t # s
    BY <1>1, <1>2, <1>6, <2>4 DEF ThreadInv
  <2>5. QED
    BY <2>2, <2>3, <2>4
<1>9. ASSUME NEW t \in Socks, listener'[t].open, Counts(t)', listener'[t].at \in InLoop
      PROVE  serverSocket'[listener'[t].of] = t /\ running'[listener'[t].of]
  <2>1. CASE t = s
    BY <1>2, <1>3, <1>4, <1>5, <1>7, <1>9, <2>1
  <2>2. CASE t # s
    <3>1. Counts(t) /\ listener[t].open /\ listener[t].at \in InLoop
      BY <1>2, <1>6, <1>9, <2>2
    <3>2. /\ listener[t].of \in Insts /\ Under(t) /\ serverSocket[listener[t].of] = t
          /\ running[listener[t].of]
      BY <1>1, <3>1, ThreadNow DEF Kept
    <3>3. listener[t].of # i
      BY <1>5, <3>1, <3>2 DEF Counts
    <3>4. QED
      BY <1>2, <1>3, <1>4, <2>2, <3>2, <3>3
  <2>3. QED
    BY <2>1, <2>2
<1>10. \A t \in Socks :
         /\ listener'[t].at \in {"none", "closed", "leaving", "done"} => ~listener'[t].open
         /\ listener'[t].of = 0 => listener'[t].at = "none"
         /\ listener'[t].open => bt'
  BY <1>1, <1>2, <1>3 DEF ThreadInv
<1>11. \A t \in Socks :
         listener'[t].open /\ Counts(t)' /\ listener'[t].at \in InLoop
           => serverSocket'[listener'[t].of] = t /\ Kept(listener[t].of)'
  BY <1>9 DEF Kept
<1>12. doing'.step # "listen"
  BY <1>3 DEF Idle
<1>13. QED
  BY <1>8, <1>10, <1>11, <1>12 DEF ThreadInv, InLoop

\* What a listening start knows is left alone when nobody's running changes but
\* that of an instance with a thread under way.
LEMMA ListenKept ==
    ASSUME ServiceInv, UNCHANGED <<doing, overlapped>>, NEW i \in Insts,
           doing.step = "listen" /\ doing.inst \notin overlapped => doing.inst # i,
           \A j \in Insts : j # i /\ running[j] => running'[j]
    PROVE  doing'.step = "listen" /\ doing'.inst \notin overlapped'
             => /\ running'[doing'.inst]
                /\ \A t \in Socks : Under(t) => listener[t].of # doing'.inst
  BY DEF ServiceInv, Named, ThreadInv

\* A thread goes on in its loop, or leaves it; or comes nearer to its end.
LEMMA GoesThread ==
    ASSUME ServiceInv, NEW s \in Socks, NEW place \in Places, Goes(s, place),
           UNCHANGED <<bt, doing, serverSocket, overlapped, running>>,
           \/ listener[s].at \in InLoop /\ place \in InLoop \cup {"left"}
           \/ listener[s].at = "leaving" /\ place = "done"
    PROVE  ThreadInv'
<1>1. Types /\ ThreadInv
  BY DEF ServiceInv
<1>2. \A t \in Socks : /\ listener'[t].of = listener[t].of
                       /\ listener'[t].open = listener[t].open
                       /\ listener'[t].at = IF t = s THEN place ELSE listener[t].at
  BY <1>1, GoesType
<1>3. ASSUME NEW t \in Socks, listener'[t].open, Counts(t), listener'[t].at \in InLoop
      PROVE  /\ serverSocket'[listener[t].of] = t
             /\ \/ running'[listener[t].of]
                \/ doing'.step = "close" /\ doing'.inst = listener[t].of
  <2>1. listener[t].open /\ listener[t].at \in InLoop
    BY <1>2, <1>3 DEF InLoop
  <2>2. QED
    BY <1>3, <2>1, ThreadNow DEF Kept
<1>4. \A t \in Socks : /\ listener'[t].of = listener[t].of
                       /\ listener'[t].open => listener[t].open /\ bt'
                       /\ listener[t].at = "none" => listener'[t].at = "none"
                       /\ listener[t].at = "done" => listener'[t].at = "done"
                       /\ listener'[t].at \in {"none", "closed", "leaving", "done"}
                            => ~listener'[t].open
  BY <1>1, <1>2 DEF ThreadInv, InLoop
<1>5. doing'.step = "listen" /\ doing'.inst \notin overlapped'
        => /\ running'[doing'.inst]
           /\ \A t \in Socks : Under(t) => listener[t].of # doing'.inst
  BY <1>1 DEF ThreadInv
<1>6. QED
  BY <1>1, <1>3, <1>4, <1>5, ThreadKept

LEMMA AcceptThreadThread == \A s \in Socks : ServiceInv /\ AcceptThread(s) => ThreadInv'
<1> SUFFICES ASSUME NEW s \in Socks, ServiceInv, AcceptThread(s) PROVE ThreadInv'
  OBVIOUS
<1>1. Types /\ ThreadInv
  BY DEF ServiceInv
<1>2. UNCHANGED <<bt, doing, serverSocket, overlapped>>
  BY DEF AcceptThread, Loop, Accept, AcceptFails, HandleClient, CloseOwn, Leaves, TakesDown,
         threadVars
<1>3. CASE Loop(s) \/ Accept(s) \/ AcceptFails(s) \/ HandleClient(s) \/ TakesDown(s)
  <2>1. UNCHANGED running
    BY <1>3 DEF Loop, Accept, AcceptFails, HandleClient, TakesDown
  <2>2. PICK place \in Places :
          /\ Goes(s, place)
          /\ \/ listener[s].at \in InLoop /\ place \in InLoop \cup {"left"}
             \/ listener[s].at = "leaving" /\ place = "done"
    BY <1>3 DEF Loop, Accept, AcceptFails, HandleClient, TakesDown, Places, InLoop
  <2>3. QED
    BY <1>2, <2>1, <2>2, GoesThread
<1>4. ASSUME \A t \in Socks : /\ listener'[t].of = listener[t].of
                              /\ listener'[t].open => listener[t].open
                              /\ t # s => listener'[t].at = listener[t].at,
             ~listener'[s].open, Under(s), listener'[s].at \in {"closed", "leaving", "done"},
             \A j \in Insts : j # listener[s].of => running'[j] = running[j],
             \/ UNCHANGED running
             \/ listener[s].at \in {"closed"}
      PROVE  ThreadInv'
  <2>1. listener[s].of \in Insts
    BY <1>4, ThreadOf DEF Under
  <2>2. ASSUME NEW t \in Socks, listener'[t].open, Counts(t), listener'[t].at \in InLoop
        PROVE  /\ serverSocket'[listener[t].of] = t
               /\ \/ running'[listener[t].of]
                  \/ doing'.step = "close" /\ doing'.inst = listener[t].of
    <3>1. t # s /\ listener[t].open /\ listener[t].at \in InLoop
      BY <1>4, <2>2
    <3>2. /\ serverSocket[listener[t].of] = t /\ Under(t) /\ Kept(listener[t].of)
          /\ listener[t].of \in Insts
      BY <2>2, <3>1, ThreadNow
    <3>3. listener[t].of # listener[s].of
      BY <1>1, <1>4, <2>2, <3>1, <3>2 DEF ThreadInv
    <3>4. QED
      BY <1>2, <1>4, <3>2, <3>3 DEF Kept
  <2>3. \A t \in Socks : /\ listener'[t].of = listener[t].of
                         /\ listener'[t].open => listener[t].open /\ bt'
                         /\ listener[t].at = "none" => listener'[t].at = "none"
                         /\ listener[t].at = "done" => listener'[t].at = "done"
                         /\ listener'[t].at \in {"none", "closed", "leaving", "done"}
                              => ~listener'[t].open
    BY <1>1, <1>2, <1>4 DEF ThreadInv, Under
  <2>4. doing'.step = "listen" /\ doing'.inst \notin overlapped'
          => /\ running'[doing'.inst]
             /\ \A t \in Socks : Under(t) => listener[t].of # doing'.inst
    <3>1. doing.step = "listen" /\ doing.inst \notin overlapped
            => doing.inst # listener[s].of
      BY <1>1, <1>4 DEF ThreadInv
    <3>2. QED
      BY <1>2, <1>4, <2>1, <3>1, ListenKept
  <2>5. QED
    BY <1>1, <1>2, <2>2, <2>3, <2>4, ThreadKept
<1>5. CASE CloseOwn(s)
  <2>1. \A t \in Socks :
          /\ listener'[t].of = listener[t].of
          /\ listener'[t].open = (listener[t].open /\ t # s)
          /\ listener'[t].at = IF t = s THEN "closed" ELSE listener[t].at
    BY <1>1, <1>5, CloseOwnShuts
  <2>2. Under(s) /\ UNCHANGED running
    BY <1>5 DEF CloseOwn, Under
  <2>3. QED
    BY <1>4, <2>1, <2>2
<1>6. CASE Leaves(s)
  <2>1. PICK place \in {"leaving", "done"} : Goes(s, place)
    BY <1>6 DEF Leaves
  <2>2. listener[s].at = "closed" /\ Under(s) /\ place \in Places
    BY <1>6 DEF Leaves, Under, Places
  <2>3. \A t \in Socks : /\ listener'[t].of = listener[t].of
                         /\ listener'[t].open = listener[t].open
                         /\ listener'[t].at = IF t = s THEN place ELSE listener[t].at
    BY <1>1, <2>1, <2>2, GoesType
  <2>4. ~listener[s].open
    BY <1>1, <2>2 DEF ThreadInv
  <2>5. \A j \in Insts : j # listener[s].of => running'[j] = running[j]
    BY <1>1, <1>6 DEF Leaves, Types
  <2>6. QED
    BY <1>4, <2>2, <2>3, <2>4, <2>5
<1>7. QED
  BY <1>3, <1>5, <1>6 DEF AcceptThread

LEMMA ThreadStep == ServiceInv /\ [Next]_vars => ThreadInv'
<1> SUFFICES ASSUME ServiceInv, [Next]_vars PROVE ThreadInv'
  OBVIOUS
<1>1. Types /\ ThreadInv
  BY DEF ServiceInv
<1>2. ASSUME UNCHANGED <<listener, serverSocket, overlapped, running>>, bt => bt',
             UNCHANGED doing \/ (doing.step # "close" /\ doing'.step # "listen")
      PROVE  ThreadInv'
  <2>1. \A t \in Socks :
          listener[t].open /\ Counts(t) /\ listener[t].at \in InLoop
            => \/ running'[listener[t].of]
               \/ doing'.step = "close" /\ doing'.inst = listener[t].of
    BY <1>2, ThreadNow DEF Kept
  <2>2. doing'.step = "listen" /\ doing'.inst \notin overlapped'
          => /\ running'[doing'.inst]
             /\ \A t \in Socks : Under(t) => listener[t].of # doing'.inst
    BY <1>1, <1>2 DEF ThreadInv
  <2>3. QED
    BY <1>2, <2>1, <2>2, ThreadRest
<1>3. CASE ListenFails
  <2>1. /\ UNCHANGED <<listener, serverSocket, overlapped, bt>>
        /\ doing.step = "listen" /\ doing'.step # "listen"
        /\ \A j \in Insts : j # doing.inst => running'[j] = running[j]
    BY <1>1, <1>3 DEF ListenFails, serviceVars, Types, Callback
  <2>2. ASSUME NEW t \in Socks, listener[t].open, Counts(t), listener[t].at \in InLoop
        PROVE  running'[listener[t].of]
    <3>1. Under(t) /\ listener[t].of \in Insts /\ running[listener[t].of]
      BY <2>1, <2>2, ThreadNow DEF Kept
    <3>2. listener[t].of # doing.inst
      BY <1>1, <2>1, <2>2, <3>1 DEF ThreadInv, Counts
    <3>3. QED
      BY <2>1, <3>1, <3>2
  <2>3. QED
    BY <2>1, <2>2, ThreadRest
<1>4. CASE BtOff
  <2>1. \A t \in Socks : /\ listener'[t].of = listener[t].of
                         /\ ~listener'[t].open
                         /\ listener'[t].at = listener[t].at
    BY <1>1, <1>4, BtOffShuts
  <2>2. UNCHANGED <<overlapped, doing, running>>
    BY <1>4 DEF BtOff
  <2>3. doing'.step = "listen" /\ doing'.inst \notin overlapped'
          => /\ running'[doing'.inst]
             /\ \A t \in Socks : Under(t) => listener[t].of # doing'.inst
    BY <1>1, <2>2 DEF ThreadInv
  <2>4. QED
    BY <1>1, <2>1, <2>2, <2>3, ThreadKept
<1>5. CASE Cancel \/ Stops
  <2>1. UNCHANGED <<listener, serverSocket, overlapped, bt, running>>
    BY <1>5 DEF Cancel, Stops, serviceVars
  <2>2. doing.step # "close" /\ doing'.step # "listen"
    BY <1>1, <1>5 DEF Cancel, Stops, Idle, Types, Callback
  <2>3. QED
    BY <1>2, <2>1, <2>2
<1>6. ASSUME Start \/ Stop \/ BtOn \/ Serve \/ Gone \/ UNCHANGED vars
      PROVE  UNCHANGED <<listener, serverSocket, overlapped, running, doing>> /\ (bt => bt')
  BY <1>6 DEF Start, Stop, Command, BtOn, Serve, Gone, clientOnly, vars
<1>7. ASSUME NEW s \in Socks, Connect(s)
      PROVE  UNCHANGED <<listener, serverSocket, overlapped, running, doing>> /\ (bt => bt')
  BY <1>7 DEF Connect, clientOnly
<1>8. QED
  BY <1>2, <1>3, <1>4, <1>5, <1>6, <1>7, HandleThread, CloseThread, ListenThread,
     AcceptThreadThread DEF Next

\* A socket while it runs, and not running while it stops.
LEMMA SocketStep == ServiceInv /\ [Next]_vars => SocketInv'
<1> SUFFICES ASSUME ServiceInv, [Next]_vars PROVE SocketInv'
  OBVIOUS
<1>1. Types /\ SocketInv /\ Named
  BY DEF ServiceInv
<1>2. CASE Handle
  <2> DEFINE i == Head(messages)[1]
             what == Head(messages)[2]
  <2>1. i \in Insts /\ doing = Idle /\ UNCHANGED serverSocket
    BY <1>2, HeadOf DEF Handle
  <2>2. HandleStart(i) \/ HandleStop(i, what)
    BY <1>2 DEF Handle
  <2> HIDE DEF i, what
  <2>3. doing.step = "none"
    BY <2>1 DEF Idle
  <2>4. CASE HandleStart(i)
    <3>1. CASE running[i]
      BY <1>1, <2>1, <2>4, <3>1 DEF HandleStart, SocketInv
    <3>2. CASE ~running[i]
      <4>1. /\ running' = [running EXCEPT ![i] = TRUE]
            /\ doing' = [inst |-> i, step |-> "listen", what |-> "start"]
        BY <2>4, <3>2 DEF HandleStart
      <4>2. QED
        BY <1>1, <2>1, <2>3, <4>1 DEF SocketInv, Types
    <3>3. QED
      BY <3>1, <3>2
  <2>5. CASE HandleStop(i, what)
    <3>1. running' = [running EXCEPT ![i] = FALSE]
      BY <2>5 DEF HandleStop
    <3>2. doing' = Idle \/ doing'.inst = i
      BY <2>5 DEF HandleStop
    <3>3. doing'.step \in {"close", "cancel", "stopself"} => ~running'[doing'.inst]
      BY <1>1, <2>1, <3>1, <3>2 DEF Types, Idle
    <3>4. QED
      BY <1>1, <2>1, <2>3, <3>1, <3>3 DEF SocketInv, Types
  <2>6. QED
    BY <2>2, <2>4, <2>5
<1>3. CASE ListenFails
  <2>1. /\ running' = [running EXCEPT ![doing.inst] = FALSE] /\ doing.inst \in Insts
        /\ doing'.inst = doing.inst /\ doing'.step = "stopself" /\ UNCHANGED serverSocket
    BY <1>1, <1>3 DEF ListenFails, Named, Types, Callback
  <2>2. QED
    BY <1>1, <2>1 DEF SocketInv, Types
<1>4. ASSUME NEW s \in Socks, Listen(s) PROVE SocketInv'
  <2>1. /\ serverSocket' = [serverSocket EXCEPT ![doing.inst] = s] /\ doing.inst \in Insts
        /\ doing' = Idle /\ UNCHANGED running /\ s # 0
    BY <1>1, <1>4 DEF Listen, Named, Socks
  <2>2. QED
    BY <1>1, <2>1 DEF SocketInv, Types, Idle
<1>5. CASE Close
  <2>1. /\ serverSocket' = [serverSocket EXCEPT ![doing.inst] = 0] /\ doing.inst \in Insts
        /\ doing'.step = "cancel" /\ doing'.inst = doing.inst /\ doing.step = "close"
        /\ UNCHANGED running
    BY <1>1, <1>5 DEF Close, Named, Types, Callback
  <2>2. QED
    BY <1>1, <2>1 DEF SocketInv, Types
<1>6. CASE Cancel \/ Stops
  <2>1. /\ UNCHANGED <<running, serverSocket>> /\ doing.step \in {"cancel", "stopself"}
        /\ doing' = Idle \/ (doing'.step = "stopself" /\ doing'.inst = doing.inst)
    BY <1>1, <1>6 DEF Cancel, Stops, Types, Callback
  <2>2. QED
    BY <1>1, <2>1 DEF SocketInv, Idle
<1>7. ASSUME UNCHANGED <<doing, serverSocket>>,
             \A i \in Insts : running'[i] => running[i]
      PROVE  SocketInv'
  <2>1. doing.step \in {"close", "cancel", "stopself"} => doing.inst \in Insts
    BY <1>1 DEF Named
  <2>2. QED
    BY <1>1, <1>7, <2>1 DEF SocketInv
<1>8. ASSUME NEW s \in Socks, AcceptThread(s) \/ Connect(s)
      PROVE  UNCHANGED <<doing, serverSocket>> /\ \A i \in Insts : running'[i] => running[i]
  BY <1>1, <1>8 DEF AcceptThread, Loop, Accept, AcceptFails, HandleClient, CloseOwn, Leaves,
                    TakesDown, Connect, threadVars, clientOnly, Types
<1>9. ASSUME Start \/ Stop \/ BtOff \/ BtOn \/ Serve \/ Gone \/ UNCHANGED vars
      PROVE  UNCHANGED <<doing, serverSocket>> /\ \A i \in Insts : running'[i] => running[i]
  BY <1>9 DEF Start, Stop, Command, BtOff, BtOn, Serve, Gone, clientOnly, vars
<1>10. QED
  BY <1>2, <1>3, <1>4, <1>5, <1>6, <1>7, <1>8, <1>9 DEF Next

------------------------------------------------------------------------------
LEMMA ServiceInit == Init => ServiceInv
<1> SUFFICES ASSUME Init PROVE ServiceInv
  OBVIOUS
<1>1. \A s \in Socks : listener[s].of = 0 /\ listener[s].open = FALSE /\ listener[s].at = "none"
  BY DEF Init, NoListener
<1>2. \A i \in Insts : running[i] = FALSE /\ cancelled[i] = FALSE
  BY DEF Init
<1>3. doing.step = "none" /\ doing.what = "none" /\ doing.inst = 0
      /\ client.at = "none" /\ client.sock = 0
  BY DEF Init, Idle, NoClient
<1>4. Types
  <2>1. NoListener \in Listener /\ Idle \in Callback /\ NoClient \in Client
    BY BoundAssumption DEF NoListener, Listener, Places, Idle, Callback, NoClient, Client
  <2>2. current \in 0 .. MaxInsts /\ made \in 0 .. MaxInsts /\ 0 \in 0 .. MaxSocks
    BY BoundAssumption DEF Init
  <2>3. listener \in [Socks -> Listener]
    BY <2>1 DEF Init
  <2>4. serverSocket \in [Insts -> 0 .. MaxSocks]
    BY <2>2 DEF Init
  <2>5. running \in [Insts -> BOOLEAN] /\ cancelled \in [Insts -> BOOLEAN]
    BY DEF Init
  <2>6. QED
    BY <2>1, <2>2, <2>3, <2>4, <2>5 DEF Init, Types, Asked
<1>5. Queued(messages, current, made)
  <2>1. messages = <<>> /\ Len(messages) = 0
    BY DEF Init
  <2>2. messages \in Seq(Message)
    BY <2>1
  <2>3. QED
    BY <2>1, <2>2 DEF Queued
<1>6. Named
  BY <1>1, <1>2, <1>3 DEF Named, Init
<1>7. ClientInv
  BY <1>1, <1>3 DEF ClientInv, NobodyStranded
<1>8. ThreadInv
  BY <1>1, <1>3 DEF ThreadInv, Under
<1>9. RunningInv
  BY <1>2 DEF RunningInv
<1>10. SocketInv
  BY <1>2, <1>3 DEF SocketInv
<1>11. QED
  BY <1>4, <1>5, <1>6, <1>7, <1>8, <1>9, <1>10 DEF ServiceInv

LEMMA ServiceStep == ServiceInv /\ [Next]_vars => ServiceInv'
  BY TypesStep, QueueStep, NamedStep, ClientStep, ThreadStep, RunningStep, SocketStep
     DEF ServiceInv

LEMMA ServiceAlways == Spec => []ServiceInv
  BY ServiceInit, ServiceStep, PTL DEF Spec

\* The state is of its type and an instance that runs has a socket or is about to
\* get one, whatever order the callbacks, the accept threads and the failures of
\* the Bluetooth stack take.
THEOREM ServiceTypeCorrect == Spec => []TypeOK
<1>1. ServiceInv => TypeOK
  BY DEF ServiceInv, Types, Queued, SocketInv, TypeOK
<1>2. QED
  BY <1>1, ServiceAlways, PTL

\* No client of the current instance is accepted and left without a server, but
\* between the end of its scope (stopListener) and its stopSelf.
THEOREM NobodyIsStranded == Spec => []NobodyStranded
<1>1. ServiceInv => NobodyStranded
  BY DEF ServiceInv, ClientInv
<1>2. QED
  BY <1>1, ServiceAlways, PTL

\* At rest nothing listens that is not of the current instance, which runs.
LEMMA RestIsQuiet == ServiceInv => NoListenerLeft
<1> SUFFICES ASSUME ServiceInv, Rest, NEW s \in Socks, listener[s].open,
                    listener[s].of \notin overlapped
             PROVE  listener[s].of = current /\ running[current]
  BY DEF NoListenerLeft
<1>1. doing.step = "none" /\ Len(messages) = 0
  BY DEF Rest, Idle
<1>2. listener[s].at = "accept"
  BY DEF ServiceInv, ThreadInv, Rest, Steady
<1>3. listener[s].of \in Insts /\ Kept(listener[s].of)
  BY <1>2, ThreadNow DEF Counts, InLoop
<1>4. running[listener[s].of]
  BY <1>1, <1>3 DEF Kept
<1>5. listener[s].of = current
  BY <1>1, <1>3, <1>4 DEF ServiceInv, RunningInv, Waits
<1>6. QED
  BY <1>4, <1>5

\* A stop that races with the thread it wakes leaves no socket that listens.
THEOREM NothingListensBehind == Spec => []NoListenerLeft
  BY RestIsQuiet, ServiceAlways, PTL

------------------------------------------------------------------------------
(***************************************************************************)
(* The current instance listens at most once, and while it is running and  *)
(* not about to listen it has a thread that is not at its end; or a thread *)
(* of it is about to take it down.                                         *)
(***************************************************************************)
Own(s) == listener[s].of = current
Opening == doing.step = "listen" /\ doing.inst = current
Closing == doing.step \in {"close", "cancel", "stopself"} /\ doing.inst = current
Doomed == \E s \in Socks : Own(s) /\ listener[s].at = "leaving"

CurrentParts ==
    /\ current \notin overlapped
    /\ \A s, t \in Socks : Own(s) /\ Own(t) => s = t
    /\ ~running[current] => Closing \/ \A s \in Socks : ~Own(s)
    /\ Opening => running[current] /\ \A s \in Socks : ~Own(s)
    /\ Closing => ~running[current]
    /\ running[current] /\ ~Opening =>
         \E s \in Socks : Own(s) /\ listener[s].at # "done"

CurrentInv ==
    /\ \A i \in overlapped : i <= made
    /\ \A s \in Socks : listener[s].at = "none" => listener[s].of = 0
    /\ current # 0 => Doomed \/ CurrentParts

\* Nothing happens that the current instance takes part in, but that a thread of
\* it ends when it is not running.
LEMMA CurrentKept ==
    ASSUME CurrentParts, UNCHANGED current,
           running'[current] = running[current],
           Opening' <=> Opening, Closing' <=> Closing,
           current \notin overlapped => current \notin overlapped',
           \A s \in Socks :
             /\ Own(s)' <=> Own(s)
             /\ Own(s) /\ running[current] /\ listener[s].at # "done"
                  => listener'[s].at # "done"
    PROVE  CurrentParts'
<1>1. \A s \in Socks : Own(s)' <=> Own(s)
  OBVIOUS
<1>2. running[current] /\ ~Opening => \E s \in Socks : Own(s)' /\ listener'[s].at # "done"
  BY DEF CurrentParts
<1>3. \A s, t \in Socks : Own(s)' /\ Own(t)' => s = t
  BY <1>1 DEF CurrentParts
<1>4. /\ current' \notin overlapped'
      /\ ~running'[current'] => Closing' \/ \A s \in Socks : ~Own(s)'
      /\ Opening' => running'[current'] /\ \A s \in Socks : ~Own(s)'
      /\ Closing' => ~running'[current']
  BY <1>1 DEF CurrentParts
<1>5. running'[current'] /\ ~Opening' =>
        \E s \in Socks : Own(s)' /\ listener'[s].at # "done"
  BY <1>2
<1>6. QED
  BY <1>3, <1>4, <1>5 DEF CurrentParts

\* An instance that is made now has neither listened nor run.
LEMMA CurrentMade ==
    ASSUME ServiceInv, CurrentInv, NEW what, Command(what), current = 0
    PROVE  CurrentParts'
<1>1. /\ current' = made + 1 /\ made \in Nat /\ current' \in Insts
      /\ UNCHANGED <<doing, running, listener, overlapped>>
  BY BoundAssumption DEF Command, ServiceInv, Types, Insts
<1>2. \A s \in Socks : ~Own(s)'
  <2>1. \A s \in Socks : listener[s].of <= made /\ listener[s].of \in Nat
    BY BoundAssumption DEF ServiceInv, Types, Listener, Named
  <2>2. QED
    BY <1>1, <2>1 DEF Own
<1>3. current' \notin overlapped'
  BY <1>1 DEF CurrentInv
<1>4. ~Opening' /\ ~Closing'
  <2>1. doing.step # "none" => doing.inst <= made
    BY DEF ServiceInv, Named
  <2>2. doing.inst # current' \/ doing.step = "none"
    BY <1>1, <2>1
  <2>3. QED
    BY <1>1, <2>2 DEF Opening, Closing
<1>5. ~running'[current']
  <2>1. SUFFICES ASSUME running[current'] PROVE FALSE
    BY <1>1
  <2>2. current' # current
    BY <1>1
  <2>3. PICK n \in 1 .. Len(messages) : messages[n] = <<current', "destroy">>
    BY <1>1, <2>1, <2>2 DEF ServiceInv, RunningInv, Waits
  <2>4. messages[n][1] <= made
    BY DEF ServiceInv, Queued
  <2>5. QED
    BY <1>1, <2>3, <2>4
<1>6. QED
  BY <1>2, <1>3, <1>4, <1>5 DEF CurrentParts

LEMMA CurrentCommand ==
    ASSUME ServiceInv, CurrentInv, NEW what, Command(what)
    PROVE  Doomed' \/ CurrentParts'
<1>1. CASE current = 0
  BY <1>1, CurrentMade
<1>2. CASE current # 0
  <2>1. UNCHANGED <<current, doing, running, listener, overlapped>>
    BY <1>2 DEF Command
  <2>2. Doomed => Doomed'
    BY <2>1 DEF Doomed, Own
  <2>3. CurrentParts => CurrentParts'
    BY <2>1, CurrentKept DEF Own, Opening, Closing
  <2>4. QED
    BY <1>2, <2>2, <2>3 DEF CurrentInv
<1>3. QED
  BY <1>1, <1>2

LEMMA CurrentHandle ==
    ASSUME ServiceInv, CurrentParts, Handle, current \in Insts, UNCHANGED current
    PROVE  CurrentParts'
<1> DEFINE i == Head(messages)[1]
           what == Head(messages)[2]
<1>1. i \in Insts /\ running \in [Insts -> BOOLEAN]
      /\ (what = "destroy" => i # current) /\ what \in {"start", "stop", "destroy"}
  BY HeadOf DEF Handle, ServiceInv, Types
<1>2. /\ UNCHANGED listener /\ doing.step = "none"
      /\ \/ what = "start" /\ HandleStart(i)
         \/ what # "start" /\ HandleStop(i, what)
  BY DEF Handle, Idle
<1> HIDE DEF i, what
<1>3. ~Opening /\ ~Closing /\ \A s \in Socks : Own(s)' <=> Own(s)
  BY <1>2 DEF Opening, Closing, Own
<1>4. CASE UNCHANGED <<running, doing, overlapped>>
  BY <1>2, <1>3, <1>4, CurrentKept DEF Opening, Closing
<1>5. CASE /\ ~running[i] /\ running' = [running EXCEPT ![i] = TRUE]
           /\ doing' = [inst |-> i, step |-> "listen", what |-> "start"]
           /\ overlapped' = overlapped \cup
                {k \in {i} : \E s \in Socks :
                    listener[s].of = k /\ listener[s].at # "done"}
  <2>1. CASE i = current
    <3>1. Opening' /\ ~Closing' /\ running'[current']
      BY <1>1, <1>5, <2>1 DEF Opening, Closing
    <3>2. \A s \in Socks : ~Own(s) /\ ~Own(s)'
      BY <1>3, <1>5, <2>1 DEF CurrentParts
    <3>3. current' \notin overlapped'
      BY <1>5, <2>1, <3>2 DEF Own, CurrentParts
    <3>4. QED
      BY <3>1, <3>2, <3>3 DEF CurrentParts
  <2>2. CASE i # current
    <3>1. ~Opening' /\ ~Closing' /\ running'[current] = running[current]
      BY <1>1, <1>5, <2>2 DEF Opening, Closing
    <3>2. current \notin overlapped => current \notin overlapped'
      BY <1>5, <2>2
    <3>3. QED
      BY <1>2, <1>3, <3>1, <3>2, CurrentKept
  <2>3. QED
    BY <2>1, <2>2
<1>6. CASE HandleStop(i, what) /\ what # "start"
  <2>1. running' = [running EXCEPT ![i] = FALSE] /\ UNCHANGED overlapped
    BY <1>6 DEF HandleStop
  <2>2. CASE i = current
    <3>1. \E step \in {"close", "stopself"} :
            doing' = [inst |-> i, step |-> step, what |-> what]
      BY <1>1, <1>6, <2>2 DEF HandleStop
    <3>2. ~Opening' /\ Closing' /\ ~running'[current']
      BY <1>1, <2>1, <2>2, <3>1 DEF Opening, Closing
    <3>3. \A s, t \in Socks : Own(s)' /\ Own(t)' => s = t
      BY <1>3 DEF CurrentParts
    <3>4. current' \notin overlapped'
      BY <2>1 DEF CurrentParts
    <3>5. QED
      BY <3>2, <3>3, <3>4 DEF CurrentParts
  <2>3. CASE i # current
    <3>1. doing'.inst = i \/ doing'.step = "none"
      BY <1>6 DEF HandleStop, Idle
    <3>2. ~Opening' /\ ~Closing'
      BY <2>3, <3>1 DEF Opening, Closing
    <3>3. running'[current] = running[current]
      BY <1>1, <2>1, <2>3
    <3>4. QED
      BY <1>2, <1>3, <2>1, <3>2, <3>3, CurrentKept
  <2>4. QED
    BY <2>2, <2>3
<1>7. QED
  BY <1>2, <1>4, <1>5, <1>6 DEF HandleStart

LEMMA CurrentMain ==
    ASSUME ServiceInv, CurrentParts, current \in Insts, UNCHANGED current,
           ListenFails \/ Close \/ Cancel \/ Stops
    PROVE  CurrentParts'
<1>1. Types /\ Named
  BY DEF ServiceInv
<1>2. CASE ListenFails
  <2>1. /\ UNCHANGED <<listener, overlapped>> /\ doing.step = "listen"
        /\ doing'.step = "stopself" /\ doing'.inst = doing.inst
        /\ running' = [running EXCEPT ![doing.inst] = FALSE] /\ doing.inst \in Insts
    BY <1>1, <1>2 DEF ListenFails, Types, Callback, Named
  <2>2. \A s \in Socks : Own(s)' <=> Own(s)
    BY <2>1 DEF Own
  <2>3. CASE doing.inst = current
    <3>1. ~Opening' /\ Closing' /\ ~running'[current'] /\ \A s \in Socks : ~Own(s)'
      BY <1>1, <2>1, <2>2, <2>3 DEF Opening, Closing, CurrentParts, Types
    <3>2. QED
      BY <2>1, <3>1 DEF CurrentParts
  <2>4. CASE doing.inst # current
    <3>1. /\ ~Opening /\ ~Opening' /\ ~Closing /\ ~Closing'
          /\ running'[current] = running[current]
      BY <1>1, <2>1, <2>4 DEF Opening, Closing, Types
    <3>2. QED
      BY <2>1, <2>2, <3>1, CurrentKept
  <2>5. QED
    BY <2>3, <2>4
<1>3. CASE Cancel
  <2>1. /\ UNCHANGED <<listener, overlapped, running>> /\ doing.step = "cancel"
        /\ doing.what \in {"stop", "destroy"}
        /\ doing.what = "destroy" => doing.inst # current
    BY <1>1, <1>3 DEF Cancel, Named
  <2>2. \/ doing.what = "stop" /\ doing'.step = "stopself" /\ doing'.inst = doing.inst
        \/ doing.what = "destroy" /\ doing' = Idle
    BY <1>1, <1>3, <2>1 DEF Cancel, Types, Callback
  <2>3. ~Opening /\ ~Opening' /\ (Closing' <=> Closing)
    BY <2>1, <2>2 DEF Opening, Closing, Idle
  <2>4. QED
    BY <2>1, <2>3, CurrentKept DEF Own
<1>4. CASE Close
  <2>1. \A t \in Socks : listener'[t].of = listener[t].of /\ listener'[t].at = listener[t].at
    BY <1>1, <1>4, CloseShuts
  <2>2. doing'.inst = doing.inst /\ doing.step = "close" /\ doing'.step = "cancel"
    BY <1>1, <1>4 DEF Close, Types, Callback
  <2>3. UNCHANGED <<overlapped, running>>
    BY <1>4 DEF Close
  <2>4. QED
    BY <2>1, <2>2, <2>3, CurrentKept DEF Opening, Closing, Own
<1>5. CASE Stops
  <2>1. doing.inst # current
    BY <1>5 DEF Stops, StopSelf, Insts
  <2>2. UNCHANGED <<listener, overlapped, running>> /\ doing' = Idle
    BY <1>5 DEF Stops
  <2>3. QED
    BY <2>1, <2>2, CurrentKept DEF Opening, Closing, Own, Idle
<1>6. QED
  BY <1>2, <1>3, <1>4, <1>5

LEMMA CurrentListen ==
    ASSUME ServiceInv, CurrentParts, current \in Insts, NEW s \in Socks, Listen(s)
    PROVE  CurrentParts'
<1>1. /\ doing.step = "listen" /\ doing.inst \in Insts /\ doing' = Idle
      /\ UNCHANGED <<current, running, overlapped>> /\ listener[s].of = 0 /\ current # 0
  BY DEF Listen, Fresh, ServiceInv, Named, Insts
<1>2. \A t \in Socks :
        /\ listener'[t].of = IF t = s THEN doing.inst ELSE listener[t].of
        /\ listener'[t].at = IF t = s THEN "loop" ELSE listener[t].at
  BY <1>1, ListenOpens DEF ServiceInv
<1>3. ~Opening' /\ ~Closing'
  BY <1>1 DEF Opening, Closing, Idle
<1>4. CASE doing.inst = current
  <2>1. running[current] /\ \A t \in Socks : ~Own(t)
    BY <1>1, <1>4 DEF CurrentParts, Opening
  <2>2. current \notin overlapped'
    BY <1>1 DEF CurrentParts
  <2>3. \A t \in Socks : Own(t)' <=> t = s
    BY <1>1, <1>2, <1>4, <2>1 DEF Own
  <2>4. listener'[s].at # "done"
    BY <1>2
  <2>5. QED
    BY <1>1, <1>3, <2>1, <2>2, <2>3, <2>4 DEF CurrentParts
<1>5. CASE doing.inst # current
  <2>1. ~Opening /\ ~Closing
    BY <1>1, <1>5 DEF Opening, Closing
  <2>2. \A t \in Socks : (Own(t)' <=> Own(t))
                         /\ (Own(t) => listener'[t].at = listener[t].at)
    BY <1>1, <1>2, <1>5 DEF Own
  <2>3. QED
    BY <1>1, <1>3, <2>1, <2>2, CurrentKept
<1>6. QED
  BY <1>4, <1>5

\* A thread that ends while its instance runs is about to take the instance down.
LEMMA CurrentThread ==
    ASSUME ServiceInv, CurrentParts, ~Doomed, current \in Insts, UNCHANGED current,
           NEW s \in Socks, AcceptThread(s)
    PROVE  Doomed' \/ CurrentParts'
<1>1. Types /\ current # 0
  BY DEF ServiceInv, Insts
<1>2. UNCHANGED <<doing, overlapped>>
  BY DEF AcceptThread, Loop, Accept, AcceptFails, HandleClient, CloseOwn, Leaves, TakesDown,
         threadVars
<1>3. \A t \in Socks : /\ listener'[t].of = listener[t].of
                       /\ t # s => listener'[t].at = listener[t].at
  BY <1>1, ThreadGoes, GoesType, CloseOwnShuts DEF AcceptThread
<1>4. CASE Leaves(s)
  <2>1. CASE Own(s) /\ running[current]
    <3>1. Goes(s, "leaving") /\ "leaving" \in Places
      BY <1>4, <2>1 DEF Leaves, Own, Places
    <3>2. listener'[s].at = "leaving"
      BY <1>1, <3>1, GoesType
    <3>3. QED
      BY <1>3, <2>1, <3>2 DEF Doomed, Own
  <2>2. CASE ~(Own(s) /\ running[current])
    <3>1. running'[current] = running[current]
      BY <1>1, <1>4, <2>2 DEF Leaves, Own, Types
    <3>2. QED
      BY <1>2, <1>3, <2>2, <3>1, CurrentKept DEF Opening, Closing, Own
  <2>3. QED
    BY <2>1, <2>2
<1>5. CASE TakesDown(s)
  <2>1. ~Own(s) /\ UNCHANGED running
    BY <1>5 DEF TakesDown, Doomed
  <2>2. QED
    BY <1>2, <1>3, <2>1, CurrentKept DEF Opening, Closing, Own
<1>6. CASE ~Leaves(s) /\ ~TakesDown(s)
  <2>1. UNCHANGED running
    BY <1>6 DEF AcceptThread, Loop, Accept, AcceptFails, HandleClient, CloseOwn
  <2>2. listener'[s].at # "done"
    <3>1. CASE CloseOwn(s)
      BY <1>1, <3>1, CloseOwnShuts
    <3>2. CASE ~CloseOwn(s)
      <4>1. \E place \in {"accept", "left", "taken", "loop"} : Goes(s, place)
        BY <1>6, <3>2 DEF AcceptThread, Loop, Accept, AcceptFails, HandleClient
      <4>2. \A place \in {"accept", "left", "taken", "loop"} :
              place \in Places /\ place # "done"
        BY DEF Places
      <4>3. QED
        BY <1>1, <4>1, <4>2, GoesType
    <3>3. QED
      BY <3>1, <3>2
  <2>3. QED
    BY <1>2, <1>3, <2>1, <2>2, CurrentKept DEF Opening, Closing, Own
<1>7. QED
  BY <1>4, <1>5, <1>6

\* A thread about to take the current instance down stays so until it has.
LEMMA DoomedStep ==
    ASSUME ServiceInv, [Next]_vars, Doomed, current \in Insts, UNCHANGED current
    PROVE  Doomed'
<1>1. PICK s \in Socks : Own(s) /\ listener[s].at = "leaving"
  BY DEF Doomed
<1>2. Types /\ Named /\ listener[s].of # 0 /\ current # 0
  BY <1>1 DEF ServiceInv, Own, Insts
<1>3. listener'[s].of = current'
  BY <1>1, <1>2, OfKept DEF Own
<1>4. ASSUME NEW t \in Socks, AcceptThread(t) PROVE listener'[s].at = "leaving"
  <2>1. CASE t = s
    <3>1. TakesDown(s)
      BY <1>1, <1>4, <2>1
         DEF AcceptThread, Loop, Accept, AcceptFails, HandleClient, CloseOwn, Leaves
    <3>2. current' = 0
      BY <1>1, <3>1 DEF TakesDown, StopSelf, Own
    <3>3. QED
      BY <1>2, <3>2
  <2>2. CASE t # s
    BY <1>1, <1>2, <1>4, <2>2, ThreadGoes, GoesType, CloseOwnShuts DEF AcceptThread
  <2>3. QED
    BY <2>1, <2>2
<1>5. ASSUME NEW t \in Socks, Listen(t) PROVE listener'[s].at = "leaving"
  <2>1. t # s /\ doing.inst \in Insts
    BY <1>2, <1>5 DEF Listen, Fresh, Named
  <2>2. QED
    BY <1>1, <1>2, <1>5, <2>1, ListenOpens
<1>6. ASSUME BtOff \/ Close PROVE listener'[s].at = "leaving"
  BY <1>1, <1>2, <1>6, BtOffShuts, CloseShuts
<1>7. CASE UNCHANGED listener
  BY <1>1, <1>3, <1>7 DEF Doomed, Own
<1>8. ASSUME listener'[s].at = "leaving" PROVE Doomed'
  BY <1>3, <1>8 DEF Doomed, Own
<1>9. QED
  BY <1>4, <1>5, <1>6, <1>7, <1>8
     DEF Next, Start, Stop, Command, BtOn, Handle, ListenFails, Cancel, Stops, Connect,
         Serve, Gone, clientOnly, vars

LEMMA CurrentInvStep == ServiceInv /\ CurrentInv /\ [Next]_vars => CurrentInv'
<1> SUFFICES ASSUME ServiceInv, CurrentInv, [Next]_vars PROVE CurrentInv'
  OBVIOUS
<1>1. /\ Types /\ Named /\ made \in Nat /\ made' \in Nat /\ made <= made'
      /\ current \in 0 .. MaxInsts /\ overlapped \subseteq Nat
  <2>1. Types /\ Named /\ made \in Nat /\ current \in 0 .. MaxInsts /\ overlapped \subseteq Nat
    BY BoundAssumption DEF ServiceInv, Types, Insts
  <2>2. made' = made \/ made' = made + 1
    BY CurrentStep
  <2>3. QED
    BY <2>1, <2>2
<1>2. \A i \in overlapped' : i <= made'
  <2>1. CASE Handle
    <3> DEFINE i == Head(messages)[1]
    <3>1. i <= made /\ i \in Nat
      BY <2>1, HeadOf DEF Handle, Insts
    <3>2. \A k \in overlapped' : k \in overlapped \/ k = i
      BY <2>1 DEF Handle, HandleStart, HandleStop
    <3>3. \A k \in overlapped' : k <= made /\ k \in Nat
      BY <1>1, <3>1, <3>2 DEF CurrentInv
    <3>4. QED
      BY <1>1, <3>3
  <2>2. CASE ~Handle
    <3>1. UNCHANGED overlapped
      BY <2>2
         DEF Next, Start, Stop, Command, BtOff, BtOn, ListenFails, Listen, Close, Cancel,
             Stops, AcceptThread, Loop, Accept, AcceptFails, HandleClient, CloseOwn,
             Leaves, TakesDown, Connect, Serve, Gone, threadVars, clientOnly, vars
    <3>2. \A i \in overlapped' : i <= made /\ i \in Nat
      BY <1>1, <3>1 DEF CurrentInv
    <3>3. QED
      BY <1>1, <3>2
  <2>3. QED
    BY <2>1, <2>2
<1>3. \A t \in Socks : listener'[t].at = "none" => listener'[t].of = 0
  <2>1. CASE \E s \in Socks : Listen(s)
    BY <1>1, <2>1, ListenOpens DEF Listen, Named, CurrentInv
  <2>2. ASSUME NEW s \in Socks, AcceptThread(s), NEW t \in Socks, listener'[t].at = "none"
        PROVE  listener'[t].of = 0
    <3>1. CASE CloseOwn(s)
      BY <1>1, <2>2, <3>1, CloseOwnShuts DEF CurrentInv
    <3>2. CASE ~CloseOwn(s)
      <4>1. \E place \in {"accept", "left", "taken", "loop", "leaving", "done"} :
              Goes(s, place)
        BY <2>2, <3>2 DEF AcceptThread, Loop, Accept, AcceptFails, HandleClient, Leaves,
                          TakesDown
      <4>2. \A place \in {"accept", "left", "taken", "loop", "leaving", "done"} :
              place \in Places /\ place # "none"
        BY DEF Places
      <4>3. QED
        BY <1>1, <2>2, <4>1, <4>2, GoesType DEF CurrentInv
    <3>3. QED
      BY <3>1, <3>2
  <2>3. CASE BtOff \/ Close
    BY <1>1, <2>3, BtOffShuts, CloseShuts DEF CurrentInv
  <2>4. CASE UNCHANGED listener
    BY <2>4 DEF CurrentInv
  <2>5. QED
    BY <2>1, <2>2, <2>3, <2>4
       DEF Next, Start, Stop, Command, BtOn, Handle, ListenFails, Cancel, Stops, Connect,
           Serve, Gone, clientOnly, vars
<1>4. ASSUME current' # 0 PROVE Doomed' \/ CurrentParts'
  <2>1. CASE \E what : Command(what)
    BY <2>1, CurrentCommand
  <2>2. CASE ~\E what : Command(what)
    <3>1. UNCHANGED current /\ current \in Insts
      <4>1. \A i, q : StopSelf(i, q) => current' \in {0, current}
        BY DEF StopSelf
      <4>2. current' \in {0, current}
        BY <2>2, <4>1
           DEF Next, Start, Stop, BtOff, BtOn, Handle, ListenFails, Close, Cancel, Stops,
               Listen, AcceptThread, Loop, Accept, AcceptFails, HandleClient, CloseOwn,
               Leaves, TakesDown, Connect, Serve, Gone, clientOnly, vars
      <4>3. QED
        BY <1>1, <1>4, <4>2, BoundAssumption DEF Insts
    <3>2. CASE ~Doomed
      <4>1. CurrentParts
        BY <1>4, <3>1, <3>2 DEF CurrentInv
      <4>2. CASE UNCHANGED <<doing, running, listener, overlapped>>
        BY <3>1, <4>1, <4>2, CurrentKept DEF Own, Opening, Closing
      <4>3. CASE BtOff
        <5>1. UNCHANGED <<doing, running, overlapped>>
          BY <4>3 DEF BtOff
        <5>2. \A t \in Socks : listener'[t].of = listener[t].of /\ listener'[t].at = listener[t].at
          BY <1>1, <4>3, BtOffShuts
        <5>3. QED
          BY <3>1, <4>1, <5>1, <5>2, CurrentKept DEF Own, Opening, Closing
      <4>4. ASSUME BtOn \/ Serve \/ Gone \/ (\E s \in Socks : Connect(s)) \/ UNCHANGED vars
            PROVE  UNCHANGED <<doing, running, listener, overlapped>>
        BY <4>4 DEF BtOn, Serve, Gone, Connect, clientOnly, vars
      <4>5. QED
        BY <2>2, <3>1, <3>2, <4>1, <4>2, <4>3, <4>4, CurrentHandle, CurrentMain,
           CurrentListen, CurrentThread DEF Next, Start, Stop
    <3>3. QED
      BY <3>1, <3>2, DoomedStep
  <2>3. QED
    BY <2>1, <2>2
<1>5. QED
  BY <1>2, <1>3, <1>4 DEF CurrentInv

------------------------------------------------------------------------------
(***************************************************************************)
(* Since the last command, a start that found the service at rest: it      *)
(* waits, or its callback is about to listen, or the instance runs; and no *)
(* thread of the instance is on its way out, unless the stack failed.      *)
(***************************************************************************)
Stays(s) == listener[s].open /\ listener[s].at \in InLoop

CalmParts ==
    /\ bt /\ current # 0
    /\ doing.step \in {"none", "listen"}
    /\ doing.step = "listen" => doing.inst = current
    /\ messages # <<>> => messages = << <<current, "start">> >> /\ doing = Idle
    /\ messages = <<>> => running[current]
    /\ \A s \in Socks : Own(s) => Stays(s)

CalmInv == asked = "calm" => CalmParts

\* A service at rest has no thread that is on its way out: one at its end means
\* that the instance does not run, and then it never listened.
LEMMA CalmStart ==
    ASSUME ServiceInv, CurrentInv, Start, Rest, bt
    PROVE  CalmParts'
<1>1. Types /\ messages = <<>> /\ doing = Idle /\ doing.step = "none"
  BY DEF ServiceInv, Rest, Idle
<1>2. /\ UNCHANGED <<bt, doing, listener, running>>
      /\ messages' = Append(messages, <<current', "start">>)
      /\ (current' = current /\ current # 0) \/ (current = 0 /\ current' = made + 1)
  BY DEF Start, Command
<1>3. current' # 0
  BY <1>1, <1>2, BoundAssumption DEF Types
<1>4. messages' = << <<current', "start">> >> /\ messages' # <<>>
  BY <1>1, <1>2
<1>5. \A s \in Socks : Own(s)' => Stays(s)'
  <2>1. CASE current = 0
    <3>1. CurrentParts' /\ made \in Nat
      BY <2>1, CurrentMade, BoundAssumption DEF Start, ServiceInv, Types
    <3>2. \A s \in Socks : listener[s].of <= made /\ listener[s].of \in Nat
      BY BoundAssumption DEF ServiceInv, Types, Listener, Named
    <3>3. QED
      BY <1>2, <2>1, <3>1, <3>2 DEF Own
  <2>2. CASE current # 0
    <3>1. CurrentParts /\ ~Opening /\ ~Closing
      BY <1>1, <2>2 DEF CurrentInv, Doomed, Rest, Steady, Opening, Closing
    <3>2. SUFFICES ASSUME NEW s \in Socks, Own(s) PROVE Stays(s)
      BY <1>2, <2>2 DEF Own, Stays
    <3>3. listener[s].at # "none"
      BY <2>2, <3>2 DEF CurrentInv, Own
    <3>4. listener[s].at # "done"
      BY <3>1, <3>2 DEF CurrentParts
    <3>5. QED
      BY <3>3, <3>4 DEF Rest, Steady, Stays, InLoop
  <2>3. QED
    BY <2>1, <2>2
<1>6. QED
  BY <1>1, <1>2, <1>3, <1>4, <1>5 DEF CalmParts

\* The command is handled: the instance runs already, or listens next.
LEMMA CalmHandle ==
    ASSUME ServiceInv, CalmParts, Handle
    PROVE  CalmParts'
<1>1. /\ messages = << <<current, "start">> >> /\ doing = Idle /\ doing.step = "none"
  BY DEF CalmParts, Handle, Idle
<1>2. Head(messages)[1] = current /\ Head(messages)[2] = "start" /\ Tail(messages) = <<>>
  BY <1>1
<1>3. current \in Insts
  BY <1>1, <1>2, HeadOf
<1>4. HandleStart(current) /\ UNCHANGED <<bt, listener>>
  BY <1>2 DEF Handle, serviceVars
<1>5. messages' = <<>> /\ UNCHANGED current
  BY <1>2 DEF Handle
<1>6. /\ running'[current]
      /\ doing'.step \in {"none", "listen"}
      /\ doing'.step = "listen" => doing'.inst = current
  BY <1>1, <1>3, <1>4 DEF HandleStart, ServiceInv, Types
<1>7. \A s \in Socks : Own(s)' => Stays(s)'
  BY <1>4, <1>5 DEF CalmParts, Own, Stays
<1>8. QED
  BY <1>4, <1>5, <1>6, <1>7 DEF CalmParts

LEMMA CalmListen ==
    ASSUME ServiceInv, CalmParts, NEW s \in Socks, Listen(s)
    PROVE  CalmParts'
<1>1. doing.step = "listen" /\ doing.inst = current /\ messages = <<>>
  BY DEF CalmParts, Listen, Idle
<1>2. doing.inst \in Insts /\ doing' = Idle
      /\ UNCHANGED <<bt, current, messages, running>>
  BY <1>1 DEF Listen, serviceVars, ServiceInv, Named
<1>3. \A t \in Socks :
        /\ listener'[t].of = IF t = s THEN doing.inst ELSE listener[t].of
        /\ listener'[t].open = IF t = s THEN TRUE ELSE listener[t].open
        /\ listener'[t].at = IF t = s THEN "loop" ELSE listener[t].at
  BY <1>2, ListenOpens DEF ServiceInv
<1>4. \A t \in Socks : Own(t)' => Stays(t)'
  BY <1>2, <1>3 DEF CalmParts, Own, Stays, InLoop
<1>5. QED
  BY <1>1, <1>2, <1>4 DEF CalmParts, Idle

LEMMA CalmThread ==
    ASSUME ServiceInv, CurrentInv, CalmParts, NEW s \in Socks, AcceptThread(s),
           asked' = "calm"
    PROVE  CalmParts'
<1>1. /\ Types /\ CurrentParts /\ ~Closing /\ current \in Insts
      /\ \A t \in Socks : listener[t].open \in BOOLEAN
  <2>1. Types /\ current \in Insts /\ \A t \in Socks : listener[t].open \in BOOLEAN
    BY BoundAssumption DEF ServiceInv, Types, Listener, CalmParts, Insts
  <2>2. ~Doomed
    BY DEF CalmParts, Doomed, Stays, InLoop
  <2>3. CurrentParts
    BY <2>2 DEF CalmParts, CurrentInv
  <2>4. ~Closing
    BY DEF CalmParts, Closing
  <2>5. QED
    BY <2>1, <2>2, <2>3, <2>4
<1>2. Own(s) => Stays(s) /\ running[current]
  BY <1>1 DEF CurrentParts, CalmParts
<1>3. UNCHANGED <<bt, doing>>
  BY DEF AcceptThread, Loop, Accept, AcceptFails, HandleClient, CloseOwn, Leaves, TakesDown,
         threadVars
<1>4. UNCHANGED <<current, messages>> /\ running'[current] = running[current]
  <2>1. CASE Leaves(s)
    <3>1. ~Own(s)
      BY <1>2, <2>1 DEF Leaves, Stays, InLoop
    <3>2. QED
      BY <1>1, <2>1, <3>1 DEF Leaves, Own, Types
  <2>2. CASE TakesDown(s)
    <3>1. ~Own(s)
      BY <1>2, <2>2 DEF TakesDown, Stays, InLoop
    <3>2. QED
      BY <2>2, <3>1 DEF TakesDown, StopSelf, Own
  <2>3. CASE ~Leaves(s) /\ ~TakesDown(s)
    BY <2>3 DEF AcceptThread, Loop, Accept, AcceptFails, HandleClient, CloseOwn
  <2>4. QED
    BY <2>1, <2>2, <2>3
<1>5. \A t \in Socks :
        /\ listener'[t].of = listener[t].of
        /\ t # s => listener'[t].at = listener[t].at /\ listener'[t].open = listener[t].open
  BY <1>1, ThreadGoes, GoesType, CloseOwnShuts DEF AcceptThread
<1>6. ASSUME Own(s) PROVE Stays(s)'
  <2>1. listener[s].open /\ listener[s].at \in InLoop /\ running[listener[s].of]
    BY <1>2, <1>6 DEF Stays, Own
  <2>2. ~AcceptFails(s)
    BY <1>6, <2>1 DEF AcceptFails, Own
  <2>3. \E place \in {"accept", "taken", "loop"} : Goes(s, place)
    BY <2>1, <2>2 DEF AcceptThread, Loop, Accept, HandleClient, CloseOwn, Leaves, TakesDown,
                      InLoop
  <2>4. {"accept", "taken", "loop"} \subseteq Places /\ {"accept", "taken", "loop"} = InLoop
    BY DEF Places, InLoop
  <2>5. QED
    BY <1>1, <2>1, <2>3, <2>4, GoesType DEF Stays
<1>7. \A t \in Socks : Own(t)' => Stays(t)'
  <2>1. ASSUME NEW t \in Socks, t # s, Own(t)' PROVE Stays(t)'
    BY <1>4, <1>5, <2>1 DEF CalmParts, Own, Stays
  <2>2. Own(s)' => Own(s)
    BY <1>4, <1>5 DEF Own
  <2>3. QED
    BY <1>6, <2>1, <2>2
<1>8. QED
  BY <1>3, <1>4, <1>7 DEF CalmParts

LEMMA CalmStep == ServiceInv /\ CurrentInv /\ CalmInv /\ [Next]_vars => CalmInv'
<1> SUFFICES ASSUME ServiceInv, CurrentInv, CalmInv, [Next]_vars, asked' = "calm"
             PROVE  CalmParts'
  BY DEF CalmInv
<1>1. CASE Start
  BY <1>1, CalmStart DEF Start
<1>2. ~Stop /\ ~BtOff /\ ~ListenFails
  BY DEF Stop, BtOff, ListenFails
<1>3. ASSUME ~Start PROVE CalmParts
  <2>1. asked = "calm"
    BY <1>2, <1>3
       DEF Next, BtOn, Handle, Close, Cancel, Stops, Listen, AcceptThread, Loop,
           Accept, AcceptFails, HandleClient, CloseOwn, Leaves, TakesDown, Connect, Serve,
           Gone, serviceVars, threadVars, clientOnly, vars
  <2>2. QED
    BY <2>1 DEF CalmInv
<1>4. ASSUME CalmParts PROVE ~BtOn /\ ~Close /\ ~Cancel /\ ~Stops
  BY <1>4 DEF CalmParts, BtOn, Close, Cancel, Stops
<1>5. CASE ~Start /\ (Serve \/ Gone \/ (\E s \in Socks : Connect(s)) \/ UNCHANGED vars)
  <2>1. UNCHANGED <<bt, current, doing, messages, running, listener>>
    BY <1>5 DEF Serve, Gone, Connect, clientOnly, vars
  <2>2. QED
    BY <1>3, <1>5, <2>1 DEF CalmParts, Own, Stays
<1>6. QED
  BY <1>1, <1>2, <1>3, <1>4, <1>5, CalmHandle, CalmListen, CalmThread DEF Next

LEMMA CalmAlways == Spec => [](ServiceInv /\ CurrentInv /\ CalmInv)
<1>1. Init => CurrentInv /\ CalmInv
  BY DEF Init, NoListener, CurrentInv, CalmInv
<1>2. QED
  BY <1>1, ServiceInit, ServiceStep, CurrentInvStep, CalmStep, PTL DEF Spec

\* An instance that started to listen again while a thread of its was on its way
\* out, which a socket left behind is excused for, is not current for long: that
\* thread is about to call stopSelf, which takes it down whatever started since
\* (startListener).
THEOREM OverlapIsPast ==
    Spec => [](current \in overlapped =>
                 \E s \in Socks : listener[s].of = current /\ listener[s].at = "leaving")
<1>1. ServiceInv /\ CurrentInv =>
        (current \in overlapped =>
           \E s \in Socks : listener[s].of = current /\ listener[s].at = "leaving")
  BY BoundAssumption DEF ServiceInv, Types, CurrentInv, CurrentParts, Insts, Doomed, Own
<1>2. QED
  BY <1>1, CalmAlways, PTL

\* A start that finds the service at rest and the adapter on leads to a socket
\* that listens, whatever came before, unless a stop follows or the stack fails.
THEOREM AStartIsHeard == Spec => []StartIsHeard
<1>1. ServiceInv /\ CurrentInv /\ CalmInv => StartIsHeard
  <2> SUFFICES ASSUME ServiceInv, CurrentInv, CalmInv, asked = "calm", Rest
               PROVE  \E s \in Socks :
                        listener[s] = [of |-> current, open |-> TRUE, at |-> "accept"]
    BY DEF StartIsHeard, Listening
  <2>1. CalmParts /\ messages = <<>> /\ ~Opening
    BY DEF CalmInv, Rest, Idle, Opening
  <2>2. CurrentParts
    BY <2>1 DEF CalmParts, CurrentInv, Doomed, Stays, InLoop
  <2>3. PICK s \in Socks : Own(s)
    BY <2>1, <2>2 DEF CalmParts, CurrentParts
  <2>4. listener[s].open = TRUE /\ listener[s].at = "accept" /\ listener[s] \in Listener
    BY <2>1, <2>3 DEF CalmParts, Stays, InLoop, Rest, Steady, ServiceInv, Types, Listener
  <2>5. listener[s] = [of |-> current, open |-> TRUE, at |-> "accept"]
    BY <2>3, <2>4 DEF Own, Listener
  <2>6. QED
    BY <2>5
<1>2. QED
  BY <1>1, CalmAlways, PTL

==============================================================================
