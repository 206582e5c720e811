----------------------------- MODULE RfcommService -----------------------------
(***************************************************************************)
(* The foreground service of the phone that holds the listening socket     *)
(* (bt/RfcommService.kt), with the receivers that start and stop it.       *)
(*                                                                         *)
(* Three kinds of actor share an instance of the service: the main thread, *)
(* which runs the callbacks one after the other; an accept thread for each *)
(* listening socket; and the coroutine that serves a client.  What one of  *)
(* them does without the others seeing a difference is one step.           *)
(*                                                                         *)
(* External: the activity manager, which keeps one service record, makes   *)
(* an instance for a command that finds none and delivers commands in      *)
(* order to the main thread; and the Bluetooth stack, whose calls may      *)
(* fail at any time.                                                       *)
(***************************************************************************)
EXTENDS Naturals, Sequences

CONSTANTS
    MaxInsts,   \* bound: instances of the service in one run
    MaxSocks,   \* bound: listening sockets
    MaxMessages \* bound: commands that wait for the main thread

ASSUME BoundAssumption == {MaxInsts, MaxSocks, MaxMessages} \subseteq Nat

Insts == 1 .. MaxInsts
Socks == 1 .. MaxSocks

VARIABLES
    bt,           \* the adapter is enabled
    current,      \* the instance of the service record, 0 for none
    made,         \* instances made so far
    messages,     \* what the main thread has yet to do
    doing,        \* the callback it is in
    running,      \* running, of each instance
    cancelled,    \* whether scope is cancelled
    serverSocket, \* serverSocket, 0 for null
    listener,     \* the listening sockets and their accept threads
    client,       \* the connection from the daemon
    asked,        \* history: what the last command asked for
    overlapped    \* history: instances started again before an earlier accept
                  \* thread of theirs was done

vars == <<bt, current, made, messages, doing, running, cancelled, serverSocket,
          listener, client, asked, overlapped>>

Message == Insts \X {"start", "stop", "destroy"}
Idle == [inst |-> 0, step |-> "none", what |-> "none"]
Callback == [inst : 0 .. MaxInsts,
             step : {"none", "listen", "close", "cancel", "stopself"},
             what : {"none", "start", "stop", "destroy"}]

\* Where an accept thread is: at the head of the loop, in accept(), with a
\* client in its hands, out of the loop, past close(), about to call stopSelf,
\* and at its end.
Places == {"none", "loop", "accept", "taken", "left", "closed", "leaving", "done"}
NoListener == [of |-> 0, open |-> FALSE, at |-> "none"]
Listener == [of : 0 .. MaxInsts, open : BOOLEAN, at : Places]

NoClient == [at |-> "none", sock |-> 0]
Client == [at : {"none", "backlog", "taken", "launched", "served", "stranded"},
           sock : 0 .. MaxSocks]

\* What the last command asked for: a start of a service at rest ("calm"), or
\* nothing that has to come about: a stop, a start in the midst of other things, or
\* one that the adapter or the Bluetooth stack has failed.
Asked == {"none", "calm"}

\* The types; an instance that runs has a socket, or is about to get one.
TypeOK ==
    /\ bt \in BOOLEAN /\ asked \in Asked
    /\ current \in 0 .. MaxInsts /\ made \in 0 .. MaxInsts
    /\ messages \in Seq(Message)
    /\ doing \in Callback
    /\ running \in [Insts -> BOOLEAN] /\ cancelled \in [Insts -> BOOLEAN]
    /\ serverSocket \in [Insts -> 0 .. MaxSocks]
    /\ listener \in [Socks -> Listener]
    /\ client \in Client
    /\ overlapped \subseteq Insts
    /\ \A i \in Insts :
         running[i] => serverSocket[i] # 0
                         \/ (doing.step = "listen" /\ doing.inst = i)

Init ==
    /\ bt = TRUE
    /\ current = 0 /\ made = 0
    /\ messages = <<>> /\ doing = Idle
    /\ running = [i \in Insts |-> FALSE]
    /\ cancelled = [i \in Insts |-> FALSE]
    /\ serverSocket = [i \in Insts |-> 0]
    /\ listener = [s \in Socks |-> NoListener]
    /\ client = NoClient
    /\ asked = "none" /\ overlapped = {}

Steady(s) == listener[s].at \in {"none", "accept", "done"}
Rest ==
    /\ messages = <<>> /\ doing = Idle
    /\ \A s \in Socks : Steady(s) /\ (listener[s].at = "accept" => listener[s].open)

------------------------------------------------------------------------------
\* startService: for the current instance, or for a new one.
Command(what) ==
    /\ Len(messages) < MaxMessages
    /\ \/ /\ current # 0
          /\ messages' = Append(messages, <<current, what>>)
          /\ UNCHANGED <<current, made>>
       \/ /\ current = 0 /\ made < MaxInsts
          /\ current' = made + 1 /\ made' = made + 1
          /\ messages' = Append(messages, <<made + 1, what>>)
    /\ UNCHANGED <<bt, doing, running, cancelled, serverSocket, listener, client,
                   overlapped>>

\* RfcommService.start, which the receivers and the activity call on the main
\* thread, when the listener is enabled.
Start ==
    /\ doing = Idle
    /\ Command("start")
    /\ asked' = IF bt /\ Rest THEN "calm" ELSE "none"

\* RfcommService.stop, and the button of the notification.
Stop ==
    /\ Command("stop")
    /\ asked' = "none"

\* The adapter is switched off, which ends all its sockets, and on.
BtOff ==
    /\ bt /\ bt' = FALSE
    /\ listener' = [s \in Socks |-> [listener[s] EXCEPT !.open = FALSE]]
    /\ client' = IF client.at \in {"backlog", "stranded"} THEN NoClient ELSE client
    /\ asked' = "none"
    /\ UNCHANGED <<current, made, messages, doing, running, cancelled, serverSocket,
                   overlapped>>

BtOn ==
    /\ ~bt /\ bt' = TRUE
    /\ UNCHANGED <<current, made, messages, doing, running, cancelled, serverSocket,
                   listener, client, asked, overlapped>>

\* stopSelf() of instance i, with `queue' left for the main thread.  Commands
\* that were delivered are not taken back.
StopSelf(i, queue) ==
    IF current = i
    THEN current' = 0 /\ messages' = Append(queue, <<i, "destroy">>)
    ELSE messages' = queue /\ UNCHANGED current

serviceVars == <<bt, made>>

------------------------------------------------------------------------------
\* onStartCommand and onDestroy begin.
HandleStart(i) ==
    /\ \/ running[i] /\ UNCHANGED <<running, doing, overlapped>>
       \/ /\ ~running[i]
          /\ running' = [running EXCEPT ![i] = TRUE]
          /\ doing' = [inst |-> i, step |-> "listen", what |-> "start"]
          /\ overlapped' = overlapped \cup
               {k \in {i} : \E s \in Socks :
                   listener[s].of = k /\ listener[s].at # "done"}

\* stopListener, if it is running, and stopSelf.
HandleStop(i, what) ==
    /\ running' = [running EXCEPT ![i] = FALSE]
    /\ doing' = IF running[i] THEN [inst |-> i, step |-> "close", what |-> what]
                ELSE IF what = "stop"
                THEN [inst |-> i, step |-> "stopself", what |-> what]
                ELSE Idle
    /\ UNCHANGED overlapped

Handle ==
    /\ doing = Idle /\ messages # <<>>
    /\ messages' = Tail(messages)
    /\ LET i == Head(messages)[1]
           what == Head(messages)[2]
       IN  IF what = "start" THEN HandleStart(i) ELSE HandleStop(i, what)
    /\ UNCHANGED <<serviceVars, asked, current, cancelled, serverSocket, listener, client>>

\* Mistake: running stays set when there is no socket.
ListenFailsRunning ==
    /\ doing.step = "listen"
    /\ doing' = [doing EXCEPT !.step = "stopself"]
    /\ asked' = "none"
    /\ UNCHANGED <<serviceVars, current, messages, running, cancelled, serverSocket,
                   listener, client, overlapped>>

\* startListener gets no socket: the permission is missing, the adapter is off, or
\* listenUsingRfcommWithServiceRecord throws.
ListenFails ==
    /\ doing.step = "listen"
    /\ running' = [running EXCEPT ![doing.inst] = FALSE]
    /\ doing' = [doing EXCEPT !.step = "stopself"]
    /\ asked' = "none"
    /\ UNCHANGED <<serviceVars, current, messages, cancelled, serverSocket, listener,
                   client, overlapped>>

Fresh(s) == listener[s].of = 0 /\ \A t \in 1 .. s - 1 : listener[t].of # 0

\* It gets one, and a thread for it.
Listen(s) ==
    /\ doing.step = "listen" /\ bt /\ Fresh(s)
    /\ listener' = [listener EXCEPT ![s] =
         [of |-> doing.inst, open |-> TRUE, at |-> "loop"]]
    /\ serverSocket' = [serverSocket EXCEPT ![doing.inst] = s]
    /\ doing' = Idle
    /\ UNCHANGED <<serviceVars, asked, current, messages, running, cancelled, client,
                   overlapped>>

\* Mistake: the socket is left open.
CloseNothing ==
    /\ doing.step = "close"
    /\ serverSocket' = [serverSocket EXCEPT ![doing.inst] = 0]
    /\ doing' = [doing EXCEPT !.step = "cancel"]
    /\ UNCHANGED <<serviceVars, asked, current, messages, running, cancelled, listener,
                   client, overlapped>>

\* stopListener closes the socket; a connection nobody accepted goes with it.
Close ==
    LET s == serverSocket[doing.inst]
    IN  /\ doing.step = "close"
        /\ listener' = [t \in Socks |->
             IF t = s THEN [listener[t] EXCEPT !.open = FALSE] ELSE listener[t]]
        /\ client' = IF client = [at |-> "backlog", sock |-> s] THEN NoClient ELSE client
        /\ serverSocket' = [serverSocket EXCEPT ![doing.inst] = 0]
        /\ doing' = [doing EXCEPT !.step = "cancel"]
        /\ UNCHANGED <<serviceVars, asked, current, messages, running, cancelled,
                       overlapped>>

\* It cancels the scope for good: a coroutine that has not begun never does, and
\* one that serves goes on until its blocking read returns.
Cancel ==
    /\ doing.step = "cancel"
    /\ cancelled' = [cancelled EXCEPT ![doing.inst] = TRUE]
    /\ client' = IF client.at = "launched" /\ listener[client.sock].of = doing.inst
                 THEN [client EXCEPT !.at = "stranded"] ELSE client
    /\ doing' = IF doing.what = "stop" THEN [doing EXCEPT !.step = "stopself"] ELSE Idle
    /\ UNCHANGED <<serviceVars, asked, current, messages, running, serverSocket,
                   listener, overlapped>>

\* Mistake: stopSelf(startId), which does nothing when a later start is on its way.
StopsById ==
    /\ doing.step = "stopself"
    /\ IF \A n \in 1 .. Len(messages) : messages[n] # <<doing.inst, "start">>
       THEN StopSelf(doing.inst, messages)
       ELSE UNCHANGED <<current, messages>>
    /\ doing' = Idle
    /\ UNCHANGED <<serviceVars, asked, running, cancelled, serverSocket, listener,
                   client, overlapped>>

\* stopSelf, after stopListener or a start that failed.
Stops ==
    /\ doing.step = "stopself"
    /\ StopSelf(doing.inst, messages)
    /\ doing' = Idle
    /\ UNCHANGED <<serviceVars, asked, running, cancelled, serverSocket, listener,
                   client, overlapped>>

------------------------------------------------------------------------------
\* The accept thread of socket s.
Goes(s, place) == listener' = [listener EXCEPT ![s].at = place]
threadVars == <<bt, made, doing, cancelled, serverSocket, overlapped>>

Loop(s) ==
    /\ listener[s].at = "loop"
    /\ Goes(s, IF running[listener[s].of] THEN "accept" ELSE "left")
    /\ UNCHANGED <<threadVars, asked, current, messages, running, client>>

Accept(s) ==
    /\ listener[s].at = "accept" /\ client = [at |-> "backlog", sock |-> s]
    /\ client' = [client EXCEPT !.at = "taken"]
    /\ Goes(s, "taken")
    /\ UNCHANGED <<threadVars, asked, current, messages, running>>

\* accept() throws, as it does on a closed socket and may on an open one.
AcceptFails(s) ==
    /\ listener[s].at = "accept"
    /\ Goes(s, "left")
    /\ asked' = IF listener[s].open /\ listener[s].of = current THEN "none" ELSE asked
    /\ UNCHANGED <<threadVars, current, messages, running, client>>

\* Mistake: the thread accepts one client and no other.
HandleClientOnce(s) ==
    /\ listener[s].at = "taken"
    /\ client' = [client EXCEPT !.at =
         IF cancelled[listener[s].of] THEN "stranded" ELSE "launched"]
    /\ Goes(s, "done")
    /\ UNCHANGED <<threadVars, asked, current, messages, running>>

\* handleClient: launch does nothing in a scope that is cancelled.
HandleClient(s) ==
    /\ listener[s].at = "taken"
    /\ client' = [client EXCEPT !.at =
         IF cancelled[listener[s].of] THEN "stranded" ELSE "launched"]
    /\ Goes(s, "loop")
    /\ UNCHANGED <<threadVars, asked, current, messages, running>>

CloseOwn(s) ==
    /\ listener[s].at = "left"
    /\ listener' = [listener EXCEPT ![s].open = FALSE, ![s].at = "closed"]
    /\ client' = IF client = [at |-> "backlog", sock |-> s] THEN NoClient ELSE client
    /\ UNCHANGED <<threadVars, asked, current, messages, running>>

\* Mistake: the service is left up when accept() has failed.
LeavesQuietly(s) ==
    /\ listener[s].at = "closed"
    /\ Goes(s, "done")
    /\ UNCHANGED <<threadVars, asked, current, messages, running, client>>

\* running.compareAndSet(true, false)
Leaves(s) ==
    LET i == listener[s].of
    IN  /\ listener[s].at = "closed"
        /\ Goes(s, IF running[i] THEN "leaving" ELSE "done")
        /\ running' = [running EXCEPT ![i] = FALSE]
        /\ UNCHANGED <<threadVars, asked, current, messages, client>>

\* stopSelf(), if it was set.
TakesDown(s) ==
    /\ listener[s].at = "leaving"
    /\ Goes(s, "done")
    /\ StopSelf(listener[s].of, messages)
    /\ UNCHANGED <<threadVars, asked, running, client>>

AcceptThread(s) ==
    \/ Loop(s) \/ Accept(s) \/ AcceptFails(s) \/ HandleClient(s)
    \/ CloseOwn(s) \/ Leaves(s) \/ TakesDown(s)

------------------------------------------------------------------------------
\* The daemon connects to a listening socket, one channel at a time.
clientOnly == <<bt, current, made, messages, doing, running, cancelled, serverSocket,
                listener, asked, overlapped>>

Connect(s) ==
    /\ bt /\ client = NoClient /\ listener[s].open
    /\ client' = [at |-> "backlog", sock |-> s]
    /\ UNCHANGED clientOnly

\* MuxServer(client).run() begins, and ends when the link drops, on an error or
\* on BYE.
Serve ==
    /\ client.at = "launched"
    /\ client' = [client EXCEPT !.at = "served"]
    /\ UNCHANGED clientOnly

Gone ==
    /\ client.at \in {"backlog", "served", "stranded"}
    /\ client' = NoClient
    /\ UNCHANGED clientOnly

Next ==
    \/ Start \/ Stop \/ BtOff \/ BtOn
    \/ Handle \/ ListenFails \/ Close \/ Cancel \/ Stops
    \/ \E s \in Socks : Listen(s) \/ AcceptThread(s) \/ Connect(s)
    \/ Serve \/ Gone

\* The main thread, the threads and the coroutines run; accept() on an open socket
\* may wait for ever.
Spec ==
    /\ Init /\ [][Next]_vars
    /\ WF_vars(Handle) /\ WF_vars(Close) /\ WF_vars(Cancel) /\ WF_vars(Stops)
    /\ WF_vars(ListenFails \/ \E s \in Socks : Listen(s))
    /\ \A s \in Socks :
         WF_vars(AcceptThread(s) /\ (AcceptFails(s) => ~listener[s].open))
    /\ WF_vars(Serve)

------------------------------------------------------------------------------
(***************************************************************************)
(* Properties                                                              *)
(***************************************************************************)

\* When the service is at rest, a socket that listens belongs to the service as
\* it is: a stop closes what it opened, although a thread in accept() closes it
\* too and either may be first (stopListener).  The instances excepted were
\* started again while a thread of theirs was leaving: that thread clears the
\* running of the new one, and onDestroy then finds nothing to close.
NoListenerLeft ==
    Rest => \A s \in Socks :
        listener[s].open /\ listener[s].of \notin overlapped
            => listener[s].of = current /\ running[current]

Listening ==
    \E s \in Socks : listener[s] = [of |-> current, open |-> TRUE, at |-> "accept"]

\* A start that finds the service at rest and the adapter on leads to a socket
\* that listens, whatever came before, unless a stop follows or the stack fails:
\* a service without its accept loop is not kept up (onStartCommand;
\* BluetoothStateReceiver.kt:14 is about a service that was).
StartIsHeard == asked = "calm" /\ Rest => Listening

\* No client of the current instance is accepted and then left without a server,
\* but at the end of a stop: a scope that is cancelled is that of a service about
\* to be destroyed, also when a start is on its way (stopListener, stopSelf).
NobodyStranded ==
    client.at = "stranded" =>
        \/ listener[client.sock].of # current
        \/ doing = [inst |-> current, step |-> "stopself", what |-> "stop"]

\* A connection of the daemon is served or ends, or the service is stopped.
ClientIsServed ==
    \A s \in Socks :
        client = [at |-> "backlog", sock |-> s]
            ~> \/ client.at \in {"served", "none"}
               \/ \E i \in Insts : listener[s].of = i
                                      /\ cancelled[i]

==============================================================================
