# Models and proofs for the DM250 Bluetooth tether

The repository turns a Pomera DM250 into an OpenBSD machine that reaches the
internet through an Android phone. What is worth verifying in it is the tether:
a daemon on the DM250 (`panctl`, C, one thread on BTstack's run loop) and an
app on the phone (`wake-android-tether`, Kotlin coroutines) that carry TCP and
UDP streams over one RFCOMM channel with the frame protocol of
`panctl/PROTOCOL.md`. Around it live shell daemons, a kernel patch series and
one-shot install scripts.

## Inventory

| Part | State | Operations | What makes it correct |
|---|---|---|---|
| transmit queue (`main.c:151-244`) | ring, "can send now" flag | frame offered, CAN_SEND_NOW, channel opened and closed | FIFO, nothing lost or stranded, nothing carried over to the next channel |
| link (`main.c:412-531`) | channel id, server channel, reconnect timer, test stream | SDP events, timer, channel events, `test-tcp` | one attempt at a time, fresh server channel, never idle without a channel |
| pairing (`main.c:533-738`) | pending request, its timer, discoverability | request, confirm, deny, timeout | every request answered once or replaced |
| userland TCP (`tun_tcp.c`) | 128 slots, age per slot | SYN, segment, RST from the tun; OPEN_ACK, DATA, CLOSE_WR, RST from the phone; sweep | one slot per connection, half-close, bounded handshake, no silent release |
| mux session (`mux.c`, `frame.c`) | parser phase, header and payload buffers | feed, send | frames independent of chunking, errors end the session |
| divert (`divert.c`, `ipv4.c`) | stream tables, port map, next id | accept, read, UDP packet, peer frames | ids unique over all users, mappings as old as the channel |
| control socket (`ctl.c`) | 4 clients, line buffers | accept, read, drain | commands whole and in order |
| phone: mux server (`MuxServer.kt`, `TcpStream.kt`, `UdpStream.kt`, `FrameWriter.kt`) | stream tables, sockets, coroutines, credit | every frame, connect, read pump, shutdown | a stream's frames in protocol order, tables agree with sockets |
| phone: service (`RfcommService.kt`, receivers) | running flag, accept thread | start, stop, accept, Bluetooth off | one listener while Bluetooth is on |
| shell daemons (`harness/`) | state files, locks | poll loops, hot-plug | mutual exclusion, restored brightness, one uplink |
| kernel patches | driver state over suspend | attach, detach, suspend, resume | no bus access while suspended |

How they interact. BTstack calls `main.c` with events; `mux_feed` cuts the byte
stream into frames and calls `tun_tcp`, the test stream and `divert` in this
order; they answer through `mux_send_*`, which end in the transmit queue. On the
phone one reader coroutine dispatches frames to stream objects, each with its
own connect and read-pump coroutines, and all of them put frames into one
writer's channel. The daemon is single-threaded, so its hard behaviours are
orders of events and state kept too long; the phone's are interleavings of
coroutines; those of the whole are frames in flight while a stream id changes
hands.

## What is modelled

### `SendQueue` and `OrderedPipe`: the transmit queue

`SendQueue` has one action per event that touches the ring. `MuxWrite` is
`mux_write_rfcomm`, with the answer of `rfcomm_send` as parameter (`ok`, `busy`
for `BTSTACK_ACL_BUFFERS_FULL` and `RFCOMM_NO_OUTGOING_CREDITS`, `fatal` for any
other code) and whether the frame fits a slot. `CanSendNow` enters
`send_q_drain`, whose iterations are `DrainHead`, `DrainBusy` and `DrainDone`;
the variable `draining` keeps every other handler out meanwhile, as the single
thread does. `ChannelOpened` sends HELLO. `owed` is BTstack's side of
`rfcomm_request_can_send_now_event`. BTstack is assumed to signal
CAN_SEND_NOW from its run loop and not inside the request. Frames are numbers in
the order of their offer, so a wrong order is visible.

`OrderedPipe` is the promise: a FIFO per channel that may refuse a frame at the
entrance and discard one the stack refuses for good. `Contents` reads the ring
as a sequence; `KeepsOrder` is the refinement.

### `TunTcp`: the userland TCP end

One action per handler of `tun_tcp.c`. A stream id is the index of its slot.
`muxOut` and `tunOut` are what the last handler sent, so that properties of a
step can speak of it. A payload is counted in units of `OUR_MSS`; sequence
numbers wrap at `SEQ_SPACE`. `ledger` is history: which CLOSE_WR were exchanged
and how many sweeps met the present tenant in SYN_RCVD. The loop of
`tun_tcp_sweep` is split into steps by `sweepAt`, during which no other handler
runs. Inputs are any segment of any client: the kernel's TCP is not modelled.

### `Link` and `Operator`: the channel, pairing and the control socket

`Link` has the handlers of the SDP query, the reconnect timer and the RFCOMM
channel events, with `test-tcp`. `query`, `opening` and `service` are external:
BTstack's query and connect, and the phone's service, which may come, go and
move to another server channel at any time. The call that starts a query returns
a code nobody looks at (`main.c:431`, `488`), so `StartQuery` has it as parameter
and may start nothing. `reported`, `refused` and `unasked` are history.

`Operator` extends it with what runs on the same loop and shares its state: the
passkey confirmations of `main.c` (`PairRequest`, `PairTimeout`, `Confirm`, with
`deny` the same) and the control socket of `ctl.c`. A caller is in the backlog,
holds a slot or is over; what it has sent is nothing, a part of a line, a line
that is spoilt, or a command. `DoAccept` reads a caller once as it accepts it,
`CtlDrain` is the 50 ms sweep that reads it again. `test-tcp` keeps a duplicate
of the caller's socket (`tester`), which `test_finish` gives back. The result of
`hci_send_cmd` is ignored by the code, so both outcomes follow an answer.

### `Divert` and `Tether`: diverted streams from the application to the phone

`Divert` is the daemon's end (`divert.c`). `Accept` allocates an id by the search
from `next_stream_id`, `DrainTcp` is one visit of the 50 ms sweep or of a readable
socket, `OutboundUdp` a datagram of the divert socket or the tun, and `PeerData`,
`PeerCloseWr` and so on the callbacks of the phone's frames. `app` is the other
end of each local socket. `Offer` puts a frame into the transmit queue or refuses
it, and the handlers do with the result what the code does: mostly nothing.

`Tether` composes it with the queue and the channel, which may be cut, and with
the phone: a coarse `MuxServer` in which a stream is connecting, open or shut,
and where UDP streams share the ids and the reader. A step of the daemon is a
step of `Divert` with its history (`Aside`); the phone's frames reach it in
`DaemonReads`. The transmit queue is the ring of `SendQueue` from the outside: it
may refuse a frame at the entrance, and its drain may drop one it has taken
(`Dropped`, the last case of `send_q_drain`), of which the sender never hears.
`stale`, `unopened`, `unbound` and `untold` are history: ids in use since an
earlier channel, ids whose TCP_OPEN was dropped, ids whose UDP_BIND was refused or
dropped, and ids of whose end the phone was not told. A TCP_CLOSE_WR that is
dropped needs no history: while the stream is half closed the sweep sends it
again, and when it is the second of the two ends the phone has let the stream go
with the first. One assumption narrows the environment: an id that is allocated
anew has no frame of its last tenant in flight (`Spaced`), as the code's search
takes 65535 other ids first.

### `MuxFeed`: frames out of bytes

`mux_feed` one iteration at a time: `FeedPart` when the packet ends inside a
header or a payload, `FeedHeader` and `FeedPayload` when one is complete, with
`dispatch_frame` as `Dispatch` or `Fail`. A byte is a pair of its frame and its
place in it, so bytes that do not belong together are recognised, and a header
made of such bytes reads as any header. `ChannelOpened` and `ChannelClosed` leave
the parser alone, as `main.c` does. The phone may write
while the loop runs, which changes nothing it looks at. The callbacks are the other
modules' handlers and are not called from here.

### `MuxServer`: the phone's end

The reader's handlers of `MuxServer.kt`, the coroutines of `TcpStream.kt` and
the writer of `FrameWriter.kt`, with any interleaving of their steps. A stream
object is made by `OnOpen` and never used twice; `tcpStreams` maps an id to one.
`at` is where its coroutines stand: `open()` up to "acked", the pump from
"launched" on. A step reaches from one suspension or blocking call to the next,
so looking at the window (`GetsCredit`), reading (`Reads`), taking from the
window (`Consumes`) and sending (`Forwards`) are four steps between which grants
and resets come in. `SetsJob` is the store to `pumpJob`, which follows the launch.
The coroutines go on after `Shutdown`; a send then throws. The writer's channel is
the number of frames in it, which is what a sender waits for; what the frames and
their order mean to the daemon is in `Tether`. The peer sends any
frame at any time, and opens any id again as soon as the table has room for it.
`ledger` and `crossed` are history: credit and missed cancellations, and the ids
that were opened while an earlier stream of theirs was out of the table and still
coming to its end (`Lingers`), as `tun_tcp` does after a RST. There the earlier
stream's `onClosed` takes the later one's entry (`mux_id_reuse`); the properties
except these ids, and no others.
UDP streams, which share the reader and the ids, are in `Tether`.

### `RfcommService`: the phone's service

The callbacks of `RfcommService.kt` on the main thread, the accept thread of each
listening socket and the coroutine of a client. `messages` is what the activity
manager has for the main thread, `doing` the callback that is under way: a
callback is cut where another thread can see the difference, so `onStartCommand`
is `Handle` and then `Listen` or `ListenFails`, and a stop is `Handle`, `Close`,
`Cancel` (the scope) and `Stops` (`stopSelf`). The accept thread goes through
`Loop`, `Accept` or `AcceptFails`, `HandleClient`, `CloseOwn`, `Leaves` (the
`compareAndSet`) and `TakesDown` (the `stopSelf` behind it): it runs beside the
main thread, so a start may be handled between the two.

The Bluetooth stack may fail at any call: `ListenFails` stands for the missing
permission, the adapter that is off and the exception of
`listenUsingRfcommWithServiceRecord`, `AcceptFails` for an exception on a closed
socket or an open one. `Start` and `Stop` are what the receivers, the activity and
the notification do, at any time; `BtOff` and `BtOn` are the adapter alone, and the
stop and the start of `BluetoothStateReceiver` follow or do not. External, from the
contract of Android's services: a command for a service that is not there makes an
instance, commands are delivered in order, and `stopSelf` without a start id takes
the service down although a command waits.

`overlapped` and `asked` are history. `overlapped` has the instances that were
started again before an earlier thread of theirs was done: that thread clears the
`running` of the new listener and takes its service down, and `NoListenerLeft`
excepts them by name. `asked` is "calm" after a start that found the service at rest
and the adapter on, until a stop follows, the adapter goes or the stack fails the
service. What the exceptions leave out is what the code does, and no run repeats it:

* an accept thread that leaves while its instance is started again clears the
  `running` of the new listener (`RfcommService.kt:126`); `onDestroy` then finds
  nothing to close, and the socket listens on without a service or a notification;
* between the failure of `accept()` and the `compareAndSet` of its thread the service
  looks as if it ran, so a start does nothing (`:69`), and the thread then takes the
  service down; a start that comes behind a stop goes down with the instance (`:64`);
* a client that was accepted when the scope is cancelled is neither served nor
  closed (`:143`).

## Runs

| Run | Shows | Bounds and why they are enough |
|---|---|---|
| `send_queue` | types, `NeverWedged`, refinement `KeepsOrder`, `EveryFrameLeaves` | ring of 3 slots, 6 frames: the ring wraps, fills, overflows and is reset in use |
| `tun_tcp` | types, `UniqueTuple`, `HalfCloseAccounted`, `HalfOpenBounded`, `NoSilentRelease` | 2 slots, 3 clients (one finds no slot), age limit 2, 2 sequence numbers |
| `link` | types, `OneAttempt`, `FreshChannel`, `StallsOnlyOnError`, `TimerOfItsOwn`, `TestHasReader`, `KeepsAsking`, `EveryCommandAnswered`, `RequestEnds` | one server channel, which comes and goes (the theorems cover any number); two callers for one slot; two peers and two requests, so that one replaces another |
| `link_gives_up` | `NeverGivesUp` is violated | as above |
| `mux_feed` | types, `CleanInOrder`, `NothingKeptBack`, `FeedReturns` | 3 frames of 3 or 5 bytes, packets of 1 to 5, 2 channels: every cut, a header in three parts, packets that span frames, a bad frame or a close at every place |
| `mux_feed_cut` | `FramesInOrder` is violated | 3 frames |
| `mux_server` | types, `TableAgrees`, `CreditConserved`, `UnlistedIsWoken`, `UnlistedEnds` | two streams of one id, one after the other or, when it is opened again early, at a time; a channel of one frame, so that every sender meets it full; a window of one chunk, and of two after a grant, which may come between any two steps of the pump. More ids, streams or chunks take too long for TLC; the theorems cover any number |
| `mux_id_reuse` | `OnlyItselfRemoved` is violated | one id, two streams |
| `divert` | types, `TablesAgree`, `SocketsAgree`, `ReleasedAtBothEnds`, `NoStrandedStream`, `NoOrphan`, `MappingReaches`, `EndReachesPhone` | 2 ids for one connection place, used twice, and 2 ports: the ids run out and an id changes its kind; queues of one frame are full often; the channel is lost once or the drain drops one frame (`MaxLosses`). Longer queues and more losses are in the theorems |
| `udp_black_hole` | `MappingRecovers` is violated | as above |
| `credit_stall` | `CreditReturned` is violated | as above |
| `rfcomm_service` | types, `NoListenerLeft`, `StartIsHeard`, `NobodyStranded`, `ClientIsServed` | 2 instances, the second made while the first is destroyed; 2 sockets, for one instance that listens twice or for two; 3 commands that wait, so that a start follows a stop |

Every property of a passing run has a mutant, an operator next to the one it
mutates, introduced by the word "Mistake". `CHECK_DEADLOCK FALSE` stands where the
bounds or a finished session end a behaviour.

Five runs end in a violation, and all are behaviours of the code.

* `link_gives_up`: a refused RFCOMM connect arms no timer, so the daemon does not
  retry as `PROTOCOL.md:299` says. `StallsOnlyOnError`, proved, says that it stops
  for this or for a query call that failed, and for nothing else in the model.
* `mux_id_reuse`: on the phone a stream that was reset still runs to its end and
  removes its id from the table, even if a new stream has it. `OnlyItselfIsRemoved`,
  proved, says that this happens only to an id that is opened again while an
  earlier stream of it is coming to its end; the daemon's `tun_tcp` does open ids
  again (`tun_tcp.c:296`).
* `mux_feed_cut`: a channel that closes inside a frame leaves the parser out of
  step with the next channel. `CleanInOrder` says that nothing else does, failures
  apart.
* `udp_black_hole`: the map from ports to UDP streams survives the channel, the
  phone's streams do not, and nothing binds a port again. `MappingReaches` excepts
  this and a UDP_BIND that was refused by the mux or dropped by the drain. A mapping
  that the phone closes is removed by `cb_udp_close` (`divert.c:324`), although the
  comment at `divert.c:58-60` says that it persists: here the comment is old.
* `credit_stall`: the daemon never returns credit, so a stream of the phone stops
  after its initial window. `divert.c:52` lists window accounting as not yet
  implemented and `PROTOCOL.md:239` allows a fixed window if it is large; but the
  phone counts the window down, so "large" is the length of the download.

### Fairness

`SendQueue`: the run loop dispatches a signalled event and the drain loop runs
to its end (weak fairness); BTstack signals CAN_SEND_NOW when it can send, so a
drain repeated for ever is not busy for ever (strong fairness of
`DrainProgress`). `Operator`: BTstack ends every query, answers every connect and
fires every timer, the listening socket is polled and the sweep comes every
50 ms (weak fairness of each); nothing is assumed of the phone or of a caller.
`MuxFeed`: the loop of `mux_feed` runs. `MuxServer`: the dispatcher runs every
coroutine that can go on, and suspended senders get their turn (Kotlin's channels
are fair, hence strong fairness of each coroutine), a connect ends within its
timeout, and the link takes what is written (weak fairness). A read of an open socket may block
for ever: `Receives` has no fairness. `Tether`: the daemon reads what arrives and
connects again (weak fairness); the phone's reader and its connects need room in
the writer's channel, which serves its senders in order (strong fairness), and a
frame the sweep offers again and again finds room at some time (strong fairness
of a sweep that gets its frame into the queue); the frame at the head of the queue
is sent in the end, as only `MaxLosses` frames are dropped. `RfcommService`: the main
thread, the accept threads and the coroutines run (weak fairness); `accept()` has to
return only on a closed socket; the user, the daemon and the adapter owe nothing.

## Proofs

For every value of the constants, `tlapm` checks:

* `SendQueueProofs`: `TypeCorrect`, `NoWedge`, `ImplementsPipe`, `NoStaleFrame`.
  `NeverWedged` is inductive with the conjunct that only an open channel has a
  request outstanding (`WakeInv`). The refinement rests on three lemmas between
  indices and sequence: `ContentsSeq`, `EnqueueAppends` and
  `AdvanceRemovesHead`. `NoStaleFrame` needs `OrderInv`, which says of the wire
  and of the ring apart what its property `OnlyThisChannel` says of their
  concatenation; `KeepsOrder` says the same of the steps, so no run repeats it.
* `TunTcpProofs`: `TypeCorrect`, `OneOwner`, `HalfCloseSound`,
  `HalfOpenIsBounded`, `ReleaseIsTold`. The inductive invariant `SlotInv` adds
  that a closed slot has a clean ledger and that the age of a slot in SYN_RCVD is
  at least what its tenant has been met; without the latter the bound is not
  inductive, because a stale age only makes the sweep earlier. `ReleaseIsTold` is
  the action property `NoSilentRelease`, from the same invariant: a step that
  frees a slot with one half closed finds that half in the ledger.
* `OperatorProofs`, first part: `LinkTypeCorrect` and, from `LinkInv`,
  `OneAttemptAtATime`, `ChannelIsFresh`, `StallMeansError` (a refused connect or a
  query call that failed), `TestNeedsChannel`
  (`TestOnOpenChannel`: no test outlives its channel). To the properties the
  invariant adds `IdleUntilWorking`, without which the first query could meet
  another, and `FoundIsReported`, which needs that the reconnect timer forgets the
  last result.
* `OperatorProofs`, second part: `OperatorImplementsLink` (every step of
  `Operator` is one of `Link` or leaves it alone), hence
  `LinkHoldsWithOperator`; `TimerIsOfItsOwn`
  and `TestAlwaysHasReader`, each inductive with `CommandStep`, which says what
  any command may do to the link and to the request; `OperatorTypeCorrect`, with
  the bound on the callers that are held, for any finite number of callers.
* `MuxFeedProofs`: `FeedTypeCorrect`, `CleanSessionInOrder`, `NoFrameKeptBack`,
  `EveryIterationTakes`, for packets of any size. What the parser holds, what `mux_feed` has not taken and
  what is on the wire are one `Stream`; `Sound` says that it is the frames from the
  next one on. `Framed` says so without induction, by a function from frames to the
  places where they begin: dispatching a frame shifts it (`FramedNext`), writing one
  extends it (`FramedMore`). The properties alone are not inductive, because they
  do not say where in a frame the parser is. `EveryIterationTakes` is the measure
  of the loop of `mux_feed`, without fairness: what is left of the packet shrinks
  with every iteration, because a payload that is complete is met again only with
  a bad frame (`Unfilled`), and that fails.
* `DivertProofs`: `TypeCorrect`, `TablesAlwaysAgree`, `SocketsAlwaysAgree`,
  `BothEndsRelease`. Each invariant is inductive with the types: the search for
  an id ends only at one that neither table has, and a stream that is freed
  closes the one connection that no other stream has.
* `TetherProofs`, first part: `TetherImplementsDivert`, hence
  `TablesAgreeEndToEnd`: with the phone and the channel around it the daemon's
  invariants hold as they are. `TetherTypeCorrect` bounds the two queues.
* `TetherProofs`, second part: `NoStreamIsStranded`, `NoStreamIsOrphaned` and
  `MappingsReach`, from `FlightInv` (`FlightAlways`). The three properties speak of
  a moment when nothing is in flight, so none is inductive; `FlightInv` says the
  same of every moment, with the frames of an id in either queue in the place of
  what they will bring about: a stream of the daemon is held by the phone, is about
  to be opened, or has its end on the way back (`TcpServed`), unless it is `stale` or
  `unopened`; one of the phone is the daemon's, about to be reset, or in `untold`
  (`Owned`). A frame that the drain drops leaves the queue without its effect, and its
  id enters the history that the conjunct excepts. That needs the order
  of the frames of one id: what opens a stream is the first of its id
  (`OpensFirst`), an id with a RST on its way is free (`ResetIsLast`), and after the
  phone's end there is no stream of that id unless one that was given up untold
  (`EndIsLast`, `OpenedTwice`). `OpensFirst` rests on `Spaced`.
* `MuxServerProofs`: `CreditIsConserved` from `CreditInv`, which bounds what a
  read takes by the window it saw, and that by the window as it is;
  `ServerTypeCorrect`; and `TableAlwaysAgrees`, `OnlyItselfIsRemoved` and
  `UnlistedIsAlwaysWoken` from `TableInv`, which adds who may still connect, who can
  be cancelled, and that two objects under way have one id only if it is in
  `crossed`. The peer uses any id at any time. `OnlyItselfIsRemoved` excepts the ids
  in `crossed`, and `mux_id_reuse` shows that they have to be excepted.
  `UnlistedIsAlwaysWoken` is the part of `UnlistedEnds` that fairness does not give:
  a stream out of the table that may wait has been cancelled.
* `RfcommServiceProofs`: `ServiceTypeCorrect`, `NobodyIsStranded`,
  `NothingListensBehind` from `ServiceInv`. It adds the shape of the queue of commands
  (`Queued`: a command for an instance that is gone is followed by its destruction),
  that an instance that runs is current or about to be destroyed (`RunningInv`) and
  has a socket or is about to get one (`SocketInv`), that the scope of the current
  instance is cancelled only at the end of a stop (`Named`), and that of an instance
  that did not overlap one thread at most is under way, whose open socket is the
  instance's `serverSocket` while it runs or is about to close it (`ThreadInv`).
  `AStartIsHeard` needs two more. `CurrentInv`: the current instance listens at most
  once, and has a thread that is not at its end while it runs and is not about to
  listen (`CurrentParts`), or else a thread of it is between its `compareAndSet` and
  its `stopSelf` (`Doomed`). `CalmInv` follows a start that found the service at rest
  from the queue to the listening socket. `CurrentInv` also gives `OverlapIsPast`: an
  instance that `NoListenerLeft` excepts is current only while it is doomed.

The assumptions are the constants' only (tables with at least one entry, natural
bounds, null values that name nothing), and in `Tether` what `Spaced` leaves out of
the environment.

Every invariant and action property that a passing run checks is proved. Only
model-checked: liveness (`EveryFrameLeaves`, `KeepsAsking`,
`EveryCommandAnswered`, `RequestEnds`, `FeedReturns`, `UnlistedEnds`,
`EndReachesPhone`, `ClientIsServed`), which is out of the prover's reach, as is
`ENABLED`. What they rest on beside fairness is proved where it says something:
`NeverWedged`, `StallsOnlyOnError`, `TimerOfItsOwn`, `EveryIterationTakes`,
`UnlistedIsWoken`.

## Plan

Done: the transmit queue, the userland TCP, the link with pairing and the control
socket, the frame parser, the phone's mux server and service, divert, and the
composition of the daemon with the phone. What could follow, the most useful
first:

1. `TunTcp` instead of `Divert` in the composition, with ids that are used again
   while frames of the last tenant are in flight; `mux_id_reuse` shows the
   phone's side of it.
2. A repair of the accept thread's end in `RfcommService` (the listener's own socket
   compared instead of `running`), for which `NoListenerLeft` should hold without its
   exception.
3. Two ids in `mux_server`, with a symmetry argument or a coarser pump.

## Not modelled

* The IPv4 and UDP headers (`ipv4.c`) and the frame codec: arithmetic on bytes
  without a state. A datagram is its source port.
* The user interface, the preferences, the installer, the boot logo, release and
  build scripts and the diagnostic kernel patches have no state machine to check.
* The shell daemons (`harness/`): the network watchdog, the lid watcher and the
  battery prompt are sequential loops over what the system answers, which nothing
  in the repository fixes; the lock of the SD card mount is shared with scripts
  that are not here. Its hazard is listed.
* The kernel patches are differences to drivers that are not in the repository.
* `panctl/android_app` is a second copy of the app and is not modelled twice.
* Formatting, checksums, passkey display and log lines are left out of every
  module; `panctl` is taken to have SIGPIPE ignored by BTstack's port, which is
  not in the repository.
