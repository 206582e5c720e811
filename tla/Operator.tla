------------------------------- MODULE Operator -------------------------------
(***************************************************************************)
(* The daemon and its operator: Link, the pairing requests of the phone    *)
(* (panctl/main.c) and the control socket on which the operator's commands *)
(* arrive (panctl/ctl.c).  A command `test-tcp' keeps a duplicate of the   *)
(* caller's socket until its stream ends.  Every step of the daemon runs   *)
(* on the run loop of Link.                                                *)
(*                                                                         *)
(* External: the callers (panctlctl) and the Bluetooth controller, which   *)
(* asks for the confirmation of a passkey and may ask again.               *)
(***************************************************************************)
EXTENDS Link, FiniteSets

CONSTANTS
    Callers,
    NoCaller,
    CTL_MAX_CLIENTS,
    Peers,   \* devices that pair
    NoPeer,
    MaxAsks  \* bound: confirmations the controller asks for

ASSUME OperatorAssumption ==
    /\ NoCaller \notin Callers /\ NoPeer \notin Peers
    /\ IsFiniteSet(Callers)
    /\ CTL_MAX_CLIENTS \in Nat /\ MaxAsks \in Nat

VARIABLES
    caller,         \* where each caller is, and what it has sent
    tester,         \* the caller whose socket g_test_fd duplicates
    pending,        \* g_pending_pair_set and g_pending_pair_addr
    timer,          \* the request g_pair_timeout was set for, or NoPeer
    asking,         \* peers whose request the controller holds open
    asks,           \* requests so far
    g_discoverable

operatorVars == <<caller, tester, pending, timer, asking, asks, g_discoverable>>
pairVars == <<pending, timer, asking, asks>>
allVars == <<vars, operatorVars>>

\* `status' stands for the commands that change nothing, `confirm' for `deny' too.
Commands == {"confirm", "status", "test-tcp", "advertise on", "advertise off"}
\* What has come of a caller: nothing, a part of a line, a line that does not fit
\* or the end without a line, or a command.
Lines == {"none", "part", "spoilt"} \cup Commands

\* The types; the slots hold no more than there are.
OperatorTypeOK ==
    /\ TypeOK
    /\ caller \in [Callers -> [at : {"away", "backlog", "held", "over"}, line : Lines]]
    /\ tester \in Callers \cup {NoCaller}
    /\ pending \in Peers \cup {NoPeer} /\ timer \in Peers \cup {NoPeer}
    /\ asking \subseteq Peers
    /\ asks \in 0 .. MaxAsks
    /\ g_discoverable \in BOOLEAN
    /\ Cardinality({c \in Callers : caller[c].at = "held"}) <= CTL_MAX_CLIENTS

OperatorInit ==
    /\ Init
    /\ caller = [c \in Callers |-> [at |-> "away", line |-> "none"]]
    /\ tester = NoCaller
    /\ pending = NoPeer /\ timer = NoPeer /\ asking = {} /\ asks = 0
    /\ g_discoverable = FALSE

------------------------------------------------------------------------------
\* The callers.
Calls(c) ==
    /\ caller[c].at = "away"
    /\ caller' = [caller EXCEPT ![c].at = "backlog"]
    /\ UNCHANGED <<vars, tester, pairVars, g_discoverable>>

Sends(c) ==
    /\ caller[c].at \in {"backlog", "held"} /\ caller[c].line \in {"none", "part"}
    /\ \E line \in Lines \ {"none"} : caller' = [caller EXCEPT ![c].line = line]
    /\ UNCHANGED <<vars, tester, pairVars, g_discoverable>>

\* Its command was answered and its test is over; it may call again.
Leaves(c) ==
    /\ caller[c].at = "over" /\ tester # c
    /\ caller' = [caller EXCEPT ![c] = [at |-> "away", line |-> "none"]]
    /\ UNCHANGED <<vars, tester, pairVars, g_discoverable>>

------------------------------------------------------------------------------
\* ctl_on_command answers caller c; then drop_client frees the slot.
Answered(c) == caller' = [caller EXCEPT ![c] = [at |-> "over", line |-> "none"]]

\* Mistake: the timer of a request that was answered goes on.
PairAnsweredOnly(sent) ==
    /\ asking' = IF sent THEN asking \ {pending} ELSE asking
    /\ pending' = NoPeer
    /\ UNCHANGED timer

\* The answer to the pending request; `sent' is whether hci_send_cmd, whose
\* result is ignored, could send it.
PairAnswered(sent) ==
    /\ asking' = IF sent THEN asking \ {pending} ELSE asking
    /\ pending' = NoPeer
    /\ timer' = NoPeer

Confirm(c) ==
    /\ caller[c].line = "confirm"
    /\ \/ pending = NoPeer /\ UNCHANGED pairVars
       \/ /\ pending # NoPeer
          /\ \E sent \in BOOLEAN : PairAnswered(sent)
          /\ UNCHANGED asks
    /\ Answered(c)
    /\ UNCHANGED <<vars, tester, g_discoverable>>

Advertise(c) ==
    /\ caller[c].line \in {"status", "advertise on", "advertise off"}
    /\ g_discoverable' = IF caller[c].line = "status" THEN g_discoverable
                         ELSE caller[c].line = "advertise on"
    /\ Answered(c)
    /\ UNCHANGED <<vars, tester, pairVars>>

\* There is no channel, a test is going on, the address is malformed or dup fails;
\* or the test is begun, which may fail.
Test(c) ==
    /\ caller[c].line = "test-tcp"
    /\ Answered(c)
    /\ \/ UNCHANGED <<vars, tester>>
       \/ TestTcp(FALSE) /\ UNCHANGED tester
       \/ TestTcp(TRUE) /\ tester' = c
    /\ UNCHANGED <<pairVars, g_discoverable>>

Dropped(c) ==
    /\ caller[c].line = "spoilt"
    /\ Answered(c)
    /\ UNCHANGED <<vars, tester, pairVars, g_discoverable>>

Command(c) == Confirm(c) \/ Advertise(c) \/ Test(c) \/ Dropped(c)

Held == {c \in Callers : caller[c].at = "held"}

\* One round of do_accept: without a slot the caller is sent away; with one, it
\* is read at once.
DoAccept(c) ==
    /\ caller[c].at = "backlog"
    /\ \/ /\ Cardinality(Held) >= CTL_MAX_CLIENTS
          /\ Answered(c)
          /\ UNCHANGED <<vars, tester, pairVars, g_discoverable>>
       \/ /\ Cardinality(Held) < CTL_MAX_CLIENTS
          /\ Command(c)
       \/ /\ Cardinality(Held) < CTL_MAX_CLIENTS
          /\ caller[c].line \in {"none", "part"}
          /\ caller' = [caller EXCEPT ![c].at = "held"]
          /\ UNCHANGED <<vars, tester, pairVars, g_discoverable>>

\* Mistake: a caller is read when it is accepted and never again.
InSweepNever(c) == FALSE

\* ctl_drain, from the 50 ms sweep.
InSweep(c) == caller[c].at = "held"

CtlDrain(c) == InSweep(c) /\ Command(c)

------------------------------------------------------------------------------
\* Mistake: the timer that is removed is not added again.
PairRequestUntimed(p) ==
    /\ asks < MaxAsks /\ asks' = asks + 1
    /\ asking' = asking \cup {p}
    /\ pending' = p
    /\ timer' = NoPeer

\* HCI_EVENT_USER_CONFIRMATION_REQUEST; an earlier request is forgotten.
PairRequest(p) ==
    /\ asks < MaxAsks /\ asks' = asks + 1
    /\ asking' = asking \cup {p}
    /\ pending' = p
    /\ timer' = p

\* on_pair_timeout
PairTimeout ==
    /\ timer # NoPeer
    /\ timer' = NoPeer
    /\ \/ pending = NoPeer /\ UNCHANGED <<pending, asking>>
       \/ /\ pending # NoPeer
          /\ pending' = NoPeer
          /\ \E sent \in BOOLEAN : asking' = IF sent THEN asking \ {pending} ELSE asking
    /\ UNCHANGED asks

\* The peer or the controller gives the request up; GAP_EVENT_PAIRING_COMPLETE
\* is logged and nothing else.
Withdraw(p) ==
    /\ p \in asking
    /\ asking' = asking \ {p}
    /\ UNCHANGED <<pending, timer, asks>>

Pairing ==
    /\ PairTimeout \/ \E p \in Peers : PairRequest(p) \/ Withdraw(p)
    /\ UNCHANGED <<vars, caller, tester, g_discoverable>>

\* Mistake: the duplicate is not closed when the channel goes.
TestOverKeeping == tester' = IF open' THEN NoCaller ELSE tester

\* test_finish
TestOver == tester' = NoCaller

LinkStep ==
    /\ \/ HciWorking \/ SdpFound \/ ReconnectTimer \/ ChannelOpened \/ ChannelRefused
       \/ ServiceMoves
       \/ \E status, rc \in 0 .. 1 : SdpComplete(status, rc)
    /\ UNCHANGED operatorVars

TestStep ==
    /\ ChannelClosed \/ TestEnds
    /\ TestOver
    /\ UNCHANGED <<caller, pairVars, g_discoverable>>

OperatorNext ==
    \/ LinkStep \/ TestStep \/ Pairing
    \/ \E c \in Callers : Calls(c) \/ Sends(c) \/ Leaves(c) \/ DoAccept(c) \/ CtlDrain(c)

OperatorSpec == OperatorInit /\ [][OperatorNext]_allVars

\* The fairness of Link; the listening socket is polled, the sweep comes every
\* 50 ms, and the pair timeout is a timer of the run loop.
FairOperator ==
    /\ OperatorSpec
    /\ WF_allVars(HciWorking /\ LinkStep)
    /\ WF_allVars((\E status, rc \in 0 .. 1 : SdpComplete(status, rc)) /\ LinkStep)
    /\ WF_allVars(ReconnectTimer /\ LinkStep)
    /\ WF_allVars((ChannelOpened \/ ChannelRefused) /\ LinkStep)
    /\ WF_allVars(PairTimeout /\ Pairing)
    /\ \A c \in Callers : WF_allVars(DoAccept(c)) /\ WF_allVars(CtlDrain(c))

------------------------------------------------------------------------------
(***************************************************************************)
(* Properties                                                              *)
(***************************************************************************)

\* The timer runs while a request is pending and for that request: none is
\* denied by the time limit of an earlier one, and none stays pending without a
\* limit (main.c:558, ctl_on_command).
TimerOfItsOwn == timer = pending

\* The socket of a test is held exactly while the test goes on, for one caller,
\* who would wait for its end for ever otherwise (test_finish).
TestHasReader == testing <=> tester # NoCaller

\* Every command that was sent in whole is answered, be it with "busy", also when
\* it comes in parts after the caller was accepted (do_accept, ctl_drain).
EveryCommandAnswered ==
    \A c \in Callers :
        (caller[c].at \in {"backlog", "held"} /\ caller[c].line \in Commands)
            ~> caller[c].at = "over"

\* A request does not stay pending when nobody looks at it (on_pair_timeout).
RequestEnds == pending # NoPeer ~> pending = NoPeer

==============================================================================
