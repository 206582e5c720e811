-------------------------------- MODULE Link --------------------------------
(***************************************************************************)
(* How the daemon finds and keeps its RFCOMM channel to the phone          *)
(* (panctl/main.c): the SDP query, the reconnect timer, the channel's      *)
(* events, and the test stream of `panctlctl test-tcp', which lives on     *)
(* the channel.  Every handler runs to its end on BTstack's run loop.      *)
(*                                                                         *)
(* External: BTstack's SDP client (`query', one query at a time), its      *)
(* RFCOMM connect (`opening'), and the phone, which registers its service  *)
(* under a server channel of its choice or not at all (`service').  Any    *)
(* query and any connect may fail, at once or later.                       *)
(***************************************************************************)
EXTENDS Naturals

CONSTANTS
    Channels,  \* RFCOMM server channels the phone may register
    NoChannel  \* 0: no server channel

ASSUME ChannelAssumption == NoChannel \notin Channels

VARIABLES
    working,   \* HCI_STATE_WORKING was signalled
    open,      \* g_rfcomm_cid # 0
    found,     \* g_rfcomm_server_channel
    armed,     \* g_reconnect_timer is in the run loop
    query,     \* an SDP query is running
    opening,   \* the server channel of the connect under way, or NoChannel
    service,   \* the server channel the phone listens on, or NoChannel
    testing,   \* g_test_fd >= 0
    reported,  \* history: server channels the latest query reported
    refused,   \* history: the latest connect was answered with an error
    unasked    \* history: the latest query could not be started

vars == <<working, open, found, armed, query, opening, service, testing,
          reported, refused, unasked>>

TypeOK ==
    /\ working \in BOOLEAN /\ open \in BOOLEAN /\ armed \in BOOLEAN
    /\ query \in BOOLEAN /\ testing \in BOOLEAN
    /\ refused \in BOOLEAN /\ unasked \in BOOLEAN
    /\ found \in Channels \cup {NoChannel}
    /\ opening \in Channels \cup {NoChannel}
    /\ service \in Channels \cup {NoChannel}
    /\ reported \subseteq Channels

------------------------------------------------------------------------------
Init ==
    /\ working = FALSE /\ open = FALSE /\ armed = FALSE /\ query = FALSE
    /\ found = NoChannel /\ opening = NoChannel
    /\ service \in Channels \cup {NoChannel}
    /\ testing = FALSE
    /\ reported = {} /\ refused = FALSE /\ unasked = FALSE

\* sdp_client_query_rfcomm_channel_and_name_for_uuid128, whose result `rc'
\* nobody looks at.
StartQuery(rc) ==
    /\ query' = (rc = 0)
    /\ unasked' = (rc # 0)
    /\ reported' = {}

\* BTSTACK_EVENT_STATE with HCI_STATE_WORKING.
HciWorking ==
    /\ ~working
    /\ working' = TRUE
    /\ \E rc \in 0 .. 1 : StartQuery(rc)
    /\ UNCHANGED <<open, found, armed, opening, service, testing, refused>>

\* Mistake: a record without a server channel is counted as found.
SdpFoundNone ==
    /\ query
    /\ found' = service
    /\ reported' = reported \cup {service}
    /\ UNCHANGED <<working, open, armed, query, opening, service, testing,
                   refused, unasked>>

\* SDP_EVENT_QUERY_RFCOMM_SERVICE
SdpFound ==
    /\ query
    /\ service # NoChannel
    /\ found' = service
    /\ reported' = reported \cup {service}
    /\ UNCHANGED <<working, open, armed, query, opening, service, testing,
                   refused, unasked>>

\* Mistake: a query that found nothing is taken for the end of the attempts.
SdpCompleteSilent(status, rc) ==
    /\ query
    /\ query' = FALSE
    /\ IF status = 0 /\ found # NoChannel /\ rc = 0
       THEN opening' = found /\ UNCHANGED armed
       ELSE armed' = (status # 0 \/ found # NoChannel) /\ UNCHANGED opening
    /\ UNCHANGED <<working, open, found, service, testing,
                   reported, refused, unasked>>

\* SDP_EVENT_QUERY_COMPLETE; `rc' is what rfcomm_create_channel returns.
SdpComplete(status, rc) ==
    /\ query
    /\ query' = FALSE
    /\ IF status = 0 /\ found # NoChannel /\ rc = 0
       THEN opening' = found /\ UNCHANGED armed
       ELSE armed' = TRUE /\ UNCHANGED opening
    /\ UNCHANGED <<working, open, found, service, testing,
                   reported, refused, unasked>>

\* Mistake: the server channel of the previous query is kept.
ReconnectTimerStale ==
    /\ armed
    /\ armed' = FALSE
    /\ IF open
       THEN UNCHANGED <<query, reported, unasked>>
       ELSE \E rc \in 0 .. 1 : StartQuery(rc)
    /\ UNCHANGED <<working, open, found, opening, service, testing, refused>>

\* on_reconnect_timer
ReconnectTimer ==
    /\ armed
    /\ armed' = FALSE
    /\ IF open
       THEN UNCHANGED <<found, query, reported, unasked>>
       ELSE found' = NoChannel /\ \E rc \in 0 .. 1 : StartQuery(rc)
    /\ UNCHANGED <<working, open, opening, service, testing, refused>>

\* Mistake: the timer is armed although the channel is up.
ChannelOpenedArming ==
    /\ opening # NoChannel
    /\ opening = service
    /\ opening' = NoChannel
    /\ open' = TRUE
    /\ armed' = TRUE
    /\ refused' = FALSE
    /\ UNCHANGED <<working, found, query, service, testing, reported, unasked>>

\* RFCOMM_EVENT_CHANNEL_OPENED with status 0; the HELLO it sends is SendQueue's.
ChannelOpened ==
    /\ opening # NoChannel
    /\ opening = service
    /\ opening' = NoChannel
    /\ open' = TRUE
    /\ refused' = FALSE
    /\ UNCHANGED <<working, found, armed, query, service, testing,
                   reported, unasked>>

\* RFCOMM_EVENT_CHANNEL_OPENED with an error: the handler returns.
ChannelRefused ==
    /\ opening # NoChannel
    /\ opening' = NoChannel
    /\ refused' = TRUE
    /\ UNCHANGED <<working, open, found, armed, query, service, testing,
                   reported, unasked>>

\* RFCOMM_EVENT_CHANNEL_CLOSED: test_finish and schedule_reconnect.
ChannelClosed ==
    /\ open
    /\ open' = FALSE
    /\ testing' = FALSE
    /\ armed' = TRUE
    /\ UNCHANGED <<working, found, query, opening, service,
                   reported, refused, unasked>>

\* The command test-tcp; `sent' is whether mux_send_tcp_open succeeds.
TestTcp(sent) ==
    /\ open
    /\ ~testing
    /\ testing' = sent
    /\ UNCHANGED <<working, open, found, armed, query, opening, service,
                   reported, refused, unasked>>

\* TCP_OPEN_ACK with an error, TCP_CLOSE_WR or TCP_RST of the test stream.
TestEnds ==
    /\ open
    /\ testing
    /\ testing' = FALSE
    /\ UNCHANGED <<working, open, found, armed, query, opening, service,
                   reported, refused, unasked>>

\* The phone's service comes, goes or moves to another server channel.
ServiceMoves ==
    /\ service' \in (Channels \cup {NoChannel}) \ {service}
    /\ UNCHANGED <<working, open, found, armed, query, opening, testing,
                   reported, refused, unasked>>

Next ==
    \/ HciWorking
    \/ SdpFound
    \/ \E status, rc \in 0 .. 1 : SdpComplete(status, rc)
    \/ ReconnectTimer
    \/ ChannelOpened
    \/ ChannelRefused
    \/ ChannelClosed
    \/ \E sent \in BOOLEAN : TestTcp(sent)
    \/ TestEnds
    \/ ServiceMoves

\* BTstack ends every query, answers every connect and fires every timer.
Fairness ==
    /\ WF_vars(HciWorking)
    /\ WF_vars(\E status, rc \in 0 .. 1 : SdpComplete(status, rc))
    /\ WF_vars(ReconnectTimer)
    /\ WF_vars(ChannelOpened \/ ChannelRefused)

Spec == Init /\ [][Next]_vars

FairSpec == Spec /\ Fairness

------------------------------------------------------------------------------
\* The daemon makes one attempt at a time: of a running query, a connect, an
\* open channel and an armed timer there is at most one.  A second query or
\* connect would be refused by BTstack or replace g_rfcomm_cid.
OneAttempt ==
    /\ query => ~armed /\ ~open /\ opening = NoChannel
    /\ armed => ~open /\ opening = NoChannel
    /\ open => opening = NoChannel

\* The daemon connects only to a server channel that the query just finished
\* has reported, never to one remembered from before the phone's restart.
FreshChannel == opening # NoChannel => opening \in reported

\* Without a channel the next attempt is on its way.  The two cases in which it
\* is not are those whose error nobody handles: a connect the phone or BTstack
\* refused, and a query BTstack did not start.
StallsOnlyOnError ==
    working /\ ~open =>
        query \/ armed \/ opening # NoChannel \/ refused \/ unasked

\* PROTOCOL.md:299: after the channel is lost the daemon tries to reconnect,
\* so without a channel the next attempt is always on its way, at least when
\* BTstack takes its queries.
NeverGivesUp ==
    working /\ ~open /\ ~unasked => query \/ armed \/ opening # NoChannel

\* A test stream is on an open channel, so test-tcp never reports a test in
\* progress that nothing can end.
TestOnOpenChannel == testing => open

\* A daemon whose connects are not refused and whose queries start asks the
\* phone again and again until it has a channel.
KeepsAsking == []<>(query \/ open \/ refused \/ unasked)

==============================================================================
