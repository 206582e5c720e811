-------------------------- MODULE MuxServerProofs --------------------------
(***************************************************************************)
(* Proofs about MuxServer, for any number of streams and ids, any window,  *)
(* chunk sizes and capacity.                                               *)
(***************************************************************************)
EXTENDS MuxServer, TLAPS

(***************************************************************************)
(* Credit.  That credit is conserved is not inductive: the window the pump *)
(* has looked at must stay within the stream's, a read within what it      *)
(* looked at, and what is owed near the window when the pump has stopped.  *)
(***************************************************************************)
Good(x, l) ==
    /\ x \in Object
    /\ l \in Ledger
    /\ x.at \in {"reading", "consuming"} => x.avail <= x.credit
    /\ x.at = "consuming" => x.n <= x.avail
    /\ x.credit <= l.owed /\ l.owed <= x.credit + CHUNK_SIZE
    /\ x.at \notin Ended \cup {"leaving"} =>
         l.owed = x.credit + (IF x.at = "holding" THEN x.n ELSE 0)

CreditInv ==
    /\ tcpStreams \in [Sids -> 0 .. MaxStreams]
    /\ made \in 0 .. MaxStreams
    /\ stream \in [Streams -> Object] /\ ledger \in [Streams -> Ledger]
    /\ \A o \in Streams : Good(stream[o], ledger[o])

\* The types of the fields of an object and of its history.
LEMMA GoodTypes ==
    ASSUME NEW x, NEW l, Good(x, l)
    PROVE  /\ x.at \in {"none"} \cup Opening \cup Pumping \cup Ended
           /\ x.credit \in Nat /\ x.avail \in Nat /\ x.n \in Nat /\ x.since \in Nat
           /\ x.credit <= MaxCredit /\ x.avail <= MaxCredit /\ x.n <= CHUNK_SIZE
           /\ l.owed \in Nat
  BY CreditAssumption DEF Good, Object, Ledger

\* A step that moves a coroutine on, and touches neither credit nor history.
\* It may go anywhere but into the places that read and take credit.
LEMMA MoveGood ==
    ASSUME NEW x, NEW l, Good(x, l),
           NEW place \in ({"none"} \cup Opening \cup Pumping \cup Ended)
                           \ {"reading", "consuming", "holding"},
           x.at # "holding" \/ place \in Ended \cup {"leaving"},
           x.at \notin Ended \cup {"leaving"} \/ place \in Ended \cup {"leaving"}
    PROVE  Good([x EXCEPT !.at = place], l)
<1>1. [x EXCEPT !.at = place] \in Object
  BY DEF Good, Object
<1>2. x \in Object /\ l.owed \in Nat /\ x.credit \in Nat
  BY GoodTypes DEF Good
<1>3. /\ [x EXCEPT !.at = place].at = place
      /\ [x EXCEPT !.at = place].credit = x.credit
  BY <1>2 DEF Object
<1>4. QED
  BY <1>1, <1>2, <1>3 DEF Good, Ended

\* Sockets, jobs and cancellation have nothing to do with credit.
LEMMA SocketGood ==
    ASSUME NEW x, NEW l, Good(x, l), NEW s \in {"new", "up", "closed"},
           NEW b \in BOOLEAN, NEW c \in BOOLEAN, NEW j \in BOOLEAN
    PROVE  Good([x EXCEPT !.socket = s, !.outShut = b, !.cancelled = c, !.job = j], l)
<1> DEFINE y == [x EXCEPT !.socket = s, !.outShut = b, !.cancelled = c, !.job = j]
<1>1. x \in Object
  BY DEF Good
<1>2. y \in Object
  BY <1>1 DEF Object
<1>3. /\ y.at = x.at /\ y.credit = x.credit /\ y.avail = x.avail /\ y.n = x.n
  BY <1>1 DEF Object
<1> HIDE DEF y
<1>4. Good(y, l)
  BY <1>2, <1>3 DEF Good
<1>5. QED
  BY <1>4 DEF y

LEMMA MissedGood ==
    ASSUME NEW x, NEW l, Good(x, l), NEW m \in BOOLEAN
    PROVE  Good(x, [l EXCEPT !.missed = m])
<1>1. l \in Ledger
  BY DEF Good
<1>2. [l EXCEPT !.missed = m] \in Ledger /\ [l EXCEPT !.missed = m].owed = l.owed
  BY <1>1 DEF Ledger
<1>3. QED
  BY <1>2 DEF Good

\* Replacing one object, with or without its history, by a good one.
LEMMA Replace ==
    ASSUME CreditInv, NEW o \in Streams, NEW y, NEW l, Good(y, l),
           stream' = [stream EXCEPT ![o] = y], ledger' = [ledger EXCEPT ![o] = l],
           tcpStreams' \in [Sids -> 0 .. MaxStreams], made' \in 0 .. MaxStreams
    PROVE  CreditInv'
<1>1. \A p \in Streams : /\ stream'[p] = IF p = o THEN y ELSE stream[p]
                         /\ ledger'[p] = IF p = o THEN l ELSE ledger[p]
  BY DEF CreditInv
<1>2. \A p \in Streams : Good(stream'[p], ledger'[p])
  BY <1>1 DEF CreditInv
<1>3. stream' \in [Streams -> Object] /\ ledger' \in [Streams -> Ledger]
  BY DEF CreditInv, Good
<1>4. Streams' = Streams /\ \A p \in Streams : Good(stream[p], ledger[p])'
  BY <1>2 DEF Streams
<1>5. QED
  BY <1>2, <1>3 DEF CreditInv

LEMMA ReplaceObject ==
    ASSUME CreditInv, NEW o \in Streams, NEW y, Good(y, ledger[o]),
           stream' = [stream EXCEPT ![o] = y], UNCHANGED ledger,
           tcpStreams' \in [Sids -> 0 .. MaxStreams], made' \in 0 .. MaxStreams
    PROVE  CreditInv'
<1>1. ledger' = [ledger EXCEPT ![o] = ledger[o]]
  BY DEF CreditInv
<1>2. QED
  BY <1>1, Replace

LEMMA OnClosedType ==
    ASSUME CreditInv, NEW s, OnClosed(s)
    PROVE  tcpStreams' \in [Sids -> 0 .. MaxStreams]
<1>1. NoStream \in 0 .. MaxStreams
  BY StreamsAssumption DEF NoStream
<1>2. QED
  BY <1>1 DEF CreditInv, OnClosed

------------------------------------------------------------------------------
\* The reader's steps.
LEMMA CreditDiscard ==
    ASSUME CreditInv, NEW o \in Streams, NEW s, Discard(o, s), UNCHANGED made
    PROVE  CreditInv'
<1> DEFINE x == stream[o]
           l == ledger[o]
           c == x.cancelled \/ x.job
           m == l.missed \/ Missed(o)
<1>1. Good(x, l) /\ x \in Object /\ l \in Ledger
  BY DEF CreditInv, Good
<1>2. c \in BOOLEAN /\ m \in BOOLEAN
  BY <1>1 DEF Object, Ledger, Missed
<1>3. Reset(o) = [x EXCEPT !.socket = "closed", !.outShut = x.outShut,
                           !.cancelled = c, !.job = x.job]
  BY <1>1 DEF Reset, Object
<1>4. x.outShut \in BOOLEAN /\ x.job \in BOOLEAN
  BY <1>1 DEF Object
<1>5. Good(Reset(o), l)
  <2> HIDE DEF c, m
  <2>1. Good([x EXCEPT !.socket = "closed", !.outShut = x.outShut,
                       !.cancelled = c, !.job = x.job], l)
    BY ZenonT(40), <1>1, <1>2, <1>4, SocketGood
  <2>2. QED
    BY <1>3, <2>1
<1>6. Good(Reset(o), [l EXCEPT !.missed = m])
  BY <1>2, <1>5, MissedGood
<1>7. stream' = [stream EXCEPT ![o] = Reset(o)]
      /\ ledger' = [ledger EXCEPT ![o] = [l EXCEPT !.missed = m]]
  BY DEF Discard, CreditInv
<1>8. tcpStreams' \in [Sids -> 0 .. MaxStreams] /\ made' \in 0 .. MaxStreams
  BY OnClosedType DEF Discard, CreditInv
<1>9. QED
  BY <1>6, <1>7, <1>8, Replace

LEMMA CreditOpen ==
    ASSUME CreditInv, NEW s \in Sids, OpenStream(s)
    PROVE  CreditInv'
<1> DEFINE y == [Unused EXCEPT !.sid = s, !.at = "connecting", !.credit = InitialWindow]
           l == [ledger[made'] EXCEPT !.owed = InitialWindow]
<1>1. made' \in Streams /\ made' \in 0 .. MaxStreams
  BY StreamsAssumption DEF OpenStream, CreditInv, Streams
<1>2. /\ y \in Object /\ y.at = "connecting" /\ y.credit = InitialWindow
  <2>1. /\ 0 \in 0 .. MaxCredit /\ 0 \in 0 .. CHUNK_SIZE
        /\ 0 \in 0 .. CREDIT_CHUNK - 1 /\ InitialWindow \in 0 .. MaxCredit
    BY CreditAssumption
  <2>2. QED
    BY <2>1 DEF Unused, Object, Opening
<1>3. ledger[made'] \in Ledger
  BY <1>1 DEF CreditInv
<1>4. l \in Ledger /\ l.owed = InitialWindow
  <2>1. InitialWindow \in 0 .. MaxCredit + CHUNK_SIZE
    BY CreditAssumption
  <2>2. QED
    BY <1>3, <2>1 DEF Ledger
<1> HIDE DEF y, l
<1>5. Good(y, l)
  BY <1>2, <1>4, CreditAssumption DEF Good
<1>6. stream' = [stream EXCEPT ![made'] = y] /\ ledger' = [ledger EXCEPT ![made'] = l]
  BY <1>1 DEF OpenStream, CreditInv, y, l
<1>7. tcpStreams' \in [Sids -> 0 .. MaxStreams]
  BY <1>1 DEF OpenStream, CreditInv
<1>8. QED
  BY <1>1, <1>5, <1>6, <1>7, Replace

LEMMA ListedObject ==
    ASSUME CreditInv, NEW s \in Sids, tcpStreams[s] # NoStream
    PROVE  tcpStreams[s] \in Streams
  BY StreamsAssumption DEF CreditInv, Streams, NoStream

LEMMA CreditData ==
    ASSUME CreditInv, NEW s \in Sids, OnData(s)
    PROVE  CreditInv'
<1> DEFINE o == tcpStreams[s]
<1>1. CASE UNCHANGED <<tcpStreams, stream, ledger, made>>
  BY <1>1 DEF CreditInv
<1>2. CASE o # NoStream /\ stream' = Count(o) /\ UNCHANGED <<tcpStreams, ledger, made>>
  <2>1. o \in Streams
    BY <1>2, ListedObject
  <2>2. stream[o] \in Object /\ Good(stream[o], ledger[o])
    BY <2>1 DEF CreditInv
  <2> DEFINE k == (stream[o].since + 1) % CREDIT_CHUNK
             y == [stream[o] EXCEPT !.since = k]
  <2>3. k \in 0 .. CREDIT_CHUNK - 1
    BY <2>2, CreditAssumption, GoodTypes
  <2> HIDE DEF k
  <2>4. y \in Object /\ y.at = stream[o].at /\ y.credit = stream[o].credit
        /\ y.avail = stream[o].avail /\ y.n = stream[o].n
    BY <2>2, <2>3 DEF Object
  <2> HIDE DEF y
  <2>5. Good(y, ledger[o])
    BY <2>2, <2>4 DEF Good
  <2>6. stream' = [stream EXCEPT ![o] = y]
    BY <1>2, <2>1 DEF Count, CreditInv, y, k
  <2>7. QED
    BY <1>2, <2>1, <2>5, <2>6, ReplaceObject DEF CreditInv
<1>3. CASE o # NoStream /\ Discard(o, s) /\ UNCHANGED made
  BY <1>3, ListedObject, CreditDiscard
<1>4. QED
  BY <1>1, <1>2, <1>3 DEF OnData

LEMMA CreditWindow ==
    ASSUME CreditInv, NEW s \in Sids, OnWindow(s)
    PROVE  CreditInv'
<1> DEFINE o == tcpStreams[s]
           x == stream[o]
           l == ledger[o]
           y == [x EXCEPT !.credit = x.credit + 1]
           k == [l EXCEPT !.owed = l.owed + 1]
<1>1. o \in Streams
  BY ListedObject DEF OnWindow
<1>2. Good(x, l) /\ x \in Object /\ l \in Ledger
  BY <1>1 DEF CreditInv
<1>3. x.credit + 1 \in 0 .. MaxCredit
  BY <1>2, GoodTypes, CreditAssumption DEF OnWindow
<1>4. l.owed + 1 \in 0 .. MaxCredit + CHUNK_SIZE
  BY <1>2, <1>3, GoodTypes, CreditAssumption DEF Good
<1>5. y \in Object /\ y.credit = x.credit + 1 /\ y.at = x.at /\ y.avail = x.avail
      /\ y.n = x.n
  BY <1>2, <1>3 DEF Object
<1>6. k \in Ledger /\ k.owed = l.owed + 1
  BY <1>2, <1>4 DEF Ledger
<1> HIDE DEF y, k
<1>7. Good(y, k)
  BY <1>2, <1>5, <1>6, GoodTypes, CreditAssumption DEF Good
<1>8. stream' = [stream EXCEPT ![o] = y] /\ ledger' = [ledger EXCEPT ![o] = k]
  BY <1>1 DEF OnWindow, CreditInv, y, k
<1>9. QED
  BY <1>1, <1>7, <1>8, Replace DEF OnWindow, CreditInv

LEMMA CreditReader ==
    ASSUME CreditInv, NEW s \in Sids, Reader(s)
    PROVE  CreditInv'
<1>1. CASE OnOpen(s)
  <2>1. CASE OpenStream(s)
    BY <2>1, CreditOpen
  <2>2. CASE UNCHANGED <<tcpStreams, made, stream, ledger>>
    BY <2>2 DEF CreditInv
  <2>3. QED
    BY <1>1, <2>1, <2>2 DEF OnOpen
<1>2. CASE OnData(s)
  BY <1>2, CreditData
<1>3. CASE OnCloseWr(s)
  <2> DEFINE o == tcpStreams[s]
             x == stream[o]
  <2>1. o \in Streams
    BY <1>3, ListedObject DEF OnCloseWr
  <2>2. Good(x, ledger[o]) /\ x \in Object
    BY <2>1 DEF CreditInv
  <2>3. [x EXCEPT !.outShut = TRUE]
          = [x EXCEPT !.socket = x.socket, !.outShut = TRUE,
                      !.cancelled = x.cancelled, !.job = x.job]
        /\ x.socket \in {"new", "up", "closed"} /\ x.cancelled \in BOOLEAN
        /\ x.job \in BOOLEAN
    BY <2>2 DEF Object
  <2>4. Good([x EXCEPT !.outShut = TRUE], ledger[o])
    BY ZenonT(40), <2>2, <2>3, SocketGood
  <2>5. stream' = [stream EXCEPT ![o] = [x EXCEPT !.outShut = TRUE]]
    BY <1>3, <2>1 DEF OnCloseWr, CreditInv
  <2>6. QED
    BY <1>3, <2>1, <2>4, <2>5, ReplaceObject DEF OnCloseWr, CreditInv
<1>4. CASE OnRst(s)
  BY <1>4, ListedObject, CreditDiscard DEF OnRst
<1>5. CASE OnWindow(s)
  BY <1>5, CreditWindow
<1>6. QED
  BY <1>1, <1>2, <1>3, <1>4, <1>5 DEF Reader

LEMMA CreditShutdown ==
    ASSUME CreditInv, Shutdown
    PROVE  CreditInv'
<1>1. ASSUME NEW o \in Streams
      PROVE  Good(stream'[o], ledger'[o])
  <2>1. Good(stream[o], ledger[o]) /\ stream[o] \in Object
    BY DEF CreditInv
  <2>2. PICK t \in {"new", "up", "closed"} :
          stream'[o] = [stream[o] EXCEPT !.socket = t, !.outShut = stream[o].outShut,
                                         !.cancelled = TRUE, !.job = stream[o].job]
    BY <2>1 DEF Shutdown, Reset, Object
  <2>3. stream[o].outShut \in BOOLEAN /\ stream[o].job \in BOOLEAN
    BY <2>1 DEF Object
  <2>4. Good([stream[o] EXCEPT !.socket = t, !.outShut = stream[o].outShut,
                               !.cancelled = TRUE, !.job = stream[o].job], ledger[o])
    BY <2>1, <2>3, SocketGood
  <2>5. QED
    BY <2>2, <2>4 DEF Shutdown
<1>2. Streams' = Streams /\ \A o \in Streams : Good(stream[o], ledger[o])'
  BY <1>1 DEF Streams
<1>3. stream' \in [Streams -> Object]
  <2>1. stream' = [o \in Streams |-> stream'[o]]
    BY DEF Shutdown
  <2>2. \A o \in Streams : stream'[o] \in Object
    BY <1>1 DEF Good
  <2>3. QED
    BY <2>1, <2>2
<1>4. tcpStreams' \in [Sids -> 0 .. MaxStreams]
  BY StreamsAssumption DEF Shutdown, NoStream
<1>5. QED
  BY <1>2, <1>3, <1>4 DEF CreditInv, Shutdown

------------------------------------------------------------------------------
\* The steps of a stream's coroutines.  First those that move on, with or
\* without the socket, and leave the credit alone.
LEMMA CreditMove ==
    ASSUME CreditInv, NEW o \in Streams,
           NEW place \in ({"none"} \cup Opening \cup Pumping \cup Ended)
                           \ {"reading", "consuming", "holding"},
           stream[o].at # "holding" \/ place \in Ended \cup {"leaving"},
           stream[o].at \notin Ended \cup {"leaving"} \/ place \in Ended \cup {"leaving"},
           NEW s \in {"new", "up", "closed"},
           stream' = [stream EXCEPT ![o] = [stream[o] EXCEPT !.at = place, !.socket = s]],
           UNCHANGED ledger,
           tcpStreams' \in [Sids -> 0 .. MaxStreams], made' \in 0 .. MaxStreams
    PROVE  CreditInv'
<1> DEFINE x == stream[o]
           y == [x EXCEPT !.at = place]
<1>1. Good(x, ledger[o]) /\ x \in Object
  BY DEF CreditInv
<1>2. Good(y, ledger[o]) /\ y \in Object
  BY SMTT(30), <1>1, MoveGood DEF Good
<1>3. y.outShut \in BOOLEAN /\ y.cancelled \in BOOLEAN /\ y.job \in BOOLEAN
  BY <1>2 DEF Object
<1>4. [x EXCEPT !.at = place, !.socket = s]
        = [y EXCEPT !.socket = s, !.outShut = y.outShut, !.cancelled = y.cancelled,
                    !.job = y.job]
  BY <1>1 DEF Object
<1>5. Good([x EXCEPT !.at = place, !.socket = s], ledger[o])
  <2> HIDE DEF y
  <2>1. Good([y EXCEPT !.socket = s, !.outShut = y.outShut, !.cancelled = y.cancelled,
                       !.job = y.job], ledger[o])
    BY ZenonT(40), <1>2, <1>3, SocketGood
  <2>2. QED
    BY <1>4, <2>1
<1>6. QED
  BY <1>5, ReplaceObject

\* Go is such a move that leaves the socket as it is.
LEMMA CreditGo ==
    ASSUME CreditInv, NEW o \in Streams,
           NEW place \in ({"none"} \cup Opening \cup Pumping \cup Ended)
                           \ {"reading", "consuming", "holding"},
           stream[o].at # "holding" \/ place \in Ended \cup {"leaving"},
           stream[o].at \notin Ended \cup {"leaving"} \/ place \in Ended \cup {"leaving"},
           Go(o, place), UNCHANGED <<ledger, tcpStreams, made>>
    PROVE  CreditInv'
<1>1. stream[o] \in Object
  BY DEF CreditInv
<1>2. [stream[o] EXCEPT !.at = place]
        = [stream[o] EXCEPT !.at = place, !.socket = stream[o].socket]
      /\ stream[o].socket \in {"new", "up", "closed"}
  BY <1>1 DEF Object
<1>3. stream' = [stream EXCEPT ![o] =
                   [stream[o] EXCEPT !.at = place, !.socket = stream[o].socket]]
  BY <1>2 DEF Go, CreditInv
<1>4. QED
  BY <1>2, <1>3, CreditMove DEF CreditInv

\* A send of a coroutine that does not hold data.
LEMMA CreditOffer ==
    ASSUME CreditInv, NEW o \in Streams, NEW next \in {"acked", "leaving"},
           stream[o].at \in {"connected", "refused", "eof", "broken"},
           Offer(o, next), UNCHANGED <<ledger, tcpStreams, made>>
    PROVE  CreditInv'
<1> DEFINE x == stream[o]
<1>1. Good(x, ledger[o]) /\ x \in Object
  BY DEF CreditInv
<1>2. CASE stream' = [stream EXCEPT ![o].at = next, ![o].n = 0]
  <2> DEFINE y == [x EXCEPT !.at = next, !.n = 0]
  <2>1. 0 \in 0 .. CHUNK_SIZE
    BY CreditAssumption
  <2>2. y \in Object /\ y.at = next /\ y.credit = x.credit
    BY <1>1, <2>1 DEF Object, Opening, Pumping
  <2>3. stream' = [stream EXCEPT ![o] = y]
    BY <1>2 DEF CreditInv
  <2> HIDE DEF y
  <2>4. Good(y, ledger[o])
    BY <1>1, <2>2 DEF Good, Ended
  <2>5. QED
    BY <2>3, <2>4, ReplaceObject DEF CreditInv
<1>3. CASE Go(o, IF stream[o].at \in Opening THEN "done" ELSE "leaving")
  <2>1. CASE Go(o, "done")
    BY <2>1, CreditGo DEF Ended
  <2>2. CASE Go(o, "leaving")
    BY <2>2, CreditGo DEF Pumping, Ended
  <2>3. QED
    BY <1>3, <2>1, <2>2
<1>4. CASE stream' = [stream EXCEPT ![o].at = "failed",
             ![o].socket = IF stream[o].at \in Opening THEN @ ELSE "closed"]
  <2>1. PICK s \in {"new", "up", "closed"} :
          stream' = [stream EXCEPT ![o] = [stream[o] EXCEPT !.at = "failed", !.socket = s]]
    BY <1>1, <1>4 DEF CreditInv, Object
  <2>2. QED
    BY <2>1, CreditMove DEF Ended, CreditInv
<1>5. QED
  BY <1>2, <1>3, <1>4 DEF Offer

\* The pump looks at the window.
LEMMA CreditGets ==
    ASSUME CreditInv, NEW o \in Streams, GetsCredit(o), UNCHANGED made
    PROVE  CreditInv'
<1> DEFINE x == stream[o]
           y == [x EXCEPT !.at = "reading", !.avail = x.credit]
<1>1. Good(x, ledger[o]) /\ x \in Object
  BY DEF CreditInv
<1>2. CASE stream' = [stream EXCEPT ![o].at = "reading", ![o].avail = stream[o].credit]
  <2>1. x.credit \in 0 .. MaxCredit /\ x.credit \in Nat
    BY <1>1, GoodTypes DEF Object
  <2>2. y \in Object /\ y.at = "reading" /\ y.avail = x.credit /\ y.credit = x.credit
    BY <1>1, <2>1 DEF Object, Pumping
  <2>3. stream' = [stream EXCEPT ![o] = y]
    BY <1>2 DEF CreditInv
  <2> HIDE DEF y
  <2>4. Good(y, ledger[o])
    BY <1>1, <2>1, <2>2 DEF Good, GetsCredit, Ended
  <2>5. QED
    BY <2>3, <2>4, ReplaceObject DEF CreditInv, GetsCredit
<1>3. CASE Go(o, "leaving")
  BY <1>3, CreditGo DEF GetsCredit, Pumping, Ended
<1>4. QED
  BY <1>2, <1>3 DEF GetsCredit

\* A read returns no more than the window the pump looked at.
LEMMA CreditReads ==
    ASSUME CreditInv, NEW o \in Streams, Reads(o), UNCHANGED made
    PROVE  CreditInv'
<1> DEFINE x == stream[o]
<1>1. Good(x, ledger[o]) /\ x \in Object
  BY DEF CreditInv
<1>2. ASSUME NEW n \in 1 .. CHUNK_SIZE, n <= stream[o].avail,
             stream' = [stream EXCEPT ![o].at = "consuming", ![o].n = n]
      PROVE  CreditInv'
  <2> DEFINE y == [x EXCEPT !.at = "consuming", !.n = n]
  <2>1. n \in 0 .. CHUNK_SIZE
    BY CreditAssumption
  <2>2. y \in Object /\ y.at = "consuming" /\ y.n = n /\ y.credit = x.credit
        /\ y.avail = x.avail
    BY <1>1, <2>1 DEF Object, Pumping
  <2>3. stream' = [stream EXCEPT ![o] = y]
    BY <1>2 DEF CreditInv
  <2> HIDE DEF y
  <2>4. Good(y, ledger[o])
    BY <1>1, <1>2, <2>2 DEF Good, Reads, Ended
  <2>5. QED
    BY <2>3, <2>4, ReplaceObject DEF CreditInv, Reads
<1>3. CASE Go(o, "broken") \/ Go(o, "eof")
  BY <1>3, CreditGo DEF Reads, Pumping, Ended
<1>4. QED
  BY <1>2, <1>3 DEF Reads

\* The credit of a read is taken, whatever was granted in the meantime.
LEMMA CreditConsumes ==
    ASSUME CreditInv, NEW o \in Streams, Consumes(o), UNCHANGED made
    PROVE  CreditInv'
<1> DEFINE x == stream[o]
           y == [x EXCEPT !.at = "holding", !.credit = x.credit - x.n, !.avail = 0]
<1>1. Good(x, ledger[o]) /\ x \in Object
  BY DEF CreditInv
<1>2. x.credit - x.n \in 0 .. MaxCredit /\ 0 \in 0 .. MaxCredit
  BY <1>1, GoodTypes, CreditAssumption DEF Good, Consumes
<1>3. y \in Object /\ y.at = "holding" /\ y.n = x.n /\ y.credit = x.credit - x.n
  BY <1>1, <1>2 DEF Object, Pumping
<1>4. stream' = [stream EXCEPT ![o] = y]
  BY DEF Consumes, CreditInv
<1> HIDE DEF y
<1>5. Good(y, ledger[o])
  BY <1>1, <1>3, GoodTypes, CreditAssumption DEF Good, Consumes, Ended
<1>6. QED
  BY <1>4, <1>5, ReplaceObject DEF CreditInv, Consumes

\* What was read is sent, or is lost with the stream.
LEMMA CreditForwards ==
    ASSUME CreditInv, NEW o \in Streams, Forwards(o), UNCHANGED made
    PROVE  CreditInv'
<1> DEFINE x == stream[o]
           l == ledger[o]
<1>1. Good(x, l) /\ x \in Object /\ l \in Ledger
  BY DEF CreditInv
<1>2. CASE /\ x.at = "holding"
           /\ stream' = [stream EXCEPT ![o].at = "waiting", ![o].n = 0]
           /\ ledger' = [ledger EXCEPT ![o].owed =
                IF stream'[o].at = "waiting" THEN @ - stream[o].n ELSE @]
  <2> DEFINE y == [x EXCEPT !.at = "waiting", !.n = 0]
             k == [l EXCEPT !.owed = l.owed - x.n]
  <2>1. 0 \in 0 .. CHUNK_SIZE
    BY CreditAssumption
  <2>2. y \in Object /\ y.at = "waiting" /\ y.credit = x.credit
    BY <1>1, <2>1 DEF Object, Pumping
  <2>3. l.owed - x.n = x.credit /\ x.credit \in Nat /\ x.credit <= MaxCredit
    BY <1>1, <1>2, GoodTypes DEF Good, Ended
  <2>4. l.owed - x.n \in 0 .. MaxCredit + CHUNK_SIZE
    BY <2>3, CreditAssumption
  <2>5. k \in Ledger /\ k.owed = x.credit
    BY <1>1, <2>3, <2>4 DEF Ledger
  <2>6. stream' = [stream EXCEPT ![o] = y]
    BY <1>2 DEF CreditInv
  <2>7. stream'[o].at = "waiting"
    BY <2>2, <2>6 DEF CreditInv
  <2>8. ledger' = [ledger EXCEPT ![o] = k]
    BY <1>2, <2>7 DEF CreditInv
  <2> HIDE DEF y, k
  <2>9. Good(y, k)
    BY <1>1, <2>2, <2>3, <2>5, CreditAssumption DEF Good
  <2>10. QED
    BY <2>6, <2>8, <2>9, Replace DEF CreditInv, Forwards
<1>3. ASSUME x.at = "holding", NEW place \in {"leaving", "failed"},
             NEW s \in {"new", "up", "closed"},
             stream' = [stream EXCEPT ![o] = [stream[o] EXCEPT !.at = place, !.socket = s]],
             ledger' = [ledger EXCEPT ![o].owed =
                IF stream'[o].at = "waiting" THEN @ - stream[o].n ELSE @]
      PROVE  CreditInv'
  <2>1. [stream[o] EXCEPT !.at = place, !.socket = s].at = place
    BY <1>1 DEF Object
  <2>2. stream'[o].at = place
    BY <1>3, <2>1 DEF CreditInv
  <2>3. ledger' = [ledger EXCEPT ![o].owed = @]
    BY <1>3, <2>2
  <2>4. ledger' = ledger
    BY <1>1, <2>3 DEF CreditInv, Ledger
  <2>5. place \in ({"none"} \cup Opening \cup Pumping \cup Ended)
                    \ {"reading", "consuming", "holding"}
        /\ place \in Ended \cup {"leaving"}
    BY DEF Pumping, Ended
  <2>6. QED
    BY <1>3, <2>4, <2>5, CreditMove DEF CreditInv, Forwards
<1>4. CASE x.at = "holding" /\ Offer(o, "waiting")
             /\ ledger' = [ledger EXCEPT ![o].owed =
                  IF stream'[o].at = "waiting" THEN @ - stream[o].n ELSE @]
  <2>1. x.at \notin Opening
    BY <1>4 DEF Opening
  <2>2. CASE stream' = [stream EXCEPT ![o].at = "waiting", ![o].n = 0]
    BY <1>2, <1>4, <2>2
  <2>3. CASE Go(o, "leaving")
    <3>1. [x EXCEPT !.at = "leaving"] = [x EXCEPT !.at = "leaving", !.socket = x.socket]
          /\ x.socket \in {"new", "up", "closed"}
      BY <1>1 DEF Object
    <3>2. stream' = [stream EXCEPT ![o] =
                       [stream[o] EXCEPT !.at = "leaving", !.socket = x.socket]]
      BY <2>3, <3>1 DEF Go, CreditInv
    <3>3. QED
      BY <1>3, <1>4, <3>1, <3>2
  <2>4. CASE stream' = [stream EXCEPT ![o].at = "failed", ![o].socket = "closed"]
    <3>1. stream' = [stream EXCEPT ![o] =
                       [stream[o] EXCEPT !.at = "failed", !.socket = "closed"]]
      BY <2>4 DEF CreditInv
    <3>2. QED
      BY <1>3, <1>4, <3>1
  <2>5. QED
    BY <1>4, <2>1, <2>2, <2>3, <2>4 DEF Offer
<1>5. CASE UNCHANGED ledger /\ \/ x.at = "eof" /\ Offer(o, "leaving")
                               \/ x.at = "broken" /\ Offer(o, "leaving")
  BY <1>5, CreditOffer DEF Forwards
<1>6. QED
  BY <1>4, <1>5 DEF Forwards

LEMMA CreditRuns ==
    ASSUME CreditInv, NEW o \in Streams, Runs(o) \/ Receives(o)
    PROVE  CreditInv'
<1> DEFINE x == stream[o]
<1>1. Good(x, ledger[o]) /\ x \in Object
  BY DEF CreditInv
<1>2. UNCHANGED made
  BY DEF Runs, Receives
<1>3. CASE Connects(o)
  <2>1. CASE stream' = [stream EXCEPT ![o].at = "connected", ![o].socket = "up"]
    <3>1. stream' = [stream EXCEPT ![o] =
                       [stream[o] EXCEPT !.at = "connected", !.socket = "up"]]
      BY <2>1 DEF CreditInv
    <3>2. QED
      BY <1>2, <1>3, <3>1, CreditMove DEF Connects, Opening, Ended, CreditInv
  <2>2. CASE Go(o, "refused")
    BY <1>2, <1>3, <2>2, CreditGo DEF Connects, Opening, Ended
  <2>3. QED
    BY <1>3, <2>1, <2>2 DEF Connects
<1>4. CASE Acks(o)
  BY <1>2, <1>4, CreditOffer DEF Acks
<1>5. CASE Launches(o)
  BY <1>2, <1>5, CreditGo DEF Launches, Pumping, Ended
<1>6. CASE SetsJob(o)
  <2> DEFINE y == [x EXCEPT !.job = TRUE]
  <2>1. y \in Object /\ y.at = x.at /\ y.credit = x.credit /\ y.avail = x.avail
        /\ y.n = x.n
    BY <1>1 DEF Object
  <2>2. stream' = [stream EXCEPT ![o] = y]
    BY <1>6 DEF SetsJob, CreditInv
  <2> HIDE DEF y
  <2>3. Good(y, ledger[o])
    BY <1>1, <2>1 DEF Good
  <2>4. QED
    BY <1>2, <1>6, <2>2, <2>3, ReplaceObject DEF SetsJob, CreditInv
<1>7. CASE Starts(o)
  <2>1. CASE Go(o, "done")
    BY <1>2, <1>7, <2>1, CreditGo DEF Starts, Ended
  <2>2. CASE Go(o, "waiting") \/ Go(o, "broken")
    BY <1>2, <1>7, <2>2, CreditGo DEF Starts, Pumping, Ended
  <2>3. QED
    BY <1>7, <2>1, <2>2 DEF Starts
<1>8. CASE GetsCredit(o)
  BY <1>2, <1>8, CreditGets
<1>9. CASE Reads(o)
  BY <1>2, <1>9, CreditReads
<1>10. CASE Consumes(o)
  BY <1>2, <1>10, CreditConsumes
<1>11. CASE Forwards(o)
  BY <1>2, <1>11, CreditForwards
<1>12. CASE Leaves(o)
  <2>1. stream' = [stream EXCEPT ![o] =
                     [stream[o] EXCEPT !.at = "done", !.socket = "closed"]]
    BY <1>12 DEF Leaves, CreditInv
  <2>2. tcpStreams' \in [Sids -> 0 .. MaxStreams]
    BY <1>12, OnClosedType DEF Leaves
  <2>3. QED
    BY <1>2, <1>12, <2>1, <2>2, CreditMove DEF Leaves, Ended, CreditInv
<1>13. QED
  BY <1>3, <1>4, <1>5, <1>6, <1>7, <1>8, <1>9, <1>10, <1>11, <1>12 DEF Runs, Receives

LEMMA CreditInit == Init => CreditInv
<1> SUFFICES ASSUME Init PROVE CreditInv
  OBVIOUS
<1>1. /\ 0 \in 0 .. MaxCredit /\ 0 \in 0 .. CHUNK_SIZE
      /\ 0 \in 0 .. CREDIT_CHUNK - 1 /\ 0 \in 0 .. MaxCredit + CHUNK_SIZE
  BY CreditAssumption
<1>2. Unused \in Object /\ Unused.at = "none" /\ Unused.credit = 0
  BY <1>1 DEF Unused, Object
<1>3. [owed |-> 0, missed |-> FALSE] \in Ledger
  BY <1>1 DEF Ledger
<1>4. Good(Unused, [owed |-> 0, missed |-> FALSE])
  BY <1>2, <1>3, CreditAssumption DEF Good
<1>5. tcpStreams \in [Sids -> 0 .. MaxStreams] /\ made \in 0 .. MaxStreams
  BY StreamsAssumption DEF Init, NoStream
<1>6. QED
  BY <1>2, <1>3, <1>4, <1>5 DEF Init, CreditInv

LEMMA CreditStep == CreditInv /\ [Next]_vars => CreditInv'
<1> SUFFICES ASSUME CreditInv, [Next]_vars PROVE CreditInv'
  OBVIOUS
<1>1. CASE UNCHANGED <<tcpStreams, made, stream, ledger>>
  BY <1>1 DEF CreditInv
<1>2. CASE Shutdown
  BY <1>2, CreditShutdown
<1>3. ASSUME NEW s \in Sids, Reader(s) PROVE CreditInv'
  BY <1>3, CreditReader
<1>4. ASSUME NEW o \in Streams, Runs(o) \/ Receives(o) PROVE CreditInv'
  BY <1>4, CreditRuns
<1>5. QED
  BY <1>1, <1>2, <1>3, <1>4 DEF Next, OnHello, OnPing, OnFatal, Drain, vars

\* Credit is conserved for every stream, whatever grants arrive while its pump
\* reads, and for any window and chunk sizes.
THEOREM CreditIsConserved == Spec => []CreditConserved
<1>1. CreditInv => CreditConserved
  BY DEF CreditInv, Good, CreditConserved
<1>2. QED
  BY <1>1, CreditInit, CreditStep, PTL DEF Spec

------------------------------------------------------------------------------
(***************************************************************************)
(* The types.  The object's ids, the window and the count are in CreditInv;*)
(* what is left is the reader and the writer's channel.                    *)
(***************************************************************************)
ChannelType ==
    /\ reader \in {"reading", "ending", "over"}
    /\ helloSeen \in BOOLEAN
    /\ crossed \subseteq Sids
    /\ outbox \in 0 .. Capacity

LEMMA ChannelStep ==
    ASSUME CreditInv, ChannelType, [Next]_vars
    PROVE  ChannelType'
<1> DEFINE Moves == \/ UNCHANGED outbox
                    \/ outbox < Capacity /\ outbox' = outbox + 1
                    \/ outbox > 0 /\ outbox' = outbox - 1
<1>1. /\ reader' \in {"reading", "ending", "over"} /\ helloSeen' \in BOOLEAN
      /\ crossed' \subseteq Sids
  BY DEF OpenStream, ChannelType, Next, OnHello, OnPing, OnFatal, Shutdown, Reader, OnOpen, OnData,
         OnCloseWr, OnRst, OnWindow, Runs, Receives, Drain, vars
<1>2. ASSUME NEW s \in Sids, Reader(s) PROVE Moves
  BY <1>2 DEF Reader, OnOpen, OpenStream, OnData, OnCloseWr, OnRst, OnWindow, Send
<1>3. ASSUME NEW o \in Streams, Runs(o) \/ Receives(o) PROVE Moves
  BY <1>3 DEF Runs, Receives, Connects, Acks, Launches, SetsJob, Starts, GetsCredit,
              Reads, Consumes, Forwards, Leaves, Offer, Send
<1>4. Moves
  BY <1>2, <1>3
     DEF Next, OnHello, OnPing, OnFatal, Shutdown, Drain, Send, vars
<1>5. outbox' \in 0 .. Capacity
  BY <1>4, CapacityAssumption DEF ChannelType
<1>6. QED
  BY <1>1, <1>5 DEF ChannelType

\* The types hold for any streams and ids; in particular the count of what was
\* received stays below CREDIT_CHUNK, and the channel within its capacity.
THEOREM ServerTypeCorrect == Spec => []TypeOK
<1>1. Init => ChannelType
  <2>1. 1 \in 0 .. Capacity
    BY CapacityAssumption
  <2>2. QED
    BY <2>1 DEF Init, ChannelType
<1>2. CreditInv /\ ChannelType => TypeOK
  BY DEF CreditInv, ChannelType, TypeOK
<1>3. CreditInv /\ ChannelType /\ [Next]_vars => CreditInv' /\ ChannelType'
  BY CreditStep, ChannelStep
<1>4. QED
  BY <1>1, <1>2, <1>3, CreditInit, PTL DEF Spec

------------------------------------------------------------------------------
(***************************************************************************)
(* The table.  It agrees with the objects because every step keeps more:   *)
(* who may still connect is listed, who is cancelled is not, an object     *)
(* that is opening has no job a reset could cancel, and no two objects     *)
(* have one id, before they end, unless it was opened again too early.     *)
(***************************************************************************)
\* listed: the object is in the table; cross: its id was opened too early.
Fits(x, listed, cross) ==
    /\ listed => x.at \notin Ended \cup {"none"}
    /\ x.socket = "up" => listed \/ cross
    /\ x.at = "connecting" /\ x.socket = "new" => listed \/ cross
    /\ x.at \in Opening => ~x.job
    /\ x.cancelled => ~listed

Crossed(o) == stream[o].sid \in crossed

TableInv ==
    /\ \A o \in Streams : o > made => stream[o].at = "none"
    /\ \A o, p \in Streams :
         /\ o <= made /\ p <= made /\ stream[o].sid = stream[p].sid
         /\ stream[o].at \notin Ended /\ stream[p].at \notin Ended
         => o = p \/ Crossed(o)
    /\ \A s \in Sids : tcpStreams[s] # NoStream => stream[tcpStreams[s]].sid = s
    /\ \A o \in Streams : Fits(stream[o], Listed(o), Crossed(o))
    /\ reader = "over" => \A s \in Sids : tcpStreams[s] = NoStream

LEMMA ListedMade ==
    ASSUME CreditInv, TableInv, NEW o \in Streams, Listed(o) \/ stream[o].at # "none"
    PROVE  o <= made
  BY StreamsAssumption DEF TableInv, CreditInv, Fits, Streams

\* A step of one object that leaves the table alone.
LEMMA TableReplace ==
    ASSUME CreditInv, TableInv, NEW o \in Streams, o <= made,
           NEW y, y.sid = stream[o].sid, Fits(y, Listed(o), Crossed(o)),
           y.at \in Ended \/ stream[o].at \notin Ended,
           stream' = [stream EXCEPT ![o] = y],
           UNCHANGED <<reader, tcpStreams, made, crossed>>
    PROVE  TableInv'
<1>1. \A p \in Streams : stream'[p] = IF p = o THEN y ELSE stream[p]
  BY DEF CreditInv
<1>2. /\ \A p \in Streams : stream'[p].sid = stream[p].sid
      /\ \A p \in Streams : stream'[p].at \notin Ended => stream[p].at \notin Ended
  BY <1>1
<1>3. \A p \in Streams : (Listed(p)' <=> Listed(p)) /\ (Crossed(p)' <=> Crossed(p))
  BY <1>2 DEF Listed, Crossed
<1>4. \A p \in Streams : Fits(stream[p], Listed(p), Crossed(p))'
  <2>1. \A p \in Streams : Fits(stream'[p], Listed(p), Crossed(p))
    BY <1>1 DEF TableInv
  <2>2. QED
    BY <1>3, <2>1 DEF Fits
<1>5. \A s \in Sids : tcpStreams[s] # NoStream => stream'[tcpStreams[s]].sid = s
  BY <1>2, ListedObject DEF TableInv
<1>6. \A p \in Streams : p > made => stream'[p].at = "none"
  BY <1>1, StreamsAssumption DEF TableInv, CreditInv, Streams
<1>7. Streams' = Streams
  BY DEF Streams
<1>8. QED
  BY <1>2, <1>3, <1>4, <1>5, <1>6, <1>7 DEF TableInv

\* An id that is taken out of the table for a stream that has not ended takes only
\* this stream with it, unless the id was opened too early.
LEMMA ListedKept ==
    ASSUME CreditInv, TableInv, NEW o \in Streams, o <= made, stream[o].at \notin Ended,
           OnClosed(stream[o].sid),
           NEW p \in Streams, p # o, Listed(p), ~Crossed(p)
    PROVE  Listed(p)'
<1>1. PICK s \in Sids : tcpStreams[s] = p
  BY DEF Listed
<1>2. p # NoStream
  BY StreamsAssumption DEF Streams, NoStream
<1>3. stream[p].sid = s /\ p <= made
  BY <1>1, <1>2, ListedMade DEF TableInv
<1>4. stream[p].at \notin Ended
  BY DEF TableInv, Fits
<1>5. s # stream[o].sid
  BY <1>3, <1>4 DEF TableInv
<1>6. tcpStreams'[s] = p
  BY <1>1, <1>5 DEF OnClosed, CreditInv
<1>7. QED
  BY <1>6 DEF Listed

\* A step of one object that takes its id out of the table.
LEMMA TableRemove ==
    ASSUME CreditInv, TableInv, NEW o \in Streams, o <= made, stream[o].at \notin Ended,
           NEW y, y.sid = stream[o].sid, Fits(y, FALSE, Crossed(o)),
           stream' = [stream EXCEPT ![o] = y], OnClosed(stream[o].sid),
           UNCHANGED <<reader, made, crossed>>
    PROVE  TableInv'
<1>1. \A p \in Streams : stream'[p] = IF p = o THEN y ELSE stream[p]
  BY DEF CreditInv
<1>2. /\ \A p \in Streams : stream'[p].sid = stream[p].sid
      /\ \A p \in Streams : stream'[p].at \notin Ended => stream[p].at \notin Ended
      /\ \A p \in Streams : Crossed(p)' <=> Crossed(p)
  BY <1>1 DEF Crossed
<1>3. \A s \in Sids :
        tcpStreams'[s] = IF s = stream[o].sid THEN NoStream ELSE tcpStreams[s]
  BY DEF OnClosed, CreditInv
<1>4. ASSUME NEW p \in Streams, Listed(p)'
      PROVE  Listed(p) /\ p # o
  <2>1. PICK s \in Sids : tcpStreams'[s] = p
    BY <1>4 DEF Listed
  <2>2. p # NoStream
    BY StreamsAssumption DEF Streams, NoStream
  <2>3. s # stream[o].sid /\ tcpStreams[s] = p
    BY <1>3, <2>1, <2>2
  <2>4. stream[p].sid = s
    BY <2>2, <2>3 DEF TableInv
  <2>5. QED
    BY <2>3, <2>4 DEF Listed
<1>5. \A p \in Streams : Fits(stream[p], Listed(p), Crossed(p))'
  <2>1. ASSUME NEW p \in Streams PROVE Fits(stream'[p], Listed(p)', Crossed(p))
    <3>1. CASE p = o
      <4>1. ~Listed(p)' /\ stream'[p] = y
        BY <1>1, <1>4, <3>1
      <4>2. QED
        BY <3>1, <4>1 DEF Fits
    <3>2. CASE p # o
      <4>1. Fits(stream[p], Listed(p), Crossed(p)) /\ stream'[p] = stream[p]
        BY <1>1, <3>2 DEF TableInv
      <4>2. (Listed(p)' => Listed(p)) /\ (Listed(p) /\ ~Crossed(p) => Listed(p)')
        BY <1>4, <3>2, ListedKept
      <4>3. QED
        BY <4>1, <4>2 DEF Fits
    <3>3. QED
      BY <3>1, <3>2
  <2>2. QED
    BY <1>2, <2>1 DEF Fits
<1>6. \A s \in Sids : tcpStreams'[s] # NoStream => stream'[tcpStreams'[s]].sid = s
  BY <1>2, <1>3, ListedObject DEF TableInv
<1>7. \A p \in Streams : p > made => stream'[p].at = "none"
  BY <1>1, StreamsAssumption DEF TableInv, CreditInv, Streams
<1>8. reader' = "over" => \A s \in Sids : tcpStreams'[s] = NoStream
  BY <1>3 DEF TableInv
<1>9. Streams' = Streams
  BY DEF Streams
<1>10. QED
  BY <1>2, <1>5, <1>6, <1>7, <1>8, <1>9 DEF TableInv

LEMMA TableDiscard ==
    ASSUME CreditInv, TableInv, NEW s \in Sids, tcpStreams[s] # NoStream,
           Discard(tcpStreams[s], s), UNCHANGED <<reader, made, crossed>>
    PROVE  TableInv'
<1> DEFINE o == tcpStreams[s]
<1>1. o \in Streams /\ Listed(o) /\ stream[o].sid = s
  BY ListedObject DEF Listed, TableInv
<1>2. o <= made /\ stream[o] \in Object /\ Fits(stream[o], Listed(o), Crossed(o))
  BY <1>1, ListedMade DEF CreditInv, TableInv
<1>3. /\ Reset(o).sid = stream[o].sid /\ Reset(o).socket = "closed"
      /\ Reset(o).at = stream[o].at /\ Reset(o).job = stream[o].job
  BY <1>2 DEF Reset, Object
<1>4. Fits(Reset(o), FALSE, Crossed(o)) /\ stream[o].at \notin Ended
  BY <1>1, <1>2, <1>3 DEF Fits
<1>5. QED
  BY <1>1, <1>2, <1>3, <1>4, TableRemove DEF Discard

\* A new object has an id that no other has that goes on, unless the id is opened
\* too early, and the history then says so.
LEMMA TableOpen ==
    ASSUME CreditInv, TableInv, NEW s \in Sids, tcpStreams[s] = NoStream,
           OpenStream(s), reader = "reading", UNCHANGED reader
    PROVE  TableInv'
<1> DEFINE y == [Unused EXCEPT !.sid = s, !.at = "connecting", !.credit = InitialWindow]
           o == made + 1
<1>1. made' = o /\ o \in Streams /\ made \in Nat /\ o # NoStream
  BY StreamsAssumption DEF OpenStream, CreditInv, Streams, NoStream
<1>2. y.sid = s /\ y.at = "connecting" /\ y.socket = "new" /\ ~y.job /\ ~y.cancelled
  BY DEF Unused
<1>3. \A p \in Streams : stream'[p] = IF p = o THEN y ELSE stream[p]
  BY <1>1 DEF OpenStream, CreditInv
<1> HIDE DEF y
<1>4. /\ \A r : r \in crossed => r \in crossed'
      /\ s \in crossed' \/ ~Lingers(s)
  BY DEF OpenStream
<1>5. ASSUME NEW p \in Streams, stream[p].sid = s, stream[p].at \notin Ended
      PROVE  s \in crossed'
  <2>1. ~Listed(p)
    <3> SUFFICES ASSUME NEW r \in Sids, tcpStreams[r] = p PROVE FALSE
      BY DEF Listed
    <3>1. p # NoStream
      BY StreamsAssumption DEF Streams, NoStream
    <3>2. r = s
      BY <1>5, <3>1 DEF TableInv
    <3>3. QED
      BY <3>1, <3>2
  <2>2. Lingers(s)
    BY <1>5, <2>1 DEF Lingers
  <2>3. QED
    BY <1>4, <2>2
<1>6. \A r \in Sids : tcpStreams'[r] = IF r = s THEN o ELSE tcpStreams[r]
  BY <1>1 DEF OpenStream, CreditInv
<1>7. ~Listed(o)
  BY <1>1, ListedMade
<1>8. \A p \in Streams : Listed(p)' <=> Listed(p) \/ p = o
  <2>1. \A p \in Streams : p # NoStream
    BY StreamsAssumption DEF Streams, NoStream
  <2>2. QED
    BY <1>6, <2>1 DEF Listed
<1>9. \A p \in Streams : Fits(stream[p], Listed(p), Crossed(p))'
  <2>1. ASSUME NEW p \in Streams PROVE Fits(stream'[p], Listed(p)', Crossed(p)')
    <3>1. CASE p = o
      <4>1. stream'[p] = y /\ Listed(p)'
        BY <1>3, <1>8, <3>1
      <4>2. QED
        BY <1>2, <4>1 DEF Fits, Ended
    <3>2. CASE p # o
      <4>1. Fits(stream[p], Listed(p), Crossed(p)) /\ stream'[p] = stream[p]
        BY <1>3, <3>2 DEF TableInv
      <4>2. (Listed(p)' <=> Listed(p)) /\ (Crossed(p) => Crossed(p)')
        BY <1>4, <1>8, <3>2, <4>1 DEF Crossed
      <4>3. QED
        BY <4>1, <4>2 DEF Fits
    <3>3. QED
      BY <3>1, <3>2
  <2>2. QED
    BY <2>1 DEF Fits
<1>10. \A r \in Sids : tcpStreams'[r] # NoStream => stream'[tcpStreams'[r]].sid = r
  <2>1. ASSUME NEW r \in Sids, r # s, tcpStreams[r] # NoStream
        PROVE  stream'[tcpStreams[r]].sid = r
    <3>1. tcpStreams[r] \in Streams /\ Listed(tcpStreams[r])
      BY <2>1, ListedObject DEF Listed
    <3>2. tcpStreams[r] # o
      BY <1>7, <3>1
    <3>3. QED
      BY <1>3, <2>1, <3>1, <3>2 DEF TableInv
  <2>2. QED
    BY <1>1, <1>2, <1>3, <1>6, <2>1
<1>11. ASSUME NEW p \in Streams, NEW q \in Streams, p <= o, q <= o,
              stream'[p].sid = stream'[q].sid,
              stream'[p].at \notin Ended, stream'[q].at \notin Ended
       PROVE  p = q \/ Crossed(p)'
  <2>1. \A r \in Streams : r <= o /\ r # o => r <= made
    BY <1>1 DEF Streams
  <2>2. CASE p # o /\ q # o
    <3>1. p = q \/ Crossed(p)
      BY <1>3, <1>11, <2>1, <2>2 DEF TableInv
    <3>2. Crossed(p) => Crossed(p)'
      BY <1>3, <1>4, <2>2 DEF Crossed
    <3>3. QED
      BY <3>1, <3>2
  <2>3. CASE p = o /\ q # o
    BY <1>2, <1>3, <1>5, <1>11, <2>3 DEF Crossed
  <2>4. CASE p # o /\ q = o
    BY <1>2, <1>3, <1>5, <1>11, <2>4 DEF Crossed
  <2>5. QED
    BY <2>2, <2>3, <2>4
<1>12. \A p \in Streams : p > o => stream'[p].at = "none"
  BY <1>1, <1>3 DEF TableInv, Streams
<1>13. Streams' = Streams
  BY DEF Streams
<1>14. QED
  BY <1>1, <1>9, <1>10, <1>11, <1>12, <1>13 DEF TableInv

LEMMA TableReader ==
    ASSUME CreditInv, TableInv, NEW s \in Sids, Reader(s)
    PROVE  TableInv'
<1> DEFINE o == tcpStreams[s]
<1>1. CASE UNCHANGED <<tcpStreams, made, crossed, stream, reader>>
  BY <1>1 DEF TableInv, Listed, Crossed, Streams
<1>2. CASE OnOpen(s)
  <2>1. CASE tcpStreams[s] = NoStream /\ OpenStream(s)
    BY <1>2, <2>1, TableOpen DEF OnOpen, InSession
  <2>2. QED
    BY <1>1, <1>2, <2>1 DEF OnOpen
<1>3. ASSUME NEW y, o # NoStream, stream' = [stream EXCEPT ![o] = y],
             y.sid = stream[o].sid, y.at = stream[o].at, y.socket = stream[o].socket,
             y.job = stream[o].job, y.cancelled = stream[o].cancelled,
             UNCHANGED <<reader, tcpStreams, made, crossed>>
      PROVE  TableInv'
  <2>1. o \in Streams /\ Listed(o)
    BY <1>3, ListedObject DEF Listed
  <2>2. /\ Fits(y, Listed(o), Crossed(o)) /\ o <= made
        /\ stream[o].at \notin Ended
    BY <1>3, <2>1, ListedMade DEF TableInv, Fits
  <2>3. QED
    BY <1>3, <2>1, <2>2, TableReplace
<1>4. ASSUME o # NoStream
      PROVE  o \in Streams /\ stream[o] \in Object
  BY <1>4, ListedObject DEF CreditInv
<1>5. CASE OnData(s)
  <2>1. CASE o # NoStream /\ stream' = Count(o) /\ UNCHANGED tcpStreams
    <3> DEFINE y == [stream[o] EXCEPT !.since = (stream[o].since + 1) % CREDIT_CHUNK]
    <3>1. stream' = [stream EXCEPT ![o] = y]
      BY <1>4, <2>1 DEF Count, CreditInv
    <3>2. /\ y.sid = stream[o].sid /\ y.at = stream[o].at
          /\ y.socket = stream[o].socket /\ y.job = stream[o].job
          /\ y.cancelled = stream[o].cancelled
      BY <1>4, <2>1 DEF Object
    <3> HIDE DEF y
    <3>3. QED
      BY <1>3, <1>5, <2>1, <3>1, <3>2 DEF OnData
  <2>2. CASE o # NoStream /\ Discard(o, s)
    BY <1>5, <2>2, TableDiscard DEF OnData
  <2>3. QED
    BY <1>1, <1>5, <2>1, <2>2 DEF OnData
<1>6. CASE OnCloseWr(s)
  <2> DEFINE y == [stream[o] EXCEPT !.outShut = TRUE]
  <2>1. stream' = [stream EXCEPT ![o] = y]
    BY <1>4, <1>6 DEF OnCloseWr, CreditInv
  <2>2. /\ y.sid = stream[o].sid /\ y.at = stream[o].at
        /\ y.socket = stream[o].socket /\ y.job = stream[o].job
        /\ y.cancelled = stream[o].cancelled
    BY <1>4, <1>6 DEF Object, OnCloseWr
  <2> HIDE DEF y
  <2>3. QED
    BY <1>3, <1>6, <2>1, <2>2 DEF OnCloseWr
<1>7. CASE OnWindow(s)
  <2> DEFINE y == [stream[o] EXCEPT !.credit = stream[o].credit + 1]
  <2>1. stream' = [stream EXCEPT ![o] = y]
    BY <1>4, <1>7 DEF OnWindow, CreditInv
  <2>2. /\ y.sid = stream[o].sid /\ y.at = stream[o].at
        /\ y.socket = stream[o].socket /\ y.job = stream[o].job
        /\ y.cancelled = stream[o].cancelled
    BY <1>4, <1>7 DEF Object, OnWindow
  <2> HIDE DEF y
  <2>3. QED
    BY <1>3, <1>7, <2>1, <2>2 DEF OnWindow
<1>8. CASE OnRst(s)
  BY <1>8, TableDiscard DEF OnRst
<1>9. QED
  BY <1>2, <1>5, <1>6, <1>7, <1>8 DEF Reader

\* The end of the session closes every socket and empties the table.
LEMMA TableShutdown ==
    ASSUME CreditInv, TableInv, Shutdown
    PROVE  TableInv'
<1>1. ASSUME NEW o \in Streams
      PROVE  stream'[o].sid = stream[o].sid /\ Fits(stream'[o], FALSE, Crossed(o))
  <2>1. stream[o] \in Object /\ Fits(stream[o], Listed(o), Crossed(o))
    BY DEF CreditInv, TableInv
  <2>2. /\ stream'[o].sid = stream[o].sid
        /\ stream'[o].socket = IF Listed(o) THEN "closed" ELSE stream[o].socket
        /\ stream'[o].at = stream[o].at /\ stream'[o].job = stream[o].job
    BY <2>1 DEF Shutdown, Reset, Object
  <2>3. QED
    BY <2>1, <2>2 DEF Fits
<1>2. \A s \in Sids : tcpStreams'[s] = NoStream
  BY DEF Shutdown
<1>3. \A o \in Streams : ~Listed(o)'
  BY <1>2, StreamsAssumption DEF Listed, NoStream, Streams
<1>4. \A o \in Streams : Crossed(o)' <=> Crossed(o)
  <2>1. UNCHANGED crossed
    BY DEF Shutdown
  <2>2. QED
    BY <1>1, <2>1 DEF Crossed
<1>5. /\ \A o \in Streams : stream'[o].at = stream[o].at
      /\ \A o \in Streams : stream'[o].sid = stream[o].sid
  <2>1. \A o \in Streams : stream[o] \in Object
    BY DEF CreditInv
  <2>2. QED
    BY <2>1 DEF Shutdown, Reset, Object
<1>6. \A o \in Streams : Fits(stream[o], Listed(o), Crossed(o))'
  BY <1>1, <1>3, <1>4 DEF Fits
<1>7. Streams' = Streams /\ UNCHANGED made
  BY DEF Streams, Shutdown
<1>8. QED
  BY <1>2, <1>4, <1>5, <1>6, <1>7 DEF TableInv

\* A coroutine that goes on, ends with its socket closed while it is not
\* listed, or stays where it is.
LEMMA TableMove ==
    ASSUME CreditInv, TableInv, NEW o \in Streams, stream[o].at # "none",
           stream[o].at \notin Ended, NEW y \in Object, y.sid = stream[o].sid,
           y.at \notin Opening \cup {"none"} \/ stream[o].at \in Opening,
           y.at # "none", y.at # "connecting",
           y.at \notin Ended \/ ~Listed(o),
           y.socket = stream[o].socket \/ y.socket = "closed",
           y.job = stream[o].job \/ y.at \in Pumping, y.cancelled = stream[o].cancelled,
           stream' = [stream EXCEPT ![o] = y], UNCHANGED <<reader, tcpStreams, made, crossed>>
    PROVE  TableInv'
<1>1. o <= made /\ Fits(stream[o], Listed(o), Crossed(o))
  BY ListedMade DEF TableInv
<1>2. y.at \in Pumping => y.at \notin Opening
  BY DEF Pumping, Opening
<1>3. Fits(y, Listed(o), Crossed(o))
  BY <1>1, <1>2 DEF Fits
<1>4. QED
  BY <1>1, <1>3, TableReplace

LEMMA TableGo ==
    ASSUME CreditInv, TableInv, NEW o \in Streams, stream[o].at # "none",
           stream[o].at \notin Ended, NEW place \in (Opening \cup Pumping \cup Ended) \ {"connecting"},
           place \in Opening => stream[o].at \in Opening,
           place \in Ended => ~Listed(o),
           Go(o, place), UNCHANGED <<reader, tcpStreams, made, crossed>>
    PROVE  TableInv'
<1> DEFINE y == [stream[o] EXCEPT !.at = place]
<1>1. stream[o] \in Object
  BY DEF CreditInv
<1>2. y \in Object /\ y.at = place /\ y.sid = stream[o].sid /\ y.job = stream[o].job
      /\ y.socket = stream[o].socket /\ y.cancelled = stream[o].cancelled
  BY <1>1 DEF Object
<1>3. stream' = [stream EXCEPT ![o] = y]
  BY DEF Go, CreditInv
<1>4. place # "none"
  BY DEF Opening, Pumping, Ended
<1> HIDE DEF y
<1>5. QED
  BY <1>2, <1>3, <1>4, TableMove

LEMMA TableOffer ==
    ASSUME CreditInv, TableInv, NEW o \in Streams,
           NEW next \in {"acked", "leaving", "waiting"},
           stream[o].at # "none", stream[o].at \notin Ended, next = "acked" => stream[o].at \in Opening,
           Offer(o, next), UNCHANGED <<reader, tcpStreams, made, crossed>>
    PROVE  TableInv'
<1>1. stream[o] \in Object /\ Fits(stream[o], Listed(o), Crossed(o))
  BY DEF CreditInv, TableInv
<1>2. CASE stream' = [stream EXCEPT ![o].at = next, ![o].n = 0]
  <2> DEFINE y == [stream[o] EXCEPT !.at = next, !.n = 0]
  <2>1. 0 \in 0 .. CHUNK_SIZE
    BY CreditAssumption
  <2>2. y \in Object /\ y.at = next /\ y.sid = stream[o].sid /\ y.job = stream[o].job
        /\ y.socket = stream[o].socket /\ y.cancelled = stream[o].cancelled
    BY <1>1, <2>1 DEF Object, Opening, Pumping
  <2>3. stream' = [stream EXCEPT ![o] = y]
    BY <1>2 DEF CreditInv
  <2> HIDE DEF y
  <2>4. QED
    BY <2>2, <2>3, TableMove DEF Opening, Ended
<1>3. CASE stream[o].cancelled
             /\ Go(o, IF stream[o].at \in Opening THEN "done" ELSE "leaving")
  <2>1. ~Listed(o)
    BY <1>1, <1>3 DEF Fits
  <2>2. CASE Go(o, "done")
    BY <2>1, <2>2, TableGo DEF Opening, Ended
  <2>3. CASE Go(o, "leaving")
    BY <2>3, TableGo DEF Opening, Pumping, Ended
  <2>4. QED
    BY <1>3, <2>2, <2>3
<1>4. CASE /\ reader = "over"
           /\ stream' = [stream EXCEPT ![o].at = "failed",
                ![o].socket = IF stream[o].at \in Opening THEN @ ELSE "closed"]
  <2>1. ~Listed(o)
    BY <1>4, StreamsAssumption DEF TableInv, Listed, Streams, NoStream
  <2>2. PICK s \in {stream[o].socket, "closed"} :
          stream' = [stream EXCEPT ![o] = [stream[o] EXCEPT !.at = "failed", !.socket = s]]
    BY <1>4 DEF CreditInv
  <2> DEFINE y == [stream[o] EXCEPT !.at = "failed", !.socket = s]
  <2>3. y \in Object /\ y.at = "failed" /\ y.sid = stream[o].sid /\ y.socket = s
        /\ y.job = stream[o].job /\ y.cancelled = stream[o].cancelled
    BY <1>1 DEF Object, Ended
  <2> HIDE DEF y
  <2>4. QED
    BY <2>1, <2>2, <2>3, TableMove DEF y, Opening, Ended
<1>5. QED
  BY <1>2, <1>3, <1>4 DEF Offer

LEMMA TableRuns ==
    ASSUME CreditInv, TableInv, NEW o \in Streams, Runs(o) \/ Receives(o)
    PROVE  TableInv'
<1> DEFINE x == stream[o]
<1>1. x \in Object /\ Fits(x, Listed(o), Crossed(o)) /\ UNCHANGED <<reader, made, crossed>>
  BY DEF CreditInv, TableInv, Runs, Receives
<1>2. CASE Connects(o)
  <2>1. CASE x.socket = "new"
             /\ stream' = [stream EXCEPT ![o].at = "connected", ![o].socket = "up"]
    <3> DEFINE y == [x EXCEPT !.at = "connected", !.socket = "up"]
    <3>1. y.at = "connected" /\ y.sid = x.sid /\ y.job = x.job
          /\ y.socket = "up" /\ y.cancelled = x.cancelled
      BY <1>1 DEF Object
    <3>2. stream' = [stream EXCEPT ![o] = y]
      BY <2>1 DEF CreditInv
    <3>3. x.at = "connecting"
      BY <1>2 DEF Connects
    <3> HIDE DEF y
    <3>4. Fits(y, Listed(o), Crossed(o))
      BY <1>1, <2>1, <3>1, <3>3 DEF Fits, Opening, Ended
    <3>5. o <= made
      BY <3>3, ListedMade
    <3>6. QED
      BY <1>1, <1>2, <3>1, <3>2, <3>3, <3>4, <3>5, TableReplace DEF Connects, Ended
  <2>2. CASE Go(o, "refused")
    BY <1>1, <1>2, <2>2, TableGo DEF Connects, Opening, Ended
  <2>3. QED
    BY <1>2, <2>1, <2>2 DEF Connects
<1>3. CASE Acks(o)
  BY <1>1, <1>3, TableOffer DEF Acks, Opening, Ended
<1>4. CASE Launches(o)
  BY <1>1, <1>4, TableGo DEF Launches, Opening, Pumping, Ended
<1>5. CASE SetsJob(o)
  <2> DEFINE y == [x EXCEPT !.job = TRUE]
  <2>1. y \in Object /\ y.at = x.at /\ y.sid = x.sid /\ y.socket = x.socket
        /\ y.cancelled = x.cancelled /\ y.job
    BY <1>1 DEF Object
  <2>2. stream' = [stream EXCEPT ![o] = y] /\ x.at \in Pumping /\ UNCHANGED tcpStreams
    BY <1>5 DEF SetsJob, CreditInv
  <2> HIDE DEF y
  <2>3. x.at \notin Opening \cup Ended \cup {"none", "connecting"}
    BY <2>2 DEF Pumping, Opening, Ended
  <2>4. QED
    BY <1>1, <2>1, <2>2, <2>3, TableMove
<1>6. CASE Starts(o)
  <2>1. CASE x.cancelled /\ Go(o, "done")
    <3>1. ~Listed(o)
      BY <1>1, <2>1 DEF Fits
    <3>2. QED
      BY <1>1, <1>6, <2>1, <3>1, TableGo DEF Starts, Opening, Ended
  <2>2. CASE Go(o, "waiting") \/ Go(o, "broken")
    BY <1>1, <1>6, <2>2, TableGo DEF Starts, Opening, Pumping, Ended
  <2>3. QED
    BY <1>6, <2>1, <2>2 DEF Starts
<1>7. ASSUME NEW place \in Pumping, x.at \in Pumping,
             NEW c \in 0 .. MaxCredit, NEW a \in 0 .. MaxCredit, NEW n \in 0 .. CHUNK_SIZE,
             stream' = [stream EXCEPT ![o] = [x EXCEPT !.at = place, !.credit = c,
                                                       !.avail = a, !.n = n]],
             UNCHANGED tcpStreams
      PROVE  TableInv'
  <2> DEFINE y == [x EXCEPT !.at = place, !.credit = c, !.avail = a, !.n = n]
  <2>1. y \in Object /\ y.at = place /\ y.sid = x.sid /\ y.socket = x.socket
        /\ y.cancelled = x.cancelled /\ y.job = x.job
    BY <1>1, <1>7 DEF Object
  <2>2. /\ place \notin Opening \cup Ended \cup {"none", "connecting"}
        /\ x.at # "none" /\ x.at \notin Ended
    BY <1>7 DEF Pumping, Opening, Ended
  <2>3. stream' = [stream EXCEPT ![o] = y]
    BY <1>7
  <2> HIDE DEF y
  <2>4. QED
    BY <1>1, <1>7, <2>1, <2>2, <2>3, TableMove
<1>8. /\ x.credit \in 0 .. MaxCredit /\ x.avail \in 0 .. MaxCredit
      /\ x.n \in 0 .. CHUNK_SIZE /\ 0 \in 0 .. MaxCredit
  BY <1>1, CreditAssumption DEF Object
<1>9. CASE GetsCredit(o)
  <2>1. CASE stream' = [stream EXCEPT ![o].at = "reading", ![o].avail = stream[o].credit]
    <3>1. stream' = [stream EXCEPT ![o] = [x EXCEPT !.at = "reading", !.credit = x.credit,
                                           !.avail = x.credit, !.n = x.n]]
      <4>1. [x EXCEPT !.at = "reading", !.avail = x.credit]
              = [x EXCEPT !.at = "reading", !.credit = x.credit,
                          !.avail = x.credit, !.n = x.n]
        BY <1>1 DEF Object
      <4>2. stream' = [stream EXCEPT ![o] = [x EXCEPT !.at = "reading", !.avail = x.credit]]
        BY <2>1 DEF CreditInv
      <4>3. QED
        BY <4>1, <4>2
    <3>2. QED
      BY <1>7, <1>8, <1>9, <3>1 DEF GetsCredit, Pumping
  <2>2. CASE Go(o, "leaving")
    BY <1>1, <1>9, <2>2, TableGo DEF GetsCredit, Opening, Pumping, Ended
  <2>3. QED
    BY <1>9, <2>1, <2>2 DEF GetsCredit
<1>10. CASE Reads(o)
  <2>1. ASSUME NEW n \in 1 .. CHUNK_SIZE,
               stream' = [stream EXCEPT ![o].at = "consuming", ![o].n = n]
        PROVE  TableInv'
    <3>1. stream' = [stream EXCEPT ![o] = [x EXCEPT !.at = "consuming", !.credit = x.credit,
                                           !.avail = x.avail, !.n = n]]
      <4>1. [x EXCEPT !.at = "consuming", !.n = n]
              = [x EXCEPT !.at = "consuming", !.credit = x.credit,
                          !.avail = x.avail, !.n = n]
        BY <1>1 DEF Object
      <4>2. stream' = [stream EXCEPT ![o] = [x EXCEPT !.at = "consuming", !.n = n]]
        BY <2>1 DEF CreditInv
      <4>3. QED
        BY <4>1, <4>2
    <3>2. n \in 0 .. CHUNK_SIZE
      BY CreditAssumption
    <3>3. QED
      BY <1>7, <1>8, <1>10, <3>1, <3>2 DEF Reads, Pumping
  <2>2. CASE Go(o, "broken") \/ Go(o, "eof")
    BY <1>1, <1>10, <2>2, TableGo DEF Reads, Opening, Pumping, Ended
  <2>3. QED
    BY <1>10, <2>1, <2>2 DEF Reads
<1>11. CASE Consumes(o)
  <2>1. x.credit - x.n \in 0 .. MaxCredit
    BY <1>11, GoodTypes, CreditAssumption DEF CreditInv, Good, Consumes
  <2>2. stream' = [stream EXCEPT ![o] = [x EXCEPT !.at = "holding",
                     !.credit = x.credit - x.n, !.avail = 0, !.n = x.n]]
    <3>1. [x EXCEPT !.at = "holding", !.credit = x.credit - x.n, !.avail = 0]
            = [x EXCEPT !.at = "holding", !.credit = x.credit - x.n, !.avail = 0,
                        !.n = x.n]
      BY <1>1 DEF Object
    <3>2. stream' = [stream EXCEPT ![o] =
                       [x EXCEPT !.at = "holding", !.credit = x.credit - x.n, !.avail = 0]]
      BY <1>11 DEF Consumes, CreditInv
    <3>3. QED
      BY <3>1, <3>2
  <2>3. x.at \in Pumping /\ "holding" \in Pumping /\ UNCHANGED tcpStreams
    BY <1>11 DEF Consumes, Pumping
  <2> DEFINE k == x.credit - x.n
  <2> HIDE DEF k
  <2>4. k \in 0 .. MaxCredit
        /\ stream' = [stream EXCEPT ![o] = [x EXCEPT !.at = "holding", !.credit = k,
                                                    !.avail = 0, !.n = x.n]]
    BY <2>1, <2>2 DEF k
  <2>5. QED
    BY <1>7, <1>8, <2>3, <2>4
<1>12. CASE Forwards(o)
  BY <1>1, <1>12, TableOffer DEF Forwards, Ended
<1>13. CASE Leaves(o)
  <2> DEFINE y == [x EXCEPT !.socket = "closed", !.at = "done"]
  <2>1. y.sid = x.sid /\ y.at = "done" /\ y.socket = "closed"
    BY <1>1 DEF Object
  <2>2. stream' = [stream EXCEPT ![o] = y]
    BY <1>13 DEF Leaves, CreditInv
  <2> HIDE DEF y
  <2>3. Fits(y, FALSE, Crossed(o))
    BY <2>1 DEF Fits, Opening
  <2>4. o <= made
    BY <1>13, ListedMade DEF Leaves
  <2>5. QED
    BY <1>1, <1>13, <2>1, <2>2, <2>3, <2>4, TableRemove DEF Leaves, Ended
<1>14. QED
  BY <1>2, <1>3, <1>4, <1>5, <1>6, <1>9, <1>10, <1>11, <1>12, <1>13 DEF Runs, Receives

LEMMA TableInit == Init => TableInv
<1> SUFFICES ASSUME Init PROVE TableInv
  OBVIOUS
<1>1. made = 0 /\ \A o \in Streams : stream[o] = Unused
  BY DEF Init
<1>2. \A o \in Streams : ~(o <= 0)
  BY DEF Streams
<1>3. \A o \in Streams : ~Listed(o)
  BY StreamsAssumption DEF Init, Listed, NoStream, Streams
<1>4. \A c \in BOOLEAN : Fits(Unused, FALSE, c)
  BY DEF Fits, Unused, Opening
<1>5. QED
  BY <1>1, <1>2, <1>3, <1>4 DEF Init, TableInv, Unused, Fits

LEMMA TableStep ==
    ASSUME CreditInv, TableInv, [Next]_vars
    PROVE  TableInv'
<1>1. CASE Shutdown
  BY <1>1, TableShutdown
<1>2. ASSUME NEW s \in Sids, Reader(s) PROVE TableInv'
  BY <1>2, TableReader
<1>3. ASSUME NEW o \in Streams, Runs(o) \/ Receives(o) PROVE TableInv'
  BY <1>3, TableRuns
<1>4. CASE UNCHANGED <<tcpStreams, made, crossed, stream>> /\ (reader' = "over" => reader = "over")
  BY <1>4 DEF TableInv, Listed, Crossed, Streams
<1>5. QED
  BY <1>1, <1>2, <1>3, <1>4 DEF Next, OnHello, OnPing, OnFatal, Drain, vars

\* The table and the sockets agree for any number of streams, whichever ids the
\* peer uses and how often, but for the ids it opens again while an earlier stream
\* is coming to its end.  What happens to these is shown by the run mux_id_reuse.
THEOREM TableAlwaysAgrees == Spec => []TableAgrees
<1>1. CreditInv /\ TableInv => TableAgrees
  <2> SUFFICES ASSUME CreditInv, TableInv PROVE TableAgrees
    OBVIOUS
  <2>1. ASSUME NEW s \in Sids, tcpStreams[s] # NoStream
        PROVE  stream[tcpStreams[s]].sid = s /\ stream[tcpStreams[s]].at \notin Ended
    <3>1. tcpStreams[s] \in Streams /\ Listed(tcpStreams[s])
      BY <2>1, ListedObject DEF Listed
    <3>2. QED
      BY <2>1, <3>1 DEF TableInv, Fits
  <2>2. QED
    BY <2>1 DEF TableInv, Fits, Crossed, TableAgrees
<1>2. CreditInv /\ TableInv /\ [Next]_vars => TableInv'
  BY TableStep
<1>3. QED
  BY <1>1, <1>2, TableInit, CreditInit, CreditStep, PTL DEF Spec

\* A stream leaves the table only with its own socket closed, but for such ids.
LEMMA RemovedClosed ==
    ASSUME CreditInv, TableInv, [Next]_vars, NEW s \in Sids \ crossed,
           tcpStreams[s] # NoStream, tcpStreams'[s] # tcpStreams[s]
    PROVE  stream'[tcpStreams[s]].socket = "closed"
<1> DEFINE o == tcpStreams[s]
<1>1. /\ o \in Streams /\ Listed(o) /\ stream[o].sid = s /\ o <= made
      /\ stream[o] \in Object /\ stream[o].at \notin Ended /\ ~Crossed(o)
  BY ListedObject, ListedMade DEF Listed, TableInv, CreditInv, Fits, Crossed
<1>2. CASE Shutdown
  BY <1>1, <1>2 DEF Shutdown, Reset, Object
<1>3. ASSUME NEW r \in Sids, Reader(r) PROVE stream'[o].socket = "closed"
  <2>1. CASE OpenStream(r) /\ tcpStreams[r] = NoStream
    BY <1>1, <2>1 DEF OpenStream, CreditInv
  <2>2. CASE Discard(tcpStreams[r], r)
    <3>1. r = s
      BY <2>2 DEF Discard, OnClosed, CreditInv
    <3>2. stream' = [stream EXCEPT ![o] = Reset(o)]
      BY <2>2, <3>1 DEF Discard
    <3>3. QED
      BY <1>1, <3>2 DEF Reset, Object, CreditInv
  <2>3. QED
    BY <1>3, <2>1, <2>2
       DEF Reader, OnOpen, OnData, OnCloseWr, OnRst, OnWindow
<1>4. ASSUME NEW p \in Streams, Runs(p) \/ Receives(p)
      PROVE  stream'[o].socket = "closed"
  <2>1. Leaves(p)
    BY <1>4 DEF Runs, Receives, Connects, Acks, Launches, SetsJob, Starts, GetsCredit,
                Reads, Consumes, Forwards
  <2>2. stream[p].sid = s
    BY <2>1 DEF Leaves, OnClosed, CreditInv
  <2>3. p <= made /\ stream[p].at \notin Ended
    BY <2>1, ListedMade DEF Leaves, Ended
  <2>4. p = o
    BY <1>1, <2>2, <2>3 DEF TableInv
  <2>5. QED
    BY <1>1, <2>1, <2>4 DEF Leaves, Object, CreditInv
<1>5. CASE UNCHANGED tcpStreams
  BY <1>5
<1>6. QED
  BY <1>2, <1>3, <1>4, <1>5 DEF Next, OnHello, OnPing, OnFatal, Drain, vars

\* No stream is taken out of the table by another, unless its id was opened again
\* too early: the condition without which the run mux_id_reuse refutes it.
THEOREM OnlyItselfIsRemoved == Spec => [][\A s \in Sids \ crossed : LeavesClosed(s)]_vars
<1>1. CreditInv /\ TableInv /\ [Next]_vars =>
        [\A s \in Sids \ crossed : LeavesClosed(s)]_vars
  BY RemovedClosed DEF LeavesClosed
<1>2. CreditInv /\ TableInv /\ [Next]_vars => TableInv'
  BY TableStep
<1>3. QED
  BY <1>1, <1>2, TableInit, CreditInit, CreditStep, PTL DEF Spec

------------------------------------------------------------------------------
(***************************************************************************)
(* What is out of the table is not left to wait.  With the invariant of    *)
(* the table the property is inductive as it stands: a stream that may     *)
(* wait has connected, and only one that is listed goes so far.            *)
(***************************************************************************)
May == Pumping \ {"launched", "broken", "leaving"}
Woken(x, l) == x.socket = "closed" /\ (x.at \in May => x.cancelled \/ l.missed)

\* A step of one object.
LEMMA WokenOne ==
    ASSUME UnlistedIsWoken, NEW o \in Streams, UNCHANGED <<made, crossed>>,
           stream'[o].sid = stream[o].sid,
           Listed(o)' \/ Crossed(o) \/ Woken(stream'[o], ledger'[o]),
           \A p \in Streams : p # o =>
             /\ stream'[p] = stream[p] /\ ledger'[p].missed = ledger[p].missed
             /\ Listed(p) /\ ~Crossed(p) => Listed(p)'
    PROVE  UnlistedIsWoken'
<1>1. Streams' = Streams
  BY DEF Streams
<1>2. \A p \in Streams : p <= made /\ ~Listed(p)' /\ ~Crossed(p) =>
        Woken(stream'[p], ledger'[p])
  BY DEF UnlistedIsWoken, Woken, May, Crossed
<1>3. QED
  BY <1>1, <1>2 DEF UnlistedIsWoken, Woken, May, Crossed

\* A reset closes, and cancels or misses a pump that may wait.
LEMMA WokenDiscard ==
    ASSUME CreditInv, TableInv, UnlistedIsWoken, NEW s \in Sids,
           tcpStreams[s] # NoStream, Discard(tcpStreams[s], s), UNCHANGED <<made, crossed>>
    PROVE  UnlistedIsWoken'
<1> DEFINE o == tcpStreams[s]
<1>1. /\ o \in Streams /\ Listed(o) /\ stream[o].sid = s /\ o <= made
      /\ stream[o] \in Object /\ ledger[o] \in Ledger /\ stream[o].at \notin Ended
  BY ListedObject, ListedMade DEF Listed, TableInv, CreditInv, Fits
<1>2. /\ stream' = [stream EXCEPT ![o] = Reset(o)]
      /\ ledger' = [ledger EXCEPT ![o].missed = @ \/ Missed(o)]
      /\ OnClosed(stream[o].sid)
  BY <1>1 DEF Discard
<1>3. /\ stream'[o] = Reset(o) /\ ledger'[o].missed = (ledger[o].missed \/ Missed(o))
      /\ \A p \in Streams : p # o => stream'[p] = stream[p] /\ ledger'[p] = ledger[p]
  BY <1>1, <1>2 DEF CreditInv, Ledger
<1>4. /\ Reset(o).socket = "closed" /\ Reset(o).at = stream[o].at
      /\ Reset(o).sid = stream[o].sid
      /\ Reset(o).cancelled = (stream[o].cancelled \/ stream[o].job)
  BY <1>1 DEF Reset, Object
<1>5. Woken(stream'[o], ledger'[o])
  BY <1>3, <1>4 DEF Woken, May, Missed
<1>6. QED
  BY <1>1, <1>2, <1>3, <1>4, <1>5, ListedKept, WokenOne

LEMMA WokenReader ==
    ASSUME CreditInv, TableInv, UnlistedIsWoken, NEW s \in Sids, Reader(s)
    PROVE  UnlistedIsWoken'
<1> DEFINE o == tcpStreams[s]
<1>1. CASE o # NoStream /\ Discard(o, s) /\ UNCHANGED <<made, crossed>>
  BY <1>1, WokenDiscard
<1>2. CASE UNCHANGED <<tcpStreams, made, crossed, stream, ledger>>
  BY <1>2 DEF UnlistedIsWoken, Listed, Streams
<1>3. ASSUME o # NoStream, UNCHANGED <<tcpStreams, made, crossed>>,
             stream'[o].sid = stream[o].sid,
             \A p \in Streams : p # o => stream'[p] = stream[p] /\ ledger'[p] = ledger[p]
      PROVE  UnlistedIsWoken'
  <2>1. o \in Streams /\ Listed(o)
    BY <1>3, ListedObject DEF Listed
  <2>2. \A p \in Streams : Listed(p)' <=> Listed(p)
    BY <1>3 DEF Listed
  <2>3. QED
    BY <1>3, <2>1, <2>2, WokenOne
<1>4. CASE o = NoStream /\ OpenStream(s)
  <2>1. PICK n \in Streams : n = made + 1 /\ made' = n /\ made \in Nat
    BY <1>4, StreamsAssumption DEF OpenStream, CreditInv, Streams
  <2>2. /\ \A p \in Streams : p # n => stream'[p] = stream[p] /\ ledger'[p] = ledger[p]
        /\ tcpStreams' = [tcpStreams EXCEPT ![s] = n]
    BY <1>4, <2>1 DEF OpenStream, CreditInv
  <2>3. Listed(n)'
    BY <2>2 DEF Listed, CreditInv
  <2>4. \A p \in Streams : Listed(p) => Listed(p)'
    <3>1. \A p \in Streams : p # NoStream
      BY StreamsAssumption DEF Streams, NoStream
    <3>2. QED
      BY <1>4, <2>2, <3>1 DEF Listed, CreditInv
  <2>5. \A p \in Streams : p <= n /\ p # n => p <= made
    BY <2>1 DEF Streams
  <2>6. Streams' = Streams
    BY DEF Streams
  <2>7. \A p \in Streams : p <= n /\ ~Listed(p)' => p # n /\ p <= made /\ ~Listed(p)
    BY <2>3, <2>4, <2>5
  <2>8. \A r : r \in crossed => r \in crossed'
    BY <1>4 DEF OpenStream
  <2>9. QED
    BY <2>1, <2>2, <2>6, <2>7, <2>8 DEF UnlistedIsWoken
<1>5. CASE OnOpen(s)
  BY <1>2, <1>4, <1>5 DEF OnOpen
<1>6. CASE OnData(s)
  <2> USE ListedObject DEF Object
  <2>1. CASE stream' = Count(o) /\ UNCHANGED <<tcpStreams, ledger>> /\ o # NoStream
    BY <1>3, <1>6, <2>1 DEF OnData, Count, CreditInv
  <2>2. QED
    BY <1>1, <1>2, <1>6, <2>1 DEF OnData
<1>7. CASE OnCloseWr(s)
  BY <1>3, <1>7 DEF OnCloseWr, CreditInv
<1>8. CASE OnWindow(s)
  BY <1>3, <1>8 DEF OnWindow, CreditInv
<1>9. CASE OnRst(s)
  BY <1>1, <1>9 DEF OnRst
<1>10. QED
  BY <1>5, <1>6, <1>7, <1>8, <1>9 DEF Reader

LEMMA WokenShutdown ==
    ASSUME CreditInv, UnlistedIsWoken, Shutdown
    PROVE  UnlistedIsWoken'
<1>1. ASSUME NEW o \in Streams, o <= made, ~Crossed(o)
      PROVE  Woken(stream'[o], ledger'[o])
  <2>1. stream[o] \in Object
    BY DEF CreditInv
  <2>2. /\ stream'[o].cancelled
        /\ stream'[o].socket = IF Listed(o) THEN "closed" ELSE stream[o].socket
    BY <2>1 DEF Shutdown, Reset, Object
  <2>3. QED
    BY <1>1, <2>2 DEF Woken, UnlistedIsWoken, Crossed
<1>2. Streams' = Streams /\ UNCHANGED <<made, crossed>>
  BY DEF Streams, Shutdown
<1>3. \A o \in Streams : stream'[o].sid = stream[o].sid
  BY DEF Shutdown, Reset, Object, CreditInv
<1>4. QED
  BY <1>1, <1>2, <1>3 DEF UnlistedIsWoken, Woken, May, Crossed

\* A coroutine that goes on keeps what was done to it, and comes to wait only
\* through a socket that is up.
Onward(o) ==
    /\ stream'[o].sid = stream[o].sid
    /\ stream'[o].cancelled = stream[o].cancelled
    /\ stream[o].socket = "closed" => stream'[o].socket = "closed"
    /\ stream'[o].at \in May => stream[o].at \in May \/ stream[o].socket = "up"

LEMMA OfferOnward ==
    ASSUME CreditInv, NEW o \in Streams, NEW next, Offer(o, next),
           next \notin May \/ stream[o].at \in May
    PROVE  Onward(o)
<1>1. stream[o] \in Object
  BY DEF CreditInv
<1>2. CASE stream' = [stream EXCEPT ![o].at = next, ![o].n = 0]
  BY <1>1, <1>2 DEF Onward, Object, CreditInv
<1>3. CASE Go(o, IF stream[o].at \in Opening THEN "done" ELSE "leaving")
  BY <1>1, <1>3 DEF Onward, Object, CreditInv, Go, May, Pumping
<1>4. CASE stream' = [stream EXCEPT ![o].at = "failed",
                ![o].socket = IF stream[o].at \in Opening THEN @ ELSE "closed"]
  BY <1>1, <1>4 DEF Onward, Object, CreditInv, May, Pumping
<1>5. QED
  BY <1>2, <1>3, <1>4 DEF Offer

LEMMA RunsOnward ==
    ASSUME CreditInv, NEW o \in Streams, Runs(o) \/ Receives(o)
    PROVE  Onward(o)
<1>1. stream[o] \in Object
  BY DEF CreditInv
<1> USE DEF May, Pumping
<1>2. CASE Connects(o) \/ Launches(o) \/ Leaves(o)
  BY <1>1, <1>2 DEF Connects, Launches, Leaves, Go, Onward, Object, CreditInv
<1>3. CASE Acks(o) \/ Forwards(o)
  BY <1>3, OfferOnward DEF Acks, Forwards
<1>4. CASE SetsJob(o)
  BY <1>1, <1>4 DEF SetsJob, Onward, Object, CreditInv
<1>5. CASE Starts(o)
  BY <1>1, <1>5 DEF Starts, Go, Onward, Object, CreditInv
<1>6. CASE GetsCredit(o)
  BY <1>1, <1>6 DEF GetsCredit, Go, Onward, Object, CreditInv
<1>7. CASE Reads(o)
  BY <1>1, <1>7 DEF Reads, Go, Onward, Object, CreditInv
<1>8. CASE Consumes(o)
  BY <1>1, <1>8 DEF Consumes, Onward, Object, CreditInv
<1>9. QED
  BY <1>2, <1>3, <1>4, <1>5, <1>6, <1>7, <1>8 DEF Runs, Receives

LEMMA WokenRuns ==
    ASSUME CreditInv, TableInv, UnlistedIsWoken, NEW o \in Streams, Runs(o) \/ Receives(o)
    PROVE  UnlistedIsWoken'
<1>1. Onward(o) /\ UNCHANGED <<made, crossed>>
  BY RunsOnward DEF Runs, Receives
<1>2. /\ \A p \in Streams : p # o => stream'[p] = stream[p]
      /\ \A p \in Streams : ledger'[p].missed = ledger[p].missed
  <2>1. \A p \in Streams : p # o => stream'[p] = stream[p]
    BY DEF Runs, Receives, Connects, Acks, Launches, SetsJob, Starts, GetsCredit, Reads,
           Consumes, Forwards, Leaves, Offer, Go, CreditInv
  <2>2. UNCHANGED ledger \/ \E e : ledger' = [ledger EXCEPT ![o].owed = e]
    BY DEF Runs, Receives, Connects, Acks, Launches, SetsJob, Starts, GetsCredit, Reads,
           Consumes, Forwards, Leaves
  <2>3. \A p \in Streams : ledger'[p].missed = ledger[p].missed
    BY <2>2 DEF CreditInv, Ledger
  <2>4. QED
    BY <2>1, <2>3
<1>3. CASE UNCHANGED tcpStreams
  <2>1. \A p \in Streams : Listed(p)' <=> Listed(p)
    BY <1>3 DEF Listed
  <2>2. ~Listed(o) /\ o <= made /\ ~Crossed(o) => Woken(stream'[o], ledger'[o])
    BY <1>1, <1>2 DEF UnlistedIsWoken, Woken, Onward, May, Crossed
  <2>3. o <= made
    BY ListedMade DEF Runs, Receives, Connects, Acks, Launches, SetsJob, Starts,
                      GetsCredit, Reads, Consumes, Forwards, Leaves, Pumping
  <2>4. QED
    BY <1>1, <1>2, <2>1, <2>2, <2>3, WokenOne DEF Onward
<1>4. CASE Leaves(o)
  <2>1. o <= made /\ stream[o] \in Object /\ stream[o].at \notin Ended
    BY <1>4, ListedMade DEF Leaves, CreditInv, Ended
  <2>2. Woken(stream'[o], ledger'[o])
    BY <1>4, <2>1 DEF Leaves, Woken, Object, CreditInv, May, Pumping
  <2>3. QED
    BY <1>1, <1>2, <1>4, <2>1, <2>2, ListedKept, WokenOne DEF Leaves, Onward
<1>5. QED
  BY <1>3, <1>4 DEF Runs, Receives, Connects, Acks, Launches, SetsJob, Starts, GetsCredit,
                    Reads, Consumes, Forwards

\* A stream that has left the table is not left waiting for what can no longer
\* reach it, for any number of streams, any windows and ids that come again, but for
\* the ids that were opened too early: what UnlistedEnds, which a run checks, rests on
\* beside fairness.
THEOREM UnlistedIsAlwaysWoken == Spec => []UnlistedIsWoken
<1>1. Init => UnlistedIsWoken
  BY DEF Init, UnlistedIsWoken, Streams
<1>2. CreditInv /\ TableInv /\ UnlistedIsWoken /\ [Next]_vars => UnlistedIsWoken'
  <2>1. UNCHANGED <<tcpStreams, made, crossed, stream, ledger>> /\ UnlistedIsWoken
          => UnlistedIsWoken'
    BY DEF UnlistedIsWoken, Listed, Streams
  <2>2. QED
    BY <2>1, WokenReader, WokenShutdown, WokenRuns
       DEF Next, OnHello, OnPing, OnFatal, Drain, vars
<1>3. CreditInv /\ TableInv /\ [Next]_vars => TableInv'
  BY TableStep
<1>4. QED
  BY <1>1, <1>2, <1>3, TableInit, CreditInit, CreditStep, PTL DEF Spec

==============================================================================
