--------------------------- MODULE OperatorProofs ---------------------------
(***************************************************************************)
(* Proofs about Link, for any set of server channels, and about Operator,  *)
(* for any number of callers, slots and peers.  Operator implements Link,  *)
(* so what is proved of the link holds while the operator's commands and   *)
(* the phone's pairing requests come in.                                   *)
(***************************************************************************)
EXTENDS Operator, TLAPS, FiniteSetTheorems

\* The types hold for any set of server channels.
THEOREM LinkTypeCorrect == Spec => []TypeOK
<1>1. Init => TypeOK
  BY DEF Init, TypeOK
<1>2. TypeOK /\ [Next]_vars => TypeOK'
  <2> SUFFICES ASSUME TypeOK, [Next]_vars PROVE TypeOK'
    OBVIOUS
  <2> USE DEF TypeOK
  <2>1. CASE HciWorking
    BY <2>1 DEF HciWorking, StartQuery
  <2>2. CASE SdpFound
    BY <2>2 DEF SdpFound
  <2>3. ASSUME NEW status \in 0 .. 1, NEW rc \in 0 .. 1, SdpComplete(status, rc)
        PROVE  TypeOK'
    BY <2>3 DEF SdpComplete
  <2>4. CASE ReconnectTimer
    BY <2>4 DEF ReconnectTimer, StartQuery
  <2>5. CASE ChannelOpened \/ ChannelRefused \/ ChannelClosed
    BY <2>5 DEF ChannelOpened, ChannelRefused, ChannelClosed
  <2>6. ASSUME NEW sent \in BOOLEAN, TestTcp(sent) PROVE TypeOK'
    BY <2>6 DEF TestTcp
  <2>7. CASE TestEnds \/ ServiceMoves
    BY <2>7 DEF TestEnds, ServiceMoves
  <2>8. CASE UNCHANGED vars
    BY <2>8 DEF vars
  <2>9. QED
    BY <2>1, <2>2, <2>3, <2>4, <2>5, <2>6, <2>7, <2>8 DEF Next
<1>3. QED
  BY <1>1, <1>2, PTL DEF Spec

------------------------------------------------------------------------------
(***************************************************************************)
(* The inductive invariant.  Before the controller works nothing goes on,  *)
(* which keeps the first query from meeting another; and what a running    *)
(* query has found is what it reported, because the reconnect timer has    *)
(* forgotten the rest.                                                     *)
(***************************************************************************)
IdleUntilWorking ==
    ~working => /\ ~query /\ ~armed /\ ~open
                /\ opening = NoChannel /\ found = NoChannel

FoundIsReported == query /\ found # NoChannel => found \in reported

LinkInv ==
    /\ TypeOK
    /\ IdleUntilWorking
    /\ FoundIsReported
    /\ OneAttempt
    /\ FreshChannel
    /\ StallsOnlyOnError
    /\ TestOnOpenChannel

LEMMA LinkInvInit == Init => LinkInv
  BY DEF Init, LinkInv, TypeOK, IdleUntilWorking, FoundIsReported, OneAttempt,
         FreshChannel, StallsOnlyOnError, TestOnOpenChannel

LEMMA LinkInvStep == LinkInv /\ TypeOK' /\ [Next]_vars => LinkInv'
<1> SUFFICES ASSUME LinkInv, TypeOK', [Next]_vars PROVE LinkInv'
  OBVIOUS
<1> USE DEF LinkInv, IdleUntilWorking, FoundIsReported, OneAttempt, FreshChannel,
            StallsOnlyOnError, TestOnOpenChannel, TypeOK
<1>1. CASE HciWorking
  BY <1>1 DEF HciWorking, StartQuery
<1>2. CASE SdpFound
  BY <1>2 DEF SdpFound
<1>3. ASSUME NEW status \in 0 .. 1, NEW rc \in 0 .. 1, SdpComplete(status, rc)
      PROVE  LinkInv'
  BY <1>3 DEF SdpComplete
<1>4. CASE ReconnectTimer
  BY <1>4 DEF ReconnectTimer, StartQuery
<1>5. CASE ChannelOpened
  BY <1>5 DEF ChannelOpened
<1>6. CASE ChannelRefused
  BY <1>6 DEF ChannelRefused
<1>7. CASE ChannelClosed
  BY <1>7 DEF ChannelClosed
<1>8. ASSUME NEW sent \in BOOLEAN, TestTcp(sent) PROVE LinkInv'
  BY <1>8 DEF TestTcp
<1>9. CASE TestEnds
  BY <1>9 DEF TestEnds
<1>10. CASE ServiceMoves
  BY <1>10 DEF ServiceMoves
<1>11. CASE UNCHANGED vars
  BY <1>11 DEF vars
<1>12. QED
  BY <1>1, <1>2, <1>3, <1>4, <1>5, <1>6, <1>7, <1>8, <1>9, <1>10, <1>11 DEF Next

LEMMA LinkInvariant == Spec => []LinkInv
  BY LinkInvInit, LinkInvStep, LinkTypeCorrect, PTL DEF Spec

------------------------------------------------------------------------------
\* Of a query, a connect, an open channel and an armed timer the daemon has one
\* at a time, in whatever order BTstack's events come.
THEOREM OneAttemptAtATime == Spec => []OneAttempt
<1>1. LinkInv => OneAttempt
  BY DEF LinkInv
<1>2. QED
  BY <1>1, LinkInvariant, PTL

\* The daemon connects to a server channel the last query reported, wherever
\* the phone's service has moved in the meantime.
THEOREM ChannelIsFresh == Spec => []FreshChannel
<1>1. LinkInv => FreshChannel
  BY DEF LinkInv
<1>2. QED
  BY <1>1, LinkInvariant, PTL

\* Only an error that nobody handles, of a connect or of the start of a query,
\* leaves the daemon without a next attempt.
THEOREM StallMeansError == Spec => []StallsOnlyOnError
<1>1. LinkInv => StallsOnlyOnError
  BY DEF LinkInv
<1>2. QED
  BY <1>1, LinkInvariant, PTL

\* No test stream outlives its channel.
THEOREM TestNeedsChannel == Spec => []TestOnOpenChannel
<1>1. LinkInv => TestOnOpenChannel
  BY DEF LinkInv
<1>2. QED
  BY <1>1, LinkInvariant, PTL

------------------------------------------------------------------------------
\* What a command that is answered does: a step of Link or none, and the test's
\* caller changes only with the test.
LEMMA CommandStep ==
    ASSUME NEW c \in Callers, Command(c)
    PROVE  /\ \/ UNCHANGED <<vars, tester>>
              \/ TestTcp(FALSE) /\ UNCHANGED tester
              \/ TestTcp(TRUE) /\ tester' = c
           /\ \/ UNCHANGED <<pending, timer>>
              \/ pending' = NoPeer /\ timer' = NoPeer
<1>1. CASE Confirm(c)
  BY <1>1 DEF Confirm, PairAnswered, pairVars
<1>2. CASE Advertise(c) \/ Dropped(c)
  BY <1>2 DEF Advertise, Dropped, pairVars
<1>3. CASE Test(c)
  BY <1>3 DEF Test, pairVars
<1>4. QED
  BY <1>1, <1>2, <1>3 DEF Command

\* And so does every step of a caller.
LEMMA CallerStep ==
    ASSUME NEW c \in Callers,
           Calls(c) \/ Sends(c) \/ Leaves(c) \/ DoAccept(c) \/ CtlDrain(c)
    PROVE  /\ \/ UNCHANGED <<vars, tester>>
              \/ TestTcp(FALSE) /\ UNCHANGED tester
              \/ TestTcp(TRUE) /\ tester' = c
           /\ \/ UNCHANGED <<pending, timer>>
              \/ pending' = NoPeer /\ timer' = NoPeer
<1>1. CASE Command(c)
  BY <1>1, CommandStep
<1>2. CASE UNCHANGED <<vars, tester, pairVars, g_discoverable>>
  BY <1>2 DEF pairVars
<1>3. QED
  BY <1>1, <1>2 DEF Calls, Sends, Leaves, DoAccept, CtlDrain

LEMMA OperatorStep == [OperatorNext]_allVars => [Next]_vars
<1> SUFFICES ASSUME [OperatorNext]_allVars PROVE [Next]_vars
  OBVIOUS
<1>1. CASE LinkStep
  BY <1>1 DEF LinkStep, Next
<1>2. CASE TestStep
  BY <1>2 DEF TestStep, Next
<1>3. CASE Pairing
  BY <1>3 DEF Pairing
<1>4. ASSUME NEW c \in Callers,
             Calls(c) \/ Sends(c) \/ Leaves(c) \/ DoAccept(c) \/ CtlDrain(c)
      PROVE  [Next]_vars
  <2>1. UNCHANGED vars \/ TestTcp(FALSE) \/ TestTcp(TRUE)
    BY <1>4, CallerStep
  <2>2. QED
    BY <2>1 DEF Next
<1>5. CASE UNCHANGED allVars
  BY <1>5 DEF allVars
<1>6. QED
  BY <1>1, <1>2, <1>3, <1>4, <1>5 DEF OperatorNext

\* The operator's commands and the pairing requests leave the link what Link
\* says it is: a step of Operator is a step of Link or leaves it alone.
THEOREM OperatorImplementsLink == OperatorSpec => Spec
<1>1. OperatorInit => Init
  BY DEF OperatorInit
<1>2. QED
  BY <1>1, OperatorStep, PTL DEF OperatorSpec, Spec

\* What is proved of the link holds with the operator at work.
THEOREM LinkHoldsWithOperator ==
    OperatorSpec => [](OneAttempt /\ FreshChannel /\ StallsOnlyOnError
                         /\ TestOnOpenChannel)
  BY OperatorImplementsLink, OneAttemptAtATime, ChannelIsFresh, StallMeansError,
     TestNeedsChannel, PTL

------------------------------------------------------------------------------
\* The pair timeout runs while a request is pending and for that request, in
\* whatever order requests, answers and timeouts come.
THEOREM TimerIsOfItsOwn == OperatorSpec => []TimerOfItsOwn
<1>1. OperatorInit => TimerOfItsOwn
  BY DEF OperatorInit, TimerOfItsOwn
<1>2. TimerOfItsOwn /\ [OperatorNext]_allVars => TimerOfItsOwn'
  <2> SUFFICES ASSUME TimerOfItsOwn, [OperatorNext]_allVars PROVE TimerOfItsOwn'
    OBVIOUS
  <2>1. CASE LinkStep \/ TestStep \/ UNCHANGED allVars
    BY <2>1 DEF LinkStep, TestStep, allVars, operatorVars, pairVars, TimerOfItsOwn
  <2>2. CASE Pairing
    BY <2>2 DEF Pairing, PairTimeout, PairRequest, Withdraw, TimerOfItsOwn
  <2>3. ASSUME NEW c \in Callers,
               Calls(c) \/ Sends(c) \/ Leaves(c) \/ DoAccept(c) \/ CtlDrain(c)
        PROVE  TimerOfItsOwn'
    <3>1. UNCHANGED <<pending, timer>> \/ (pending' = NoPeer /\ timer' = NoPeer)
      BY <2>3, CallerStep
    <3>2. QED
      BY <3>1 DEF TimerOfItsOwn
  <2>4. QED
    BY <2>1, <2>2, <2>3 DEF OperatorNext
<1>3. QED
  BY <1>1, <1>2, PTL DEF OperatorSpec

\* The socket of a test is held while the test goes on and no longer: a caller
\* of test-tcp always hears of its end.
THEOREM TestAlwaysHasReader == OperatorSpec => []TestHasReader
<1>1. OperatorInit => TestHasReader
  BY DEF OperatorInit, Init, TestHasReader
<1>2. TestHasReader /\ [OperatorNext]_allVars => TestHasReader'
  <2> SUFFICES ASSUME TestHasReader, [OperatorNext]_allVars PROVE TestHasReader'
    OBVIOUS
  <2>1. CASE LinkStep
    <3>1. UNCHANGED <<testing, tester>>
      BY <2>1 DEF LinkStep, operatorVars, HciWorking, SdpFound, ReconnectTimer,
                  ChannelOpened, ChannelRefused, ServiceMoves, SdpComplete
    <3>2. QED
      BY <3>1 DEF TestHasReader
  <2>2. CASE TestStep
    BY <2>2 DEF TestStep, ChannelClosed, TestEnds, TestOver, TestHasReader
  <2>3. CASE Pairing \/ UNCHANGED allVars
    BY <2>3 DEF Pairing, allVars, operatorVars, vars, TestHasReader
  <2>4. ASSUME NEW c \in Callers,
               Calls(c) \/ Sends(c) \/ Leaves(c) \/ DoAccept(c) \/ CtlDrain(c)
        PROVE  TestHasReader'
    <3>1. CASE UNCHANGED <<vars, tester>>
      BY <3>1 DEF vars, TestHasReader
    <3>2. CASE TestTcp(FALSE) /\ UNCHANGED tester
      BY <3>2 DEF TestTcp, TestHasReader
    <3>3. CASE TestTcp(TRUE) /\ tester' = c
      BY <3>3, OperatorAssumption DEF TestTcp, TestHasReader
    <3>4. QED
      BY <2>4, <3>1, <3>2, <3>3, CallerStep
  <2>5. QED
    BY <2>1, <2>2, <2>3, <2>4 DEF OperatorNext
<1>3. QED
  BY <1>1, <1>2, PTL DEF OperatorSpec

------------------------------------------------------------------------------
(***************************************************************************)
(* The types, and with them the bound on the callers that are held.        *)
(***************************************************************************)
CallersType ==
    /\ caller \in [Callers -> [at : {"away", "backlog", "held", "over"}, line : Lines]]
    /\ Cardinality(Held) <= CTL_MAX_CLIENTS

RestType ==
    /\ tester \in Callers \cup {NoCaller}
    /\ pending \in Peers \cup {NoPeer} /\ timer \in Peers \cup {NoPeer}
    /\ asking \subseteq Peers
    /\ asks \in 0 .. MaxAsks
    /\ g_discoverable \in BOOLEAN

\* Who is held after a step of caller c: none but who was, or c in a free slot.
LEMMA HeldAfter ==
    ASSUME CallersType, NEW c \in Callers, NEW x,
           x \in [at : {"away", "backlog", "held", "over"}, line : Lines],
           caller' = [caller EXCEPT ![c] = x],
           \/ x.at # "held" \/ caller[c].at = "held"
           \/ Cardinality(Held) < CTL_MAX_CLIENTS
    PROVE  CallersType'
<1>1. caller' \in [Callers -> [at : {"away", "backlog", "held", "over"}, line : Lines]]
  BY DEF CallersType
<1>2. \A d \in Callers : caller'[d] = IF d = c THEN x ELSE caller[d]
  BY DEF CallersType
<1>3. IsFiniteSet(Held) /\ Cardinality(Held) \in Nat
  BY FS_Subset, FS_CardinalityType, OperatorAssumption DEF Held
<1>4. Held' \subseteq Callers
  BY DEF Held
<1>5. CASE x.at # "held" \/ caller[c].at = "held"
  <2>1. Held' \in SUBSET Held
    BY <1>2, <1>5 DEF Held
  <2>2. IsFiniteSet(Held') /\ Cardinality(Held') <= Cardinality(Held)
    BY <1>3, <2>1, FS_Subset
  <2>3. Cardinality(Held') \in Nat
    BY <2>2, FS_CardinalityType
  <2>4. QED
    BY <1>1, <1>3, <2>2, <2>3, OperatorAssumption DEF CallersType
<1>6. CASE Cardinality(Held) < CTL_MAX_CLIENTS
  <2>1. Held' \in SUBSET (Held \cup {c})
    BY <1>2 DEF Held
  <2>2. IsFiniteSet(Held \cup {c}) /\ Cardinality(Held \cup {c}) <= Cardinality(Held) + 1
    <3> DEFINE n == Cardinality(Held)
               k == Cardinality(Held \cup {c})
    <3>1. IsFiniteSet(Held \cup {c}) /\ k = IF c \in Held THEN n ELSE n + 1
      BY <1>3, FS_AddElement
    <3>2. n \in Nat
      BY <1>3
    <3> HIDE DEF n, k
    <3>3. k <= n + 1
      BY <3>1, <3>2
    <3>4. QED
      BY <3>1, <3>3 DEF n, k
  <2>3. IsFiniteSet(Held') /\ Cardinality(Held') <= Cardinality(Held \cup {c})
    BY <2>1, <2>2, FS_Subset
  <2>4. Cardinality(Held') \in Nat /\ Cardinality(Held \cup {c}) \in Nat
    BY <2>2, <2>3, FS_CardinalityType
  <2>5. QED
    BY <1>1, <1>3, <1>6, <2>2, <2>3, <2>4, OperatorAssumption DEF CallersType
<1>7. QED
  BY <1>5, <1>6

LEMMA AnsweredType ==
    ASSUME CallersType, NEW c \in Callers, Answered(c)
    PROVE  CallersType'
<1> DEFINE x == [at |-> "over", line |-> "none"]
<1>1. x \in [at : {"away", "backlog", "held", "over"}, line : Lines] /\ x.at # "held"
  BY DEF Lines
<1>2. caller' = [caller EXCEPT ![c] = x]
  BY DEF Answered
<1> HIDE DEF x
<1>3. QED
  BY <1>1, <1>2, HeldAfter

LEMMA CommandType ==
    ASSUME RestType, NEW c \in Callers, Command(c)
    PROVE  Answered(c) /\ RestType'
<1>1. CASE Confirm(c)
  <2>1. pending' \in Peers \cup {NoPeer} /\ timer' \in Peers \cup {NoPeer}
        /\ asking' \subseteq Peers /\ UNCHANGED <<asks, tester, g_discoverable>>
    BY <1>1 DEF Confirm, PairAnswered, pairVars, RestType
  <2>2. QED
    BY <1>1, <2>1 DEF Confirm, RestType
<1>2. CASE Advertise(c) \/ Dropped(c)
  BY <1>2 DEF Advertise, Dropped, pairVars, RestType
<1>3. CASE Test(c)
  BY <1>3 DEF Test, pairVars, RestType
<1>4. QED
  BY <1>1, <1>2, <1>3 DEF Command

LEMMA OperatorTypesStep ==
    ASSUME CallersType, RestType, [OperatorNext]_allVars
    PROVE  CallersType' /\ RestType'
<1>1. UNCHANGED caller => CallersType'
  BY DEF CallersType, Held
<1>2. CASE LinkStep \/ UNCHANGED allVars
  BY <1>1, <1>2 DEF LinkStep, allVars, operatorVars, RestType
<1>3. CASE TestStep
  BY <1>1, <1>3 DEF TestStep, TestOver, pairVars, RestType
<1>4. CASE Pairing
  <2>1. pending' \in Peers \cup {NoPeer} /\ timer' \in Peers \cup {NoPeer}
        /\ asking' \subseteq Peers /\ asks' \in 0 .. MaxAsks
    BY <1>4, OperatorAssumption DEF Pairing, PairTimeout, PairRequest, Withdraw, RestType
  <2>2. UNCHANGED <<caller, tester, g_discoverable>>
    BY <1>4 DEF Pairing
  <2>3. QED
    BY <1>1, <2>1, <2>2 DEF RestType
<1>5. ASSUME NEW c \in Callers, Command(c) PROVE CallersType' /\ RestType'
  BY <1>5, CommandType, AnsweredType
<1>6. ASSUME NEW c \in Callers, NEW x,
             x \in [at : {"away", "backlog", "held", "over"}, line : Lines],
             caller' = [caller EXCEPT ![c] = x],
             UNCHANGED <<tester, pairVars, g_discoverable>>,
             \/ x.at # "held" \/ caller[c].at = "held"
             \/ Cardinality(Held) < CTL_MAX_CLIENTS
      PROVE  CallersType' /\ RestType'
  BY <1>6, HeldAfter DEF pairVars, RestType
<1>7. ASSUME NEW c \in Callers, NEW place \in {"backlog", "held"},
             caller' = [caller EXCEPT ![c].at = place],
             place = "held" => Cardinality(Held) < CTL_MAX_CLIENTS,
             UNCHANGED <<tester, pairVars, g_discoverable>>
      PROVE  CallersType' /\ RestType'
  <2> DEFINE x == [caller[c] EXCEPT !.at = place]
  <2>1. caller[c] \in [at : {"away", "backlog", "held", "over"}, line : Lines]
    BY DEF CallersType
  <2>2. x \in [at : {"away", "backlog", "held", "over"}, line : Lines] /\ x.at = place
    BY <2>1
  <2>3. caller' = [caller EXCEPT ![c] = x]
    BY <1>7
  <2> HIDE DEF x
  <2>4. QED
    BY <1>6, <1>7, <2>2, <2>3
<1>8. ASSUME NEW c \in Callers, Calls(c) PROVE CallersType' /\ RestType'
  BY <1>7, <1>8 DEF Calls
<1>9. ASSUME NEW c \in Callers, Sends(c) PROVE CallersType' /\ RestType'
  <2>1. PICK line \in Lines : caller' = [caller EXCEPT ![c].line = line]
    BY <1>9 DEF Sends
  <2> DEFINE x == [caller[c] EXCEPT !.line = line]
  <2>2. caller[c] \in [at : {"away", "backlog", "held", "over"}, line : Lines]
    BY DEF CallersType
  <2>3. x \in [at : {"away", "backlog", "held", "over"}, line : Lines]
        /\ x.at = caller[c].at
    BY <2>2
  <2>4. caller' = [caller EXCEPT ![c] = x]
    BY <2>1
  <2>5. UNCHANGED <<tester, pairVars, g_discoverable>>
    BY <1>9 DEF Sends
  <2> HIDE DEF x
  <2>6. QED
    BY <1>6, <2>3, <2>4, <2>5
<1>10. ASSUME NEW c \in Callers, Leaves(c) PROVE CallersType' /\ RestType'
  <2> DEFINE x == [at |-> "away", line |-> "none"]
  <2>1. x \in [at : {"away", "backlog", "held", "over"}, line : Lines] /\ x.at # "held"
    BY DEF Lines
  <2>2. caller' = [caller EXCEPT ![c] = x] /\ UNCHANGED <<tester, pairVars, g_discoverable>>
    BY <1>10 DEF Leaves
  <2> HIDE DEF x
  <2>3. QED
    BY <1>6, <2>1, <2>2
<1>11. ASSUME NEW c \in Callers, DoAccept(c) PROVE CallersType' /\ RestType'
  <2>1. CASE Answered(c) /\ UNCHANGED <<vars, tester, pairVars, g_discoverable>>
    BY <2>1, AnsweredType DEF pairVars, RestType
  <2>2. CASE Command(c)
    BY <1>5, <2>2
  <2>3. CASE /\ Cardinality(Held) < CTL_MAX_CLIENTS
             /\ caller' = [caller EXCEPT ![c].at = "held"]
             /\ UNCHANGED <<vars, tester, pairVars, g_discoverable>>
    BY <1>7, <2>3
  <2>4. QED
    BY <1>11, <2>1, <2>2, <2>3 DEF DoAccept
<1>12. QED
  BY <1>2, <1>3, <1>4, <1>5, <1>8, <1>9, <1>10, <1>11 DEF OperatorNext, CtlDrain

\* The control socket holds at most CTL_MAX_CLIENTS callers, however many call
\* (do_accept), and the rest is of its type.
THEOREM OperatorTypeCorrect == OperatorSpec => []OperatorTypeOK
<1>1. OperatorInit => CallersType /\ RestType
  <2> SUFFICES ASSUME OperatorInit PROVE CallersType /\ RestType
    OBVIOUS
  <2>1. Held = {}
    BY DEF OperatorInit, Held
  <2>2. Cardinality(Held) = 0
    BY <2>1, FS_EmptySet
  <2>3. Cardinality(Held) <= CTL_MAX_CLIENTS
    BY <2>2, OperatorAssumption
  <2>4. "none" \in Lines
    BY DEF Lines
  <2>5. CallersType
    BY <2>3, <2>4 DEF OperatorInit, CallersType
  <2>6. RestType
    <3>1. 0 \in 0 .. MaxAsks
      BY OperatorAssumption
    <3>2. asks \in 0 .. MaxAsks /\ g_discoverable \in BOOLEAN
      BY <3>1 DEF OperatorInit
    <3>3. QED
      BY <3>2 DEF OperatorInit, RestType
  <2>7. QED
    BY <2>5, <2>6
<1>2. CallersType /\ RestType /\ [OperatorNext]_allVars => CallersType' /\ RestType'
  BY OperatorTypesStep
<1>3. TypeOK /\ CallersType /\ RestType => OperatorTypeOK
  BY DEF CallersType, RestType, OperatorTypeOK, Held
<1>4. QED
  BY <1>1, <1>2, <1>3, OperatorImplementsLink, LinkTypeCorrect, PTL DEF OperatorSpec

==============================================================================
