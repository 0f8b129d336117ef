------------------------- MODULE TransportSMProofs -------------------------
(***************************************************************************)
(* Proofs about TransportSM, for every value of its constants: IInv is     *)
(* inductive (a lemma per action), and the safety properties follow.       *)
(***************************************************************************)
EXTENDS TransportSM, SequenceTheorems, TLAPS

-----------------------------------------------------------------------------
(* Helpers. *)

\* The fields of a message.
LEMMA MessageFields ==
  ASSUME NEW m \in Message
  PROVE  /\ m.kind \in Kinds /\ m.sender \in Ids /\ m.last \in Ids /\ m.dst \in Ids
         /\ m.val \in 0 .. 255 /\ m.flag \in BOOLEAN
         /\ m.kind = "ID_RESPONSE" => m.dst = AUTO
         /\ m.kind \in {"FPAR_RESPONSE", "PONG"} => m.val # INVALID
         /\ m.kind = "FPAR_RESPONSE" => m.sender \in Peers
  BY DEF Message

\* The routing table keeps its type.
LEMMA RouteAfterType ==
  ASSUME TypeRoute, NEW m \in Message
  PROVE  RouteAfter(m) \in [Others -> Ids]
  BY MessageFields DEF TypeRoute, RouteAfter

\* One more transmission keeps the failure counter in its width, and real.
LEMMA CountersStep ==
  ASSUME NEW n \in 0 .. TX_COUNTER_MOD - 1, NEW u \in 0 .. MAX_TX_FAILURES + 1,
         n <= u \/ u = MAX_TX_FAILURES + 1,
         NEW uplink \in BOOLEAN, NEW ok \in BOOLEAN
  PROVE  /\ FailedAfter(n, uplink, ok) \in 0 .. TX_COUNTER_MOD - 1
         /\ UnackedAfter(n, uplink, ok) \in Nat
         /\ UnackedAfter(u, uplink, ok) \in 0 .. MAX_TX_FAILURES + 1
         /\ \/ FailedAfter(n, uplink, ok) <= UnackedAfter(u, uplink, ok)
            \/ UnackedAfter(u, uplink, ok) = MAX_TX_FAILURES + 1
  BY ConstantsAssumption DEF FailedAfter, UnackedAfter, Wrapped, Least

\* So does one transmission of the node.
LEMMA SentCounts ==
  ASSUME TypeTx, FailuresAreReal, NEW uplink \in BOOLEAN, NEW ok \in BOOLEAN, Sent(uplink, ok)
  PROVE  TypeTx' /\ FailuresAreReal'
  BY CountersStep DEF TypeTx, FailuresAreReal, Sent

\* Two transmissions in a row.
LEMMA SentTwiceCounts ==
  ASSUME TypeTx, FailuresAreReal,
         NEW uplink1 \in BOOLEAN, NEW ok1 \in BOOLEAN, NEW uplink2 \in BOOLEAN, NEW ok2 \in BOOLEAN,
         SentTwice(uplink1, ok1, uplink2, ok2)
  PROVE  TypeTx' /\ FailuresAreReal'
<1> DEFINE n == FailedAfter(failedUplinkTransmissions, uplink1, ok1)
           u == UnackedAfter(unacked, uplink1, ok1)
<1>1. failedUplinkTransmissions' = FailedAfter(n, uplink2, ok2) /\ unacked' = UnackedAfter(u, uplink2, ok2)
  BY DEF SentTwice
<1>2. /\ n \in 0 .. TX_COUNTER_MOD - 1 /\ u \in 0 .. MAX_TX_FAILURES + 1
      /\ n <= u \/ u = MAX_TX_FAILURES + 1
  BY CountersStep DEF TypeTx, FailuresAreReal
<1> HIDE DEF n, u
<1> QED BY <1>1, <1>2, CountersStep DEF TypeTx, FailuresAreReal

\* What is left alone keeps its type.
LEMMA Kept ==
  ASSUME IInv
  PROVE  /\ UNCHANGED <<smVars, failureCounter>> => TypeSM'
         /\ UNCHANGED txVars => TypeTx' /\ FailuresAreReal'
         /\ UNCHANGED pingVars => TypePing'
         /\ UNCHANGED checkAge => TypeCheck'
         /\ UNCHANGED <<configVars, eepromNodeId>> => TypeConfig' /\ Identity'
         /\ UNCHANGED route => TypeRoute'
         /\ UNCHANGED presentationSent => TypeCore'
         /\ UNCHANGED rx => TypeRx'
         /\ UNCHANGED <<left, calls, lastIsPong>> /\ pc' \in {"update", "begin", "fifo", "wait"}
            => TypeCtrl'
<1> USE DEF IInv, TypeOK
<1>1. UNCHANGED <<smVars, failureCounter>> => TypeSM'
  BY DEF TypeSM, smVars
<1>2. UNCHANGED txVars => TypeTx' /\ FailuresAreReal'
  BY DEF TypeTx, FailuresAreReal, txVars
<1>3. UNCHANGED pingVars => TypePing'
  BY DEF TypePing, pingVars
<1>4. UNCHANGED checkAge => TypeCheck'
  BY DEF TypeCheck
<1>5. UNCHANGED <<configVars, eepromNodeId>> => TypeConfig' /\ Identity'
  BY DEF TypeConfig, Identity, configVars
<1>6. /\ UNCHANGED route => TypeRoute'
      /\ UNCHANGED rx => TypeRx'
  BY DEF TypeRoute, TypeRx
<1>7. UNCHANGED presentationSent => TypeCore'
  BY DEF TypeCore
<1>8. UNCHANGED <<left, calls, lastIsPong>> /\ pc' \in {"update", "begin", "fifo", "wait"}
      => TypeCtrl'
  BY DEF TypeCtrl
<1> QED BY <1>1, <1>2, <1>3, <1>4, <1>5, <1>6, <1>7, <1>8

\* A stack that is left alone.
LEMMA SameStack ==
  ASSUME UNCHANGED calls
  PROVE  (Pinging' <=> Pinging) /\ (OnTop("ping")' <=> OnTop("ping"))
  BY DEF Pinging, OnTop, Top

\* What Suspend puts on the stack.
LEMMA SuspendPushes ==
  ASSUME TypeCtrl, NEW of \in {"ping", "ready", "handler"}, NEW for \in Ids,
         NEW rest \in 0 .. MAX_SUBSEQ_MSGS, Suspend(of, for, rest)
  PROVE  /\ calls' \in Seq(Frame) /\ Len(calls') = Len(calls) + 1
         /\ \A i \in 1 .. Len(calls) : calls'[i] = calls[i]
         /\ calls'[Len(calls) + 1].of = of /\ calls'[Len(calls) + 1].for = for
         /\ Pinging' <=> Pinging \/ of = "ping"
         /\ OnTop("ping")' <=> of = "ping"
<1> DEFINE frame == [of |-> of, for |-> for, age |-> 0, left |-> rest]
<1>1. frame \in Frame
  BY DEF Frame
<1>2. calls \in Seq(Frame) /\ calls' = Append(calls, frame)
  BY DEF TypeCtrl, Suspend
<1> HIDE DEF frame
<1>3. /\ calls' \in Seq(Frame) /\ Len(calls') = Len(calls) + 1 /\ Len(calls) \in Nat
      /\ \A i \in 1 .. Len(calls) : calls'[i] = calls[i]
      /\ calls'[Len(calls) + 1] = frame /\ calls' # <<>>
  BY <1>1, <1>2
<1>4. frame.of = of /\ frame.for = for
  BY DEF frame
<1>5. Pinging' <=> Pinging \/ of = "ping"
  <2>1. ASSUME Pinging PROVE Pinging'
    BY <1>3, <2>1 DEF Pinging
  <2>2. ASSUME of = "ping" PROVE Pinging'
    BY <1>3, <1>4, <2>2 DEF Pinging
  <2>3. ASSUME Pinging', of # "ping" PROVE Pinging
    <3>1. PICK i \in 1 .. Len(calls') : calls'[i].of = "ping"
      BY <2>3 DEF Pinging
    <3>2. i \in 1 .. Len(calls)
      BY <1>3, <1>4, <2>3, <3>1
    <3> QED BY <1>3, <3>1, <3>2 DEF Pinging
  <2> QED BY <2>1, <2>2, <2>3
<1>6. OnTop("ping")' <=> of = "ping"
  BY <1>3, <1>4 DEF OnTop, Top
<1> QED BY <1>3, <1>4, <1>5, <1>6

\* A stack without its top.
LEMMA PopFrame ==
  ASSUME NEW s \in Seq(Frame), s # <<>>
  PROVE  LET t == SubSeq(s, 1, Len(s) - 1)
         IN  /\ t \in Seq(Frame) /\ Len(t) = Len(s) - 1
             /\ \A i \in 1 .. Len(t) : t[i] = s[i]
             /\ s[Len(s)] \in Frame
<1> DEFINE n == Len(s) - 1
<1>1. n \in Nat /\ Len(s) = n + 1 /\ (\A i \in 1 .. n + 1 : s[i] \in Frame)
  OBVIOUS
<1> HIDE DEF n
<1>2. \A i \in 1 .. n : s[i] \in Frame
  BY <1>1
<1>3. /\ SubSeq(s, 1, n) \in Seq(Frame)
      /\ Len(SubSeq(s, 1, n)) = IF 1 <= n THEN n - 1 + 1 ELSE 0
      /\ \A i \in 1 .. n - 1 + 1 : SubSeq(s, 1, n)[i] = s[1 + i - 1]
  BY <1>1, <1>2, SubSeqProperties
<1>4. Len(SubSeq(s, 1, n)) = n /\ \A i \in 1 .. n : SubSeq(s, 1, n)[i] = s[i]
  BY <1>1, <1>3
<1> QED BY <1>1, <1>3, <1>4 DEF n

\* What Return takes off it.
LEMMA ReturnPops ==
  ASSUME TypeCtrl, calls # <<>>, Return
  PROVE  /\ calls' \in Seq(Frame) /\ Len(calls) \in Nat /\ Len(calls') = Len(calls) - 1
         /\ \A i \in 1 .. Len(calls') : calls'[i] = calls[i]
         /\ Top \in Frame
         /\ Pinging' => Pinging
         /\ Top.of # "ping" => (Pinging => Pinging')
<1>1. /\ calls' \in Seq(Frame) /\ Len(calls) \in Nat /\ Len(calls') = Len(calls) - 1
      /\ \A i \in 1 .. Len(calls') : calls'[i] = calls[i]
      /\ Top \in Frame
  BY PopFrame DEF TypeCtrl, Return, Top
<1>2. Pinging' => Pinging
  BY <1>1 DEF Pinging
<1>3. ASSUME Top.of # "ping", Pinging PROVE Pinging'
  <2>1. PICK i \in 1 .. Len(calls) : calls[i].of = "ping"
    BY <1>3 DEF Pinging
  <2>2. i \in 1 .. Len(calls')
    BY <1>1, <1>3, <2>1 DEF Top
  <2> QED BY <1>1, <2>1, <2>2 DEF Pinging
<1> QED BY <1>1, <1>2, <1>3

\* After a return to a batch, or to the main loop, the stack invariant holds
\* if the ping slot is accounted for.
LEMMA ReturnKeeps ==
  ASSUME pc' \in {"begin", "fifo"}, PingSlot'
  PROVE  CallStack'
  BY DEF CallStack, ControlOnTop

\* What the receive FIFO holds, and holds after its head was taken, are messages.
LEMMA FifoMessages ==
  ASSUME TypeRx, rx # <<>>
  PROVE  Head(rx) \in Message /\ Tail(rx) \in Seq(Message)
  BY DEF TypeRx

\* What every received message changes keeps its type.
LEMMA ReceiveKeeps ==
  ASSUME IInv, NEW m \in Message, Receive(m)
  PROVE  TypeSM' /\ TypeCore' /\ TypeRx'
<1> USE DEF IInv, TypeOK, Receive
<1>1. TypeSM' /\ TypeCore'
  BY Kept
<1>2. TypeRx'
  BY FifoMessages DEF TypeRx
<1> QED BY <1>1, <1>2

\* So does the end of its processing.
LEMMA ConsumeKeeps ==
  ASSUME IInv, NEW m \in Message, Receive(m), Consume(m)
  PROVE  TypeCtrl'
<1> USE ConstantsAssumption DEF IInv, TypeOK, TypeCtrl, Receive, Consume
<1>1. left' \in 0 .. MAX_SUBSEQ_MSGS
  OBVIOUS
<1>2. lastIsPong' \in BOOLEAN
  OBVIOUS
<1>3. pc' \in {"update", "begin", "fifo", "wait"} /\ calls' \in Seq(Frame)
  OBVIOUS
<1> QED BY <1>1, <1>2, <1>3

\* A message processed without a wait leaves the stack alone.
LEMMA MessageKeepsStack ==
  ASSUME IInv, NEW m \in Message, Receive(m), Consume(m), PingSlot'
  PROVE  CallStack'
  BY DEF IInv, CallStack, ControlOnTop, Receive, Consume

\* A message that at most makes the node transmit disturbs nothing else.
LEMMA PlainMessageKeeps ==
  ASSUME IInv, NEW m \in Message, Receive(m), Consume(m),
         UNCHANGED <<preferredParentFound, pingVars, configVars, eepromNodeId>>,
         route' \in {RouteAfter(m), NoRoutes}, TypeTx', FailuresAreReal', TypeCheck'
  PROVE  IInv'
<1> USE DEF IInv, TypeOK
<1>1. TypeSM' /\ TypeCore' /\ TypeRx' /\ TypeCtrl'
  BY ReceiveKeeps, ConsumeKeeps
<1>2. TypePing' /\ TypeConfig' /\ Identity'
  BY Kept
<1>3. TypeFlags'
  BY DEF TypeFlags, Receive
<1>4. TypeRoute'
  BY RouteAfterType DEF TypeRoute, NoRoutes, Ids, AUTO
<1>5. Attachment'
  BY DEF TypeFlags, Attachment, Receive, smVars, configVars
<1>6. CallStack'
  <2>1. PingSlot'
    BY SameStack DEF CallStack, PingSlot, Receive, Consume, smVars, pingVars
  <2> QED BY <2>1, MessageKeepsStack
<1>7. PreferredParentKept'
  BY DEF PreferredParentKept, configVars
<1> QED BY <1>1, <1>2, <1>3, <1>4, <1>5, <1>6, <1>7

-----------------------------------------------------------------------------
(* One lemma per action: it preserves IInv. *)

\* The radio does not start: the node fails.
LEMMA RadioFailsKeeps == IInv /\ RadioFails => IInv'
<1> SUFFICES ASSUME IInv, RadioFails PROVE IInv'
  OBVIOUS
<1> USE ConstantsAssumption DEF IInv, TypeOK, RadioFails, ToFailure, Switch
<1>1. /\ TypePing' /\ TypeCheck' /\ TypeRoute' /\ TypeCore' /\ TypeRx' /\ TypeCtrl'
      /\ TypeTx' /\ FailuresAreReal' /\ TypeConfig' /\ Identity'
  BY Kept
<1>2. TypeSM'
  BY DEF TypeSM, States, Least, smVars, flagVars
<1>3. TypeFlags'
  BY DEF TypeFlags, flagVars
<1>4. Attachment'
  BY DEF TypeFlags, Attachment, smVars, flagVars, configVars
<1>5. CallStack'
  BY SameStack DEF TypePing, CallStack, ControlOnTop, PingSlot, smVars, flagVars, pingVars
<1>6. PreferredParentKept'
  BY DEF PreferredParentKept, flagVars, configVars
<1> QED BY <1>1, <1>2, <1>3, <1>4, <1>5, <1>6

\* The radio starts.  The ID is not the gateway's, so the search begins.
LEMMA RadioStartsKeeps == IInv /\ RadioStarts => IInv'
<1> SUFFICES ASSUME IInv, RadioStarts PROVE IInv'
  OBVIOUS
<1> USE ConstantsAssumption DEF IInv, TypeOK
<1>1. /\ ConfiguredId # GATEWAY_ADDRESS /\ ConfiguredId \in Ids
      /\ MY_NODE_ID # AUTO => ConfiguredId = MY_NODE_ID
      /\ MY_NODE_ID = AUTO => ConfiguredId = nodeId
  BY DEF TypeConfig, Identity, ConfiguredId, Ids, GATEWAY_ADDRESS
<1>2. /\ pc = "update" /\ state = "Init" /\ pc' = "begin" /\ rx' = <<>>
      /\ eepromNodeId' = IF MY_NODE_ID # AUTO THEN MY_NODE_ID ELSE eepromNodeId
      /\ ToParent /\ nodeId' = ConfiguredId /\ transportActive' = TRUE
      /\ UNCHANGED <<failureCounter, pingVars, checkAge, route, presentationSent, left, calls, lastIsPong>>
  BY <1>1 DEF RadioStarts
<1> USE <1>2 DEF ToParent, Switch
<1>3. TypePing' /\ TypeCheck' /\ TypeRoute' /\ TypeCore' /\ TypeCtrl'
  BY Kept
<1>4. TypeSM'
  BY DEF TypeSM, States
<1>5. TypeFlags'
  BY DEF TypeFlags
<1>6. TypeTx' /\ FailuresAreReal'
  BY Kept DEF TypeTx, FailuresAreReal
<1>7. TypeConfig'
  BY <1>1 DEF TypeConfig, Ids, AUTO, INVALID
<1>8. TypeRx'
  BY DEF TypeRx
<1>9. Attachment'
  BY DEF Attachment
<1>10. Identity'
  BY <1>1 DEF TypeConfig, Identity
<1>11. CallStack'
  BY SameStack DEF TypePing, CallStack, ControlOnTop, PingSlot, pingVars
<1>12. PreferredParentKept'
  BY DEF PreferredParentKept
<1> QED BY <1>3, <1>4, <1>5, <1>6, <1>7, <1>8, <1>9, <1>10, <1>11, <1>12

\* A parent is known: the ID is next.
LEMMA ParentFoundKeeps == IInv /\ ParentFound => IInv'
<1> SUFFICES ASSUME IInv, ParentFound PROVE IInv'
  OBVIOUS
<1> USE ConstantsAssumption DEF IInv, TypeOK, ParentFound, ToID, Switch, SearchEnds
<1>1. /\ TypePing' /\ TypeCheck' /\ TypeRoute' /\ TypeCore' /\ TypeRx' /\ TypeCtrl'
      /\ TypeConfig' /\ Identity'
  BY Kept
<1>2. /\ TypeTx' /\ FailuresAreReal'
  BY SentCounts, Kept DEF Uplinks
<1>3. TypeSM'
  BY DEF TypeSM, States, Least, smVars, flagVars
<1>4. TypeFlags'
  BY DEF TypeFlags, flagVars
<1>5. Attachment'
  BY DEF TypeSM, TypeFlags, TypeConfig, Attachment, PreferredParentKept, configVars
<1>6. CallStack'
  BY SameStack DEF TypePing, CallStack, ControlOnTop, PingSlot, smVars, flagVars, pingVars
<1>7. PreferredParentKept'
  BY DEF PreferredParentKept, flagVars, configVars
<1> QED BY <1>1, <1>2, <1>3, <1>4, <1>5, <1>6, <1>7

\* The search found nobody and is repeated.
LEMMA SearchAgainKeeps == IInv /\ SearchAgain => IInv'
<1> SUFFICES ASSUME IInv, SearchAgain PROVE IInv'
  OBVIOUS
<1> USE ConstantsAssumption DEF IInv, TypeOK, SearchAgain, ToParent, Switch, SearchEnds
<1>1. /\ TypePing' /\ TypeCheck' /\ TypeRoute' /\ TypeCore' /\ TypeRx' /\ TypeCtrl'
  BY Kept
<1>2. TypeSM'
  BY DEF TypeSM, States, Least, smVars, flagVars
<1>3. TypeFlags'
  BY DEF TypeFlags, flagVars
<1>4. TypeTx'
  BY DEF TypeTx, txVars
<1>5. TypeConfig'
  BY DEF TypeConfig, Ids, AUTO, INVALID, configVars
<1>6. Attachment'
  BY DEF TypeFlags, Attachment, smVars, flagVars, configVars
<1>7. Identity'
  BY DEF Identity
<1>8. CallStack'
  BY SameStack DEF TypePing, CallStack, ControlOnTop, PingSlot, smVars, flagVars, pingVars
<1>9. FailuresAreReal'
  BY DEF TypeTx, FailuresAreReal, txVars
<1>10. PreferredParentKept'
  BY DEF PreferredParentKept, flagVars, configVars
<1> QED BY <1>1, <1>2, <1>3, <1>4, <1>5, <1>6, <1>7, <1>8, <1>9, <1>10

\* The search is given up.
LEMMA NoParentFoundKeeps == IInv /\ NoParentFound => IInv'
<1> SUFFICES ASSUME IInv, NoParentFound PROVE IInv'
  OBVIOUS
<1> USE ConstantsAssumption DEF IInv, TypeOK, NoParentFound, ToFailure, Switch, SearchEnds
<1>1. /\ TypePing' /\ TypeCheck' /\ TypeRoute' /\ TypeCore' /\ TypeRx' /\ TypeCtrl'
      /\ TypeConfig' /\ Identity' /\ TypeTx' /\ FailuresAreReal'
  BY Kept
<1>2. TypeSM'
  BY DEF TypeSM, States, Least, smVars, flagVars
<1>3. TypeFlags'
  BY DEF TypeFlags, flagVars
<1>4. Attachment'
  BY DEF TypeFlags, Attachment, smVars, flagVars, configVars
<1>5. CallStack'
  BY SameStack DEF TypePing, CallStack, ControlOnTop, PingSlot, smVars, flagVars, pingVars
<1>6. PreferredParentKept'
  BY DEF PreferredParentKept, flagVars, configVars
<1> QED BY <1>1, <1>2, <1>3, <1>4, <1>5, <1>6

\* The ID is known: the uplink is checked.
LEMMA IdKnownKeeps == IInv /\ IdKnown => IInv'
<1> SUFFICES ASSUME IInv, IdKnown PROVE IInv'
  OBVIOUS
<1> USE ConstantsAssumption DEF IInv, TypeOK, IdKnown, ToUplink, Switch
<1>1. /\ TypeCheck' /\ TypeRoute' /\ TypeCore' /\ TypeRx' /\ TypeCtrl' /\ TypeConfig'
      /\ Identity'
  BY Kept
<1>2. /\ TypeTx' /\ FailuresAreReal'
  BY SentCounts, Kept DEF Uplinks
<1>3. TypeSM'
  BY DEF TypeSM, States, Least, smVars, flagVars
<1>4. TypeFlags'
  BY DEF TypeFlags, flagVars
<1>5. TypePing'
  BY DEF TypePing, INVALID
<1>6. Attachment'
  BY DEF TypeFlags, Attachment, smVars, flagVars, configVars
<1>7. CallStack'
  BY SameStack DEF TypePing, CallStack, ControlOnTop, PingSlot, smVars, flagVars, pingVars
<1>8. PreferredParentKept'
  BY DEF PreferredParentKept, flagVars, configVars
<1> QED BY <1>1, <1>2, <1>3, <1>4, <1>5, <1>6, <1>7, <1>8

\* The ID is requested again.
LEMMA RequestIdAgainKeeps == IInv /\ RequestIdAgain => IInv'
<1> SUFFICES ASSUME IInv, RequestIdAgain PROVE IInv'
  OBVIOUS
<1> USE ConstantsAssumption DEF IInv, TypeOK, RequestIdAgain, ToID, Switch
<1>1. /\ TypePing' /\ TypeCheck' /\ TypeRoute' /\ TypeCore' /\ TypeRx' /\ TypeCtrl'
      /\ TypeConfig' /\ Identity'
  BY Kept
<1>2. /\ TypeTx' /\ FailuresAreReal'
  BY SentCounts, Kept DEF Uplinks
<1>3. TypeSM'
  BY DEF TypeSM, States, Least, smVars, flagVars
<1>4. TypeFlags'
  BY DEF TypeFlags, flagVars
<1>5. Attachment'
  BY DEF TypeFlags, Attachment, smVars, flagVars, configVars
<1>6. CallStack'
  BY SameStack DEF TypePing, CallStack, ControlOnTop, PingSlot, smVars, flagVars, pingVars
<1>7. PreferredParentKept'
  BY DEF PreferredParentKept, flagVars, configVars
<1> QED BY <1>1, <1>2, <1>3, <1>4, <1>5, <1>6, <1>7

\* No ID came: the node fails.
LEMMA NoIdReceivedKeeps == IInv /\ NoIdReceived => IInv'
<1> SUFFICES ASSUME IInv, NoIdReceived PROVE IInv'
  OBVIOUS
<1> USE ConstantsAssumption DEF IInv, TypeOK, NoIdReceived, ToFailure, Switch
<1>1. /\ TypePing' /\ TypeCheck' /\ TypeRoute' /\ TypeCore' /\ TypeRx' /\ TypeCtrl'
      /\ TypeConfig' /\ Identity' /\ TypeTx' /\ FailuresAreReal'
  BY Kept
<1>2. TypeSM'
  BY DEF TypeSM, States, Least, smVars, flagVars
<1>3. TypeFlags'
  BY DEF TypeFlags, flagVars
<1>4. Attachment'
  BY DEF TypeFlags, Attachment, smVars, flagVars, configVars
<1>5. CallStack'
  BY SameStack DEF TypePing, CallStack, ControlOnTop, PingSlot, smVars, flagVars, pingVars
<1>6. PreferredParentKept'
  BY DEF PreferredParentKept, flagVars, configVars
<1> QED BY <1>1, <1>2, <1>3, <1>4, <1>5, <1>6

\* The gateway answered: the node is ready, and its callback may wait.
LEMMA UplinkWorksKeeps == IInv /\ UplinkWorks => IInv'
<1> SUFFICES ASSUME IInv, UplinkWorks PROVE IInv'
  OBVIOUS
<1> USE ConstantsAssumption DEF IInv, TypeOK, UplinkWorks, ToReady, Switch
<1>1. /\ TypePing' /\ TypeRoute' /\ TypeRx'
  BY Kept
<1>2. TypeSM'
  BY DEF TypeSM, States, Least, smVars, flagVars
<1>3. TypeFlags'
  BY DEF TypeFlags, flagVars
<1>4. TypeTx'
  BY DEF TypeTx, txVars
<1>5. TypeCheck'
  BY DEF TypeCheck
<1>6. TypeConfig'
  BY DEF TypeConfig, TypePing, Ids
<1>7. TypeCore'
  BY DEF TypeCore
<1>8. TypeCtrl'
<2>1. CASE UNCHANGED calls
    <3>1. pc' = "begin" \/ pc' = "update"
      OBVIOUS
    <3>2. lastIsPong' \in BOOLEAN
      BY DEF TypeCtrl, TypeCore
    <3> QED BY <2>1, <3>1, <3>2 DEF TypeCtrl
<2>2. CASE Suspend("ready", AUTO, 0)
    <3>1. calls' \in Seq(Frame)
      <4>1. AUTO \in Ids /\ 0 \in 0 .. MAX_SUBSEQ_MSGS
        BY DEF Ids, AUTO
      <4> QED BY <2>2, <4>1, SuspendPushes
    <3>2. pc' = "begin" \/ pc' = "update"
      OBVIOUS
    <3>3. lastIsPong' \in BOOLEAN
      BY DEF TypeCtrl, TypeCore
    <3> QED BY <3>1, <3>2, <3>3 DEF TypeCtrl
<2> QED BY <2>1, <2>2
<1>9. Attachment'
  BY DEF TypeFlags, Attachment, smVars, flagVars, configVars
<1>10. Identity'
  BY DEF Identity
<1>11. CallStack'
<2>1. ~OnTop("ping") /\ ~pingActive'
    BY DEF TypePing, CallStack, ControlOnTop, PingSlot, pingVars
<2>2. CASE UNCHANGED calls
    BY <2>1, <2>2, SameStack DEF CallStack, ControlOnTop, PingSlot
<2>3. CASE Suspend("ready", AUTO, 0)
    <3>1. AUTO \in Ids /\ 0 \in 0 .. MAX_SUBSEQ_MSGS /\ Len(calls) \in Nat
      BY DEF Ids, AUTO, TypeCtrl
    <3>2. ~OnTop("ping")'
      BY <2>3, <3>1, SuspendPushes
    <3> QED BY <2>1, <3>2 DEF CallStack, ControlOnTop, PingSlot
<2> QED BY <2>2, <2>3
<1>12. FailuresAreReal'
  BY DEF TypeTx, FailuresAreReal, txVars
<1>13. PreferredParentKept'
  BY DEF PreferredParentKept, flagVars, configVars
<1> QED BY <1>1, <1>2, <1>3, <1>4, <1>5, <1>6, <1>7, <1>8, <1>9, <1>10, <1>11, <1>12, <1>13

\* The gateway is pinged again.
LEMMA PingAgainKeeps == IInv /\ PingAgain => IInv'
<1> SUFFICES ASSUME IInv, PingAgain PROVE IInv'
  OBVIOUS
<1> USE ConstantsAssumption DEF IInv, TypeOK, PingAgain, ToUplink, Switch
<1>1. /\ TypeCheck' /\ TypeRoute' /\ TypeCore' /\ TypeRx' /\ TypeCtrl' /\ TypeConfig'
      /\ Identity'
  BY Kept
<1>2. /\ TypeTx' /\ FailuresAreReal'
  BY SentCounts, Kept DEF Uplinks
<1>3. TypeSM'
  BY DEF TypeSM, States, Least, smVars, flagVars
<1>4. TypeFlags'
  BY DEF TypeFlags, flagVars
<1>5. TypePing'
  BY DEF TypePing, INVALID
<1>6. Attachment'
  BY DEF TypeFlags, Attachment, smVars, flagVars, configVars
<1>7. CallStack'
  BY SameStack DEF TypePing, CallStack, ControlOnTop, PingSlot, smVars, flagVars, pingVars
<1>8. PreferredParentKept'
  BY DEF PreferredParentKept, flagVars, configVars
<1> QED BY <1>1, <1>2, <1>3, <1>4, <1>5, <1>6, <1>7, <1>8

\* The gateway does not answer: another parent is searched.
LEMMA UplinkFailsKeeps == IInv /\ UplinkFails => IInv'
<1> SUFFICES ASSUME IInv, UplinkFails PROVE IInv'
  OBVIOUS
<1> USE ConstantsAssumption DEF IInv, TypeOK, UplinkFails, ToParent, Switch
<1>1. /\ TypeCheck' /\ TypeRoute' /\ TypeCore' /\ TypeRx' /\ TypeCtrl'
  BY Kept
<1>2. TypeSM'
  BY DEF TypeSM, States, Least, smVars, flagVars
<1>3. TypeFlags'
  BY DEF TypeFlags, flagVars
<1>4. TypeTx'
  BY DEF TypeTx, txVars
<1>5. TypePing'
  BY DEF TypePing, INVALID
<1>6. TypeConfig'
  BY DEF TypeConfig, Ids, AUTO, INVALID, configVars
<1>7. Attachment'
  BY DEF TypeFlags, Attachment, smVars, flagVars, configVars
<1>8. Identity'
  BY DEF Identity
<1>9. CallStack'
  BY SameStack DEF TypePing, CallStack, ControlOnTop, PingSlot, smVars, flagVars, pingVars
<1>10. FailuresAreReal'
  BY DEF TypeTx, FailuresAreReal, txVars
<1>11. PreferredParentKept'
  BY DEF PreferredParentKept, flagVars, configVars
<1> QED BY <1>1, <1>2, <1>3, <1>4, <1>5, <1>6, <1>7, <1>8, <1>9, <1>10, <1>11

\* Too many transmissions failed: another parent is searched.
LEMMA UplinkLostKeeps == IInv /\ UplinkLost => IInv'
<1> SUFFICES ASSUME IInv, UplinkLost PROVE IInv'
  OBVIOUS
<1> USE ConstantsAssumption DEF IInv, TypeOK, UplinkLost, ToParent, Switch
<1>1. /\ TypePing' /\ TypeCheck' /\ TypeRoute' /\ TypeCore' /\ TypeRx' /\ TypeCtrl'
  BY Kept
<1>2. TypeSM'
  BY DEF TypeSM, States, Least, smVars, flagVars
<1>3. TypeFlags'
  BY DEF TypeFlags, flagVars
<1>4. TypeTx'
  BY DEF TypeTx, txVars
<1>5. TypeConfig'
  BY DEF TypeConfig, Ids, AUTO, INVALID, configVars
<1>6. Attachment'
  BY DEF TypeFlags, Attachment, smVars, flagVars, configVars
<1>7. Identity'
  BY DEF Identity
<1>8. CallStack'
  BY SameStack DEF TypePing, CallStack, ControlOnTop, PingSlot, smVars, flagVars, pingVars
<1>9. FailuresAreReal'
  BY DEF TypeTx, FailuresAreReal, txVars
<1>10. PreferredParentKept'
  BY DEF PreferredParentKept, flagVars, configVars
<1> QED BY <1>1, <1>2, <1>3, <1>4, <1>5, <1>6, <1>7, <1>8, <1>9, <1>10

\* A static parent is kept.
LEMMA StaticUplinkLostKeeps == IInv /\ StaticUplinkLost => IInv'
<1> SUFFICES ASSUME IInv, StaticUplinkLost PROVE IInv'
  OBVIOUS
<1> USE ConstantsAssumption DEF IInv, TypeOK, StaticUplinkLost
<1>1. /\ TypePing' /\ TypeCheck' /\ TypeRoute' /\ TypeCore' /\ TypeRx' /\ TypeCtrl'
      /\ TypeSM' /\ TypeConfig' /\ Identity'
  BY Kept DEF flagVars
<1>2. TypeFlags'
  BY DEF TypeFlags, flagVars
<1>3. TypeTx'
  BY DEF TypeTx, txVars
<1>4. Attachment'
  BY DEF TypeFlags, Attachment, smVars, flagVars, configVars
<1>5. CallStack'
  BY SameStack DEF TypePing, CallStack, ControlOnTop, PingSlot, smVars, flagVars, pingVars
<1>6. FailuresAreReal'
  BY DEF TypeTx, FailuresAreReal, txVars
<1>7. PreferredParentKept'
  BY DEF PreferredParentKept, flagVars, configVars
<1> QED BY <1>1, <1>2, <1>3, <1>4, <1>5, <1>6, <1>7

\* The node starts over.
LEMMA TryAgainKeeps == IInv /\ TryAgain => IInv'
<1> SUFFICES ASSUME IInv, TryAgain PROVE IInv'
  OBVIOUS
<1> USE ConstantsAssumption DEF IInv, TypeOK, TryAgain, ToInit, Switch
<1>1. /\ TypeTx' /\ TypeRoute' /\ TypeCore' /\ TypeRx' /\ TypeCtrl' /\ FailuresAreReal'
  BY Kept
<1>2. TypeSM'
  BY DEF TypeSM, States, Least, smVars, flagVars
<1>3. TypeFlags'
  BY DEF TypeFlags, flagVars
<1>4. TypePing'
  BY DEF TypePing, INVALID
<1>5. TypeCheck'
  BY DEF TypeCheck
<1>6. TypeConfig'
  BY DEF TypeConfig, Ids, AUTO, INVALID, configVars
<1>7. Attachment'
  BY DEF TypeFlags, Attachment, smVars, flagVars, configVars
<1>8. Identity'
  BY DEF Identity
<1>9. CallStack'
  BY SameStack DEF TypePing, CallStack, ControlOnTop, PingSlot, smVars, flagVars, pingVars
<1>10. PreferredParentKept'
  BY DEF PreferredParentKept, flagVars, configVars
<1> QED BY <1>1, <1>2, <1>3, <1>4, <1>5, <1>6, <1>7, <1>8, <1>9, <1>10

\* Nothing happens.
LEMMA StateStaysKeeps == IInv /\ StateStays => IInv'
<1> SUFFICES ASSUME IInv, StateStays PROVE IInv'
  OBVIOUS
<1> USE ConstantsAssumption DEF IInv, TypeOK, StateStays
<1>1. /\ TypePing' /\ TypeCheck' /\ TypeRoute' /\ TypeCore' /\ TypeRx' /\ TypeCtrl'
      /\ TypeSM' /\ TypeTx' /\ TypeConfig' /\ Identity' /\ FailuresAreReal'
  BY Kept DEF flagVars
<1>2. TypeFlags'
  BY DEF TypeFlags, flagVars
<1>3. Attachment'
  BY DEF TypeFlags, Attachment, smVars, flagVars, configVars
<1>4. CallStack'
  BY SameStack DEF TypePing, CallStack, ControlOnTop, PingSlot, smVars, flagVars, pingVars
<1>5. PreferredParentKept'
  BY DEF PreferredParentKept, flagVars, configVars
<1> QED BY <1>1, <1>2, <1>3, <1>4, <1>5

\* The ready callback returns.
LEMMA CallbackReturnKeeps == IInv /\ CallbackReturn => IInv'
<1> SUFFICES ASSUME IInv, CallbackReturn PROVE IInv'
  OBVIOUS
<1> USE ConstantsAssumption DEF IInv, TypeOK, CallbackReturn
<1>1. /\ TypeTx' /\ TypePing' /\ TypeCheck' /\ TypeConfig' /\ TypeRoute' /\ TypeRx'
      /\ Identity' /\ FailuresAreReal'
  BY Kept
<1>2. TypeSM'
  BY DEF TypeSM, States, Least, smVars, flagVars
<1>3. TypeFlags'
  BY DEF TypeFlags, flagVars
<1>4. TypeCore'
  BY DEF TypeCore
<1>5. TypeCtrl'
<2>1. calls' \in Seq(Frame) /\ Top \in Frame
    BY ReturnPops DEF OnTop
<2>2. left' \in 0 .. MAX_SUBSEQ_MSGS
    BY <2>1 DEF TypeCtrl, Frame
<2> QED BY <2>1, <2>2 DEF TypeCtrl
<1>6. Attachment'
  BY DEF TypeFlags, Attachment, smVars, flagVars, configVars
<1>7. CallStack'
<2>1. PingSlot'
    BY ReturnPops DEF CallStack, PingSlot, OnTop, smVars, pingVars
<2>2. calls # <<>>
    BY DEF OnTop
<2> QED BY <2>1, <2>2, ReturnKeeps DEF smVars, flagVars, configVars
<1>8. PreferredParentKept'
  BY DEF PreferredParentKept, flagVars, configVars
<1> QED BY <1>1, <1>2, <1>3, <1>4, <1>5, <1>6, <1>7, <1>8

\* The handler of a message returns to its batch.
LEMMA HandlerReturnKeeps == IInv /\ HandlerReturn => IInv'
<1> SUFFICES ASSUME IInv, HandlerReturn PROVE IInv'
  OBVIOUS
<1> USE ConstantsAssumption DEF IInv, TypeOK, HandlerReturn
<1>1. /\ TypeSM' /\ TypeTx' /\ TypePing' /\ TypeCheck' /\ TypeConfig' /\ TypeRoute'
      /\ TypeCore' /\ TypeRx' /\ Identity' /\ FailuresAreReal'
  BY Kept DEF flagVars
<1>2. TypeFlags'
  BY DEF TypeFlags, flagVars
<1>3. TypeCtrl'
<2>1. calls' \in Seq(Frame) /\ Top \in Frame
    BY ReturnPops DEF OnTop
<2>2. left' \in 0 .. MAX_SUBSEQ_MSGS
    BY <2>1 DEF TypeCtrl, Frame
<2> QED BY <2>1, <2>2 DEF TypeCtrl
<1>4. Attachment'
  BY DEF TypeFlags, Attachment, smVars, flagVars, configVars
<1>5. CallStack'
<2>1. PingSlot'
    BY ReturnPops DEF CallStack, PingSlot, OnTop, smVars, pingVars
<2>2. calls # <<>>
    BY DEF OnTop
<2> QED BY <2>1, <2>2, ReturnKeeps DEF smVars, flagVars, configVars
<1>6. PreferredParentKept'
  BY DEF PreferredParentKept, flagVars, configVars
<1> QED BY <1>1, <1>2, <1>3, <1>4, <1>5, <1>6

\* A batch of messages begins; a sanity check may fail the node.
LEMMA FifoBeginKeeps == IInv /\ FifoBegin => IInv'
<1> SUFFICES ASSUME IInv, FifoBegin PROVE IInv'
  OBVIOUS
<1> USE ConstantsAssumption DEF IInv, TypeOK, FifoBegin, Resume, ToFailure, Switch
<1>1. /\ TypeTx' /\ TypePing' /\ TypeCheck' /\ TypeConfig' /\ TypeRoute' /\ TypeCore'
      /\ TypeRx' /\ Identity' /\ FailuresAreReal'
  BY Kept
<1>2. TypeSM'
<2>1. CASE UNCHANGED <<smVars, flagVars>>
    BY <2>1 DEF TypeSM, smVars, flagVars
<2>2. CASE ToFailure /\ transportActive
    BY <2>2 DEF TypeSM, States, Attachment, Least
<2> QED BY <2>1, <2>2
<1>3. TypeFlags'
  BY DEF TypeFlags, flagVars
<1>4. TypeCtrl'
  BY DEF TypeCtrl, ctrlVars
<1>5. Attachment'
  BY DEF TypeFlags, Attachment, smVars, flagVars, configVars
<1>6. CallStack'
  BY SameStack DEF TypePing, CallStack, ControlOnTop, PingSlot, smVars, flagVars, pingVars, ctrlVars
<1>7. PreferredParentKept'
  BY DEF PreferredParentKept, flagVars, configVars
<1> QED BY <1>1, <1>2, <1>3, <1>4, <1>5, <1>6, <1>7

\* A batch of messages ends.
LEMMA FifoEndKeeps == IInv /\ FifoEnd => IInv'
<1> SUFFICES ASSUME IInv, FifoEnd PROVE IInv'
  OBVIOUS
<1> USE ConstantsAssumption DEF IInv, TypeOK, FifoEnd, Resume
<1>1. /\ TypeSM' /\ TypeTx' /\ TypePing' /\ TypeCheck' /\ TypeConfig' /\ TypeRoute'
      /\ TypeCore' /\ TypeRx' /\ Identity' /\ FailuresAreReal'
  BY Kept DEF flagVars
<1>2. TypeFlags'
  BY DEF TypeFlags, flagVars
<1>3. TypeCtrl'
  BY DEF TypeCtrl, ctrlVars
<1>4. Attachment'
  BY DEF TypeFlags, Attachment, smVars, flagVars, configVars
<1>5. CallStack'
  BY SameStack DEF TypePing, CallStack, ControlOnTop, PingSlot, smVars, flagVars, pingVars, ctrlVars
<1>6. PreferredParentKept'
  BY DEF PreferredParentKept, flagVars, configVars
<1> QED BY <1>1, <1>2, <1>3, <1>4, <1>5, <1>6

\* The wait for the pong goes on.
LEMMA PingContinueKeeps == IInv /\ PingContinue => IInv'
<1> SUFFICES ASSUME IInv, PingContinue PROVE IInv'
  OBVIOUS
<1> USE ConstantsAssumption DEF IInv, TypeOK, PingContinue
<1>1. /\ TypeSM' /\ TypeTx' /\ TypePing' /\ TypeCheck' /\ TypeConfig' /\ TypeRoute'
      /\ TypeCore' /\ TypeRx' /\ TypeCtrl' /\ Identity' /\ FailuresAreReal'
  BY Kept DEF flagVars
<1>2. TypeFlags'
  BY DEF TypeFlags, flagVars
<1>3. Attachment'
  BY DEF TypeFlags, Attachment, smVars, flagVars, configVars
<1>4. CallStack'
  BY SameStack DEF TypePing, CallStack, ControlOnTop, PingSlot, smVars, flagVars, pingVars, ctrlVars
<1>5. PreferredParentKept'
  BY DEF PreferredParentKept, flagVars, configVars
<1> QED BY <1>1, <1>2, <1>3, <1>4, <1>5

\* The sketch sends.
LEMMA SketchSendKeeps == IInv /\ SketchSend => IInv'
<1> SUFFICES ASSUME IInv, SketchSend PROVE IInv'
  OBVIOUS
<1> USE ConstantsAssumption DEF IInv, TypeOK, SketchSend
<1>1. /\ TypeSM' /\ TypePing' /\ TypeCheck' /\ TypeConfig' /\ TypeRoute' /\ TypeCore'
      /\ TypeRx' /\ TypeCtrl' /\ Identity'
  BY Kept DEF flagVars, ctrlVars
<1>2. /\ TypeTx' /\ FailuresAreReal'
  BY SentCounts, Kept DEF Uplinks
<1>3. TypeFlags'
  BY DEF TypeFlags, flagVars
<1>4. Attachment'
  BY DEF TypeFlags, Attachment, smVars, flagVars, configVars
<1>5. CallStack'
  BY SameStack DEF TypePing, CallStack, ControlOnTop, PingSlot, smVars, flagVars, pingVars, ctrlVars
<1>6. PreferredParentKept'
  BY DEF PreferredParentKept, flagVars, configVars
<1> QED BY <1>1, <1>2, <1>3, <1>4, <1>5, <1>6

\* A ping is answered.
LEMMA PingKeeps == ASSUME NEW m \in Message, IInv, Ping(m) PROVE IInv'
<1> USE ConstantsAssumption DEF IInv, TypeOK, Ping
<1>1. TypeTx' /\ FailuresAreReal'
  BY SentCounts, Kept DEF Uplinks
<1>2. TypeCheck'
  BY Kept
<1> QED BY <1>1, <1>2, PlainMessageKeeps

\* A discovery request.
LEMMA DiscoverKeeps == ASSUME NEW m \in Message, IInv, Discover(m) PROVE IInv'
<1> USE ConstantsAssumption DEF IInv, TypeOK, Discover
<1>1. TypeTx' /\ FailuresAreReal'
  BY SentCounts, Kept DEF Uplinks
<1>2. TypeCheck'
  BY Kept
<1> QED BY <1>1, <1>2, PlainMessageKeeps

\* A message for another node.
LEMMA RelayKeeps == ASSUME NEW m \in Message, IInv, Relay(m) PROVE IInv'
<1> USE ConstantsAssumption DEF IInv, TypeOK, Relay
<1>1. TypeTx' /\ FailuresAreReal'
  BY SentCounts, Kept DEF Uplinks
<1>2. TypeCheck'
  BY Kept
<1> QED BY <1>1, <1>2, PlainMessageKeeps

\* A find-parent request is refused.
LEMMA RefuseParentRequestKeeps == ASSUME NEW m \in Message, IInv, RefuseParentRequest(m) PROVE IInv'
<1> USE ConstantsAssumption DEF IInv, TypeOK, RefuseParentRequest
<1>1. TypeTx' /\ FailuresAreReal'
  BY SentCounts, Kept DEF Uplinks
<1>2. TypeCheck'
  BY Kept
<1> QED BY <1>1, <1>2, PlainMessageKeeps DEF ParentRequest

\* A find-parent request is answered without a check.
LEMMA AnswerUncheckedKeeps == ASSUME NEW m \in Message, IInv, AnswerUnchecked(m) PROVE IInv'
<1> USE ConstantsAssumption DEF IInv, TypeOK, AnswerUnchecked
<1>1. TypeTx' /\ FailuresAreReal'
  BY SentCounts, Kept DEF Uplinks
<1>2. TypeCheck'
  BY Kept DEF TypeCheck
<1> QED BY <1>1, <1>2, PlainMessageKeeps DEF ParentRequest

\* A message that changes nothing.
LEMMA IgnoreKeeps == ASSUME NEW m \in Message, IInv, Ignore(m) PROVE IInv'
<1> USE ConstantsAssumption DEF IInv, TypeOK, Ignore
<1>1. TypeTx' /\ FailuresAreReal'
  BY SentCounts, Kept DEF Uplinks
<1>2. TypeCheck'
  BY Kept
<1> QED BY <1>1, <1>2, PlainMessageKeeps

\* A message for the sketch or the core: up to two transmissions.
LEMMA AppMessageKeeps == ASSUME NEW m \in Message, IInv, AppMessage(m) PROVE IInv'
<1> USE ConstantsAssumption DEF IInv, TypeOK, AppMessage
<1>1. PICK replies \in BOOLEAN, ok1 \in BOOLEAN, ok2 \in BOOLEAN :
        SentTwice(Acks(m), ok1,
                  uplinkOk /\ replies /\ Uplinks(GATEWAY_ADDRESS, nodeId, route'), ok2)
  OBVIOUS
<1> DEFINE ack   == Acks(m)
           reply == uplinkOk /\ replies /\ Uplinks(GATEWAY_ADDRESS, nodeId, route')
<1>2. TypeTx' /\ FailuresAreReal'
  <2>1. ack \in BOOLEAN /\ reply \in BOOLEAN /\ SentTwice(ack, ok1, reply, ok2)
    BY <1>1 DEF Acks
  <2> HIDE DEF ack, reply
  <2> QED BY <2>1, SentTwiceCounts
<1>3. TypeCheck' /\ route' \in {RouteAfter(m), NoRoutes}
  BY Kept
<1> QED BY <1>2, <1>3, PlainMessageKeeps

\* A message whose handler waits: the main loop runs above its frame.
LEMMA HandlerWaitsKeeps == ASSUME NEW m \in Message, IInv, HandlerWaits(m) PROVE IInv'
<1> USE ConstantsAssumption DEF IInv, TypeOK, HandlerWaits
<1>1. TypeSM' /\ TypeRoute' /\ TypeCore' /\ TypeRx'
  BY ReceiveKeeps, RouteAfterType DEF TypeRoute
<1>2. TypePing' /\ TypeCheck' /\ TypeConfig' /\ Identity'
  BY Kept
<1>3. TypeTx' /\ FailuresAreReal'
  BY SentCounts DEF Acks
<1>4. TypeFlags'
  BY DEF TypeFlags, Receive
<1>5. left - 1 \in 0 .. MAX_SUBSEQ_MSGS /\ AUTO \in Ids
  BY DEF TypeCtrl, Receive, AUTO, Ids
<1>6. /\ calls' \in Seq(Frame)
      /\ (Pinging' <=> Pinging) /\ ~OnTop("ping")'
  BY <1>5, SuspendPushes
<1>7. TypeCtrl'
  <2>1. left' = 0 /\ 0 \in 0 .. MAX_SUBSEQ_MSGS /\ lastIsPong' = FALSE
    OBVIOUS
  <2>2. pc' \in {"update", "begin"}
    OBVIOUS
  <2> QED BY <1>6, <2>1, <2>2 DEF TypeCtrl
<1>8. Attachment'
  BY DEF TypeFlags, Attachment, Receive, smVars, configVars
<1>9. CallStack'
  <2>1. ControlOnTop' /\ PingSlot'
    BY <1>6 DEF CallStack, ControlOnTop, PingSlot, Receive, smVars, pingVars
  <2> QED BY <2>1 DEF CallStack
<1>10. PreferredParentKept'
  BY DEF PreferredParentKept, configVars
<1> QED BY <1>1, <1>2, <1>3, <1>4, <1>7, <1>8, <1>9, <1>10

\* An offer: an accepted one is from a peer and has a valid distance.
LEMMA ParentResponseKeeps == ASSUME NEW m \in Message, IInv, ParentResponse(m) PROVE IInv'
<1> USE ConstantsAssumption DEF IInv, TypeOK, ParentResponse
<1>1. TypeSM' /\ TypeRoute' /\ TypeCore' /\ TypeRx' /\ TypeCtrl'
  BY ReceiveKeeps, ConsumeKeeps, RouteAfterType DEF TypeRoute
<1>2. TypeTx' /\ TypePing' /\ TypeCheck' /\ FailuresAreReal'
  BY Kept
<1>3. /\ m.sender \in Peers /\ m.val \in 0 .. 254
      /\ nodeId' = nodeId /\ eepromNodeId' = eepromNodeId
  BY MessageFields DEF INVALID
<1>4. TypeFlags'
  BY DEF TypeFlags, Receive, Preferred
<1>5. TypeConfig'
  BY <1>3 DEF TypeConfig, Ids, AUTO
<1>6. Attachment'
  BY <1>3 DEF TypeSM, TypeFlags, TypeConfig, Attachment, Receive, Accepts, smVars
<1>7. Identity'
  BY <1>3 DEF Identity
<1>8. CallStack'
  <2>1. PingSlot'
    BY SameStack DEF CallStack, PingSlot, Receive, Consume, smVars, pingVars
  <2> QED BY <2>1, MessageKeepsStack
<1>9. PreferredParentKept'
  BY DEF TypeFlags, PreferredParentKept, Accepts, Preferred
<1> QED BY <1>1, <1>2, <1>4, <1>5, <1>6, <1>7, <1>8, <1>9

\* A pong ends the ping in progress.
LEMMA PongKeeps == ASSUME NEW m \in Message, IInv, Pong(m) PROVE IInv'
<1> USE ConstantsAssumption DEF IInv, TypeOK, Pong
<1>1. TypeSM' /\ TypeRoute' /\ TypeCore' /\ TypeRx' /\ TypeCtrl'
  BY ReceiveKeeps, ConsumeKeeps, RouteAfterType DEF TypeRoute
<1>2. TypeTx' /\ TypeCheck' /\ TypeConfig' /\ Identity' /\ FailuresAreReal'
  BY Kept
<1>3. m.val \in 0 .. 255 /\ m.val # INVALID
  BY MessageFields
<1>4. TypeFlags'
  BY DEF TypeFlags, Receive
<1>5. TypePing'
  <2>1. pingResponse' \in 0 .. 255
    BY <1>3 DEF TypePing, pingVars
  <2>2. pingActive' \in BOOLEAN
    BY DEF TypePing, pingVars
  <2> QED BY <2>1, <2>2 DEF TypePing
<1>6. Attachment'
  BY DEF TypeFlags, Attachment, Receive, smVars, configVars
<1>7. CallStack'
  <2>1. PingSlot'
    BY <1>3, SameStack DEF CallStack, PingSlot, Receive, Consume, smVars, pingVars
  <2> QED BY <2>1, MessageKeepsStack
<1>8. PreferredParentKept'
  BY DEF PreferredParentKept, configVars
<1> QED BY <1>1, <1>2, <1>4, <1>5, <1>6, <1>7, <1>8

\* An ID response reaches only a node without ID, so it replaces none.
LEMMA IdResponseKeeps == ASSUME NEW m \in Message, IInv, IdResponse(m) PROVE IInv'
<1> USE ConstantsAssumption DEF IInv, TypeOK, IdResponse
<1>1. TypeSM' /\ TypeRoute' /\ TypeCore' /\ TypeRx' /\ TypeCtrl'
  BY ReceiveKeeps, ConsumeKeeps, RouteAfterType DEF TypeRoute
<1>2. TypeTx' /\ TypePing' /\ TypeCheck' /\ FailuresAreReal'
  BY Kept
<1>3. nodeId = AUTO /\ eepromNodeId = AUTO /\ m.val \in Ids
  BY MessageFields DEF Identity, ForMe, Ids
<1>4. nodeId' = eepromNodeId' /\ nodeId' \in Ids /\ nodeId' # GATEWAY_ADDRESS
      /\ (MY_NODE_ID # AUTO => eepromNodeId' = AUTO)
  BY <1>3 DEF ValidId, Ids, AUTO, GATEWAY_ADDRESS
<1>5. TypeFlags'
  BY DEF TypeFlags, Receive
<1>6. TypeConfig'
  BY <1>4 DEF TypeConfig
<1>7. Attachment'
  BY <1>3 DEF TypeFlags, Attachment, Receive, smVars
<1>8. Identity'
  BY <1>4 DEF Identity
<1>9. CallStack'
  <2>1. PingSlot'
    BY SameStack DEF CallStack, PingSlot, Receive, Consume, smVars, pingVars
  <2> QED BY <2>1, MessageKeepsStack
<1>10. PreferredParentKept'
  BY DEF PreferredParentKept
<1> QED BY <1>1, <1>2, <1>5, <1>6, <1>7, <1>8, <1>9, <1>10

\* A find-parent request starts a ping: a frame for a node that is not the
\* parent, of a node that is ready.
LEMMA StartPingKeeps == ASSUME NEW m \in Message, IInv, StartPing(m) PROVE IInv'
<1> USE ConstantsAssumption DEF IInv, TypeOK, StartPing, ParentRequest
<1>1. TypeSM' /\ TypeRoute' /\ TypeCore' /\ TypeRx'
  BY ReceiveKeeps, RouteAfterType DEF TypeRoute
<1>2. TypeTx' /\ TypeCheck' /\ TypeConfig' /\ Identity' /\ FailuresAreReal'
  BY SentCounts, Kept DEF Uplinks
<1>3. TypeFlags'
  BY DEF TypeFlags, Receive
<1>4. TypePing'
  BY DEF TypePing, INVALID
<1>5. left - 1 \in 0 .. MAX_SUBSEQ_MSGS /\ m.sender \in Ids
  BY MessageFields DEF TypeCtrl, Receive
<1>6. /\ calls' \in Seq(Frame) /\ Len(calls') = Len(calls) + 1 /\ Len(calls) \in Nat
      /\ \A i \in 1 .. Len(calls) : calls'[i] = calls[i]
      /\ calls'[Len(calls) + 1].of = "ping" /\ calls'[Len(calls) + 1].for = m.sender
      /\ Pinging'
  BY <1>5, SuspendPushes DEF TypeCtrl
<1>7. TypeCtrl'
  <2>1. left' = 0 /\ 0 \in 0 .. MAX_SUBSEQ_MSGS /\ lastIsPong' = FALSE
    OBVIOUS
  <2>2. pc' \in {"update", "begin"}
    OBVIOUS
  <2> QED BY <1>6, <2>1, <2>2 DEF TypeCtrl
<1>8. Attachment'
  BY DEF TypeFlags, Attachment, Receive, smVars, configVars
<1>9. CallStack'
  <2>1. /\ uplinkOk /\ state = "Ready" /\ m.sender # parentNodeId
        /\ UNCHANGED <<state, findingParentNode, nodeId, parentNodeId>>
    BY DEF TypeFlags, Attachment, Willing, Receive, smVars, configVars
  <2>2. ControlOnTop' /\ PingSlot'
    BY <1>6, <2>1 DEF ControlOnTop, PingSlot
  <2> QED BY <2>2 DEF CallStack
<1>10. PreferredParentKept'
  BY DEF PreferredParentKept, configVars
<1> QED BY <1>1, <1>2, <1>3, <1>4, <1>7, <1>8, <1>9, <1>10

\* The processing of a received message preserves IInv.
LEMMA ProcessMessageKeeps == IInv /\ ProcessMessage => IInv'
<1> SUFFICES ASSUME IInv, ProcessMessage PROVE IInv'
  OBVIOUS
<1>1. Head(rx) \in Message
  BY FifoMessages DEF IInv, TypeOK, ProcessMessage
<1> QED
  BY <1>1, ParentResponseKeeps, PingKeeps, PongKeeps, AppMessageKeeps, HandlerWaitsKeeps,
     DiscoverKeeps, RelayKeeps, IdResponseKeeps, RefuseParentRequestKeeps, AnswerUncheckedKeeps,
     StartPingKeeps, IgnoreKeeps
  DEF ProcessMessage

\* The end of a ping takes its frame off the stack and frees the ping slot.
LEMMA PingReturnKeeps ==
  ASSUME IInv, PingReturn, TypeTx', FailuresAreReal', TypeCheck',
         distanceGW' \in 0 .. 255, state = "Ready" => distanceGW' # INVALID
  PROVE  IInv'
<1> USE ConstantsAssumption DEF IInv, TypeOK, PingReturn, FreePingSlot
<1>1. TypeRoute' /\ TypeCore' /\ TypeRx'
  BY Kept
<1>2. TypeSM' /\ TypeFlags'
  BY DEF TypeSM, TypeFlags, smVars, flagVars
<1>3. TypePing'
  BY DEF TypePing
<1>4. TypeConfig'
  BY DEF TypeConfig
<1>5. calls # <<>>
  BY DEF CallStack, ControlOnTop, OnTop
<1>6. Top \in Frame /\ calls' \in Seq(Frame)
  BY <1>5, ReturnPops
<1>8. TypeCtrl'
  <2>1. left' \in 0 .. MAX_SUBSEQ_MSGS
    BY <1>6 DEF Frame
  <2>2. lastIsPong' \in BOOLEAN
    BY DEF TypeCtrl
  <2> QED BY <1>6, <2>1, <2>2 DEF TypeCtrl
<1>9. Attachment'
  BY DEF TypeFlags, Attachment, smVars, flagVars
<1>10. Identity'
  BY DEF Identity
<1>11. CallStack'
  <2>1. PingSlot'
    BY DEF PingSlot
  <2> QED BY <2>1, ReturnKeeps
<1>12. PreferredParentKept'
  BY DEF PreferredParentKept, flagVars
<1> QED BY <1>1, <1>2, <1>3, <1>4, <1>8, <1>9, <1>10, <1>11, <1>12

\* No answer: the request stays unanswered.
LEMMA PingFailedKeeps == IInv /\ PingFailed => IInv'
<1> SUFFICES ASSUME IInv, PingFailed PROVE IInv'
  OBVIOUS
<1> USE DEF IInv, TypeOK, PingFailed
<1>1. TypeTx' /\ FailuresAreReal' /\ TypeCheck'
  BY Kept
<1>2. distanceGW' \in 0 .. 255 /\ (state = "Ready" => distanceGW' # INVALID)
  BY DEF TypeConfig, Attachment
<1> QED BY <1>1, <1>2, PingReturnKeeps

\* An answer: the other node is answered.
LEMMA AnswerCheckedKeeps == IInv /\ AnswerChecked => IInv'
<1> SUFFICES ASSUME IInv, AnswerChecked PROVE IInv'
  OBVIOUS
<1> USE ConstantsAssumption DEF IInv, TypeOK, AnswerChecked
<1>1. TypeTx' /\ FailuresAreReal'
  BY SentCounts DEF Uplinks
<1>2. TypeCheck'
  BY DEF TypeCheck
<1>3. distanceGW' \in 0 .. 255 /\ distanceGW' # INVALID
  BY DEF TypePing
<1> QED BY <1>1, <1>2, <1>3, PingReturnKeeps

\* Whatever the network sends is a message, if the node's ID is one.
LEMMA InboundMessages == nodeId \in Ids => Inbound \subseteq Message
<1> SUFFICES ASSUME nodeId \in Ids PROVE Inbound \subseteq Message
  OBVIOUS
<1>1. /\ Peers \subseteq Ids /\ Others \subseteq Ids /\ GATEWAY_ADDRESS \in Ids /\ AUTO \in Ids
      /\ BROADCAST_ADDRESS \in Ids /\ IdOffers \subseteq 0 .. 255 /\ Hops \subseteq 0 .. 255
      /\ GATEWAY_ADDRESS \in Peers /\ Others \subseteq Peers /\ INVALID \notin Hops
  BY ConstantsAssumption DEF Ids, Others, GATEWAY_ADDRESS, AUTO, BROADCAST_ADDRESS, INVALID
<1>2. IdResponses \subseteq Message
  <2> SUFFICES ASSUME NEW p \in Peers, NEW id \in IdOffers, NEW match \in BOOLEAN
               PROVE  Msg("ID_RESPONSE", GATEWAY_ADDRESS, p, AUTO, id, match) \in Message
    BY DEF IdResponses
  <2> QED BY <1>1 DEF Msg, Message, Kinds, INVALID
<1>3. Offers \subseteq Message
  <2> SUFFICES ASSUME NEW p \in Peers, NEW h \in Hops
               PROVE  Msg("FPAR_RESPONSE", p, p, nodeId, h, FALSE) \in Message
    BY DEF Offers, Msg
  <2> QED BY <1>1 DEF Msg, Message, Kinds, INVALID
<1>4. ParentRequests \subseteq Message
  <2> SUFFICES ASSUME NEW n \in Others \cup {AUTO}
               PROVE  Msg("FPAR_REQUEST", n, n, BROADCAST_ADDRESS, 0, FALSE) \in Message
    BY DEF ParentRequests
  <2> QED BY <1>1 DEF Msg, Message, Kinds, INVALID
<1>5. PingRequests \subseteq Message
  <2> SUFFICES ASSUME NEW n \in Others, NEW p \in Others
               PROVE  Msg("PING", n, p, nodeId, 1, FALSE) \in Message
    BY DEF PingRequests, Msg
  <2> QED BY <1>1 DEF Msg, Message, Kinds, INVALID
<1>6. Pongs \subseteq Message
  <2> SUFFICES ASSUME NEW p \in Peers, NEW n \in {nodeId} \cup Others, NEW h \in Hops
               PROVE  Msg("PONG", GATEWAY_ADDRESS, p, n, h, FALSE) \in Message
    BY DEF Pongs, Msg
  <2> QED BY <1>1 DEF Msg, Message, Kinds, INVALID
<1>7. Discoveries \subseteq Message
  <2> SUFFICES ASSUME NEW p \in Peers
               PROVE  Msg("DISCOVER", GATEWAY_ADDRESS, p, BROADCAST_ADDRESS, 0, FALSE) \in Message
    BY DEF Discoveries
  <2> QED BY <1>1 DEF Msg, Message, Kinds, INVALID
<1>8. AppMessages \subseteq Message
  <2>1. AppSent \subseteq Message
    <3> SUFFICES ASSUME NEW s \in Peers, NEW p \in Peers,
                        NEW n \in {nodeId, BROADCAST_ADDRESS} \cup Peers, NEW ack \in BOOLEAN
                 PROVE  Msg("APP", s, p, n, 0, ack) \in Message
      BY DEF AppSent
    <3> QED BY <1>1 DEF Msg, Message, Kinds, INVALID
  <2> QED BY <2>1 DEF AppMessages
<1> QED BY <1>2, <1>3, <1>4, <1>5, <1>6, <1>7, <1>8 DEF Inbound

\* A message arrives.
LEMMA DeliverKeeps == IInv /\ Deliver => IInv'
<1> SUFFICES ASSUME IInv, Deliver PROVE IInv'
  OBVIOUS
<1> USE DEF IInv, TypeOK
<1>1. PICK m \in Inbound : rx' = Append(rx, m)
  BY DEF Deliver
<1>2. UNCHANGED <<smVars, flagVars, txVars, pingVars, checkAge, configVars, eepromNodeId,
                  route, presentationSent, ctrlVars>>
  BY DEF Deliver
<1>3. /\ TypeTx' /\ TypePing' /\ TypeCheck' /\ TypeConfig' /\ TypeRoute'
      /\ TypeCore' /\ Identity' /\ FailuresAreReal'
  BY <1>2, Kept
<1>4. m \in Message
  BY InboundMessages DEF TypeConfig
<1>5. TypeRx'
  BY <1>1, <1>4 DEF TypeRx
<1>6. TypeSM' /\ TypeFlags'
  BY <1>2 DEF TypeSM, TypeFlags, smVars, flagVars
<1>7. TypeCtrl'
  BY <1>2 DEF TypeCtrl, ctrlVars
<1>8. Attachment' /\ PreferredParentKept'
  BY <1>2 DEF Attachment, PreferredParentKept, smVars, flagVars, configVars
<1>9. CallStack'
  BY <1>2, SameStack DEF CallStack, ControlOnTop, PingSlot, smVars, pingVars, ctrlVars
<1> QED BY <1>3, <1>5, <1>6, <1>7, <1>8, <1>9

\* A frame a tick older.
LEMMA OlderFrame ==
  ASSUME NEW call \in Frame
  PROVE  Older(call) \in Frame /\ Older(call).for = call.for /\ Older(call).of = call.of
<1>1. Least(call.age + 1, PING_TIMEOUT) \in Nat
  BY ConstantsAssumption DEF Frame, Least
<1> QED BY <1>1 DEF Older, Frame

\* Time passes.
LEMMA TickKeeps == IInv /\ Tick => IInv'
<1> SUFFICES ASSUME IInv, Tick PROVE IInv'
  OBVIOUS
<1> USE ConstantsAssumption DEF IInv, TypeOK, Tick
<1>1. /\ TypeTx' /\ TypePing' /\ TypeConfig' /\ TypeRoute' /\ TypeCore' /\ TypeRx'
      /\ Identity' /\ FailuresAreReal'
  BY Kept
<1>2. AgeLimit \in Nat
  BY DEF AgeLimit, FailureDelay
<1>3. TypeSM'
  BY <1>2 DEF TypeSM, Least, flagVars
<1>4. TypeFlags'
  BY DEF TypeFlags, flagVars
<1>5. TypeCheck'
  BY DEF TypeCheck, Least
<1>6. /\ calls' \in Seq(Frame) /\ Len(calls') = Len(calls) /\ (calls' = <<>> <=> calls = <<>>)
      /\ Len(calls) \in Nat
      /\ \A i \in 1 .. Len(calls) : calls'[i].for = calls[i].for /\ calls'[i].of = calls[i].of
  <2>1. calls \in Seq(Frame) /\ DOMAIN calls = 1 .. Len(calls) /\ Len(calls) \in Nat
    BY DEF TypeCtrl
  <2>2. \A i \in 1 .. Len(calls) : /\ Older(calls[i]) \in Frame
                                   /\ Older(calls[i]).for = calls[i].for
                                   /\ Older(calls[i]).of = calls[i].of
    BY <2>1, OlderFrame
  <2>3. calls' = [i \in 1 .. Len(calls) |-> Older(calls[i])]
    BY <2>1
  <2> QED BY <2>1, <2>2, <2>3
<1>7. TypeCtrl'
  BY <1>6 DEF TypeCtrl
<1>8. Attachment' /\ PreferredParentKept'
  BY DEF Attachment, PreferredParentKept, flagVars, configVars
<1>9. CallStack'
  <2>1. (Pinging' <=> Pinging) /\ (OnTop("ping")' <=> OnTop("ping"))
    <3>1. Pinging' <=> Pinging
      BY <1>6 DEF Pinging
    <3>2. calls # <<>> => Len(calls) \in 1 .. Len(calls)
      BY <1>6 DEF TypeCtrl
    <3>3. OnTop("ping")' <=> OnTop("ping")
      BY <1>6, <3>2 DEF OnTop, Top
    <3> QED BY <3>1, <3>3
  <2>2. /\ UNCHANGED <<pc, pingActive, pingResponse, state, findingParentNode, nodeId, parentNodeId>>
        /\ CallStack
    BY DEF flagVars, pingVars, configVars
  <2> HIDE DEF IInv, Tick
  <2>3. ControlOnTop' /\ PingSlot'
    BY <2>1, <2>2 DEF CallStack, ControlOnTop, PingSlot
  <2> QED BY <2>3 DEF CallStack
<1> QED BY <1>1, <1>3, <1>4, <1>5, <1>7, <1>8, <1>9

\* The node restarts: only the EEPROM is left.
LEMMA PowerOnKeeps == IInv /\ PowerOn => IInv'
<1> SUFFICES ASSUME IInv, PowerOn PROVE IInv'
  OBVIOUS
<1> USE ConstantsAssumption DEF IInv, TypeOK, PowerOn
<1>1. TypeSM' /\ TypeRoute'
  BY DEF TypeSM, TypeRoute, States
<1>2. TypeFlags'
  BY DEF TypeFlags
<1>3. TypeTx' /\ FailuresAreReal'
  BY DEF TypeTx, FailuresAreReal
<1>4. pingActive' \in BOOLEAN /\ presentationSent' \in BOOLEAN /\ lastIsPong' \in BOOLEAN
  OBVIOUS
<1>5. /\ pingResponse' \in 0 .. 255 /\ left' \in 0 .. MAX_SUBSEQ_MSGS
      /\ pc' \in {"update", "begin", "fifo", "wait"}
  OBVIOUS
<1>6. calls' \in Seq(Frame) /\ rx' \in Seq(Message)
  OBVIOUS
<1>7. TypePing' /\ TypeCore' /\ TypeCtrl' /\ TypeRx'
  BY <1>4, <1>5, <1>6 DEF TypePing, TypeCore, TypeCtrl, TypeRx
<1>8. TypeCheck' /\ TypeConfig'
  BY DEF TypeCheck, TypeConfig, Ids, AUTO, INVALID
<1>9. Attachment' /\ PreferredParentKept'
  BY DEF Attachment, PreferredParentKept
<1>10. Identity'
  BY DEF Identity
<1>11. CallStack'
  BY DEF CallStack, ControlOnTop, PingSlot, OnTop, Pinging
<1> QED BY <1>1, <1>2, <1>3, <1>7, <1>8, <1>9, <1>10, <1>11

-----------------------------------------------------------------------------
(* The inductive invariant. *)

\* The invariant holds at the first start.
LEMMA InitIInv == Init => IInv
<1> SUFFICES ASSUME Init PROVE IInv
  OBVIOUS
<1> USE ConstantsAssumption DEF Init
<1>1. TypeSM /\ TypeRoute
  BY DEF TypeSM, TypeRoute, NoRoutes, States, Ids, AUTO
<1>2. TypeFlags
  BY DEF TypeFlags
<1>3. TypeTx /\ FailuresAreReal
  BY DEF TypeTx, FailuresAreReal
<1>4. pingActive \in BOOLEAN /\ presentationSent \in BOOLEAN /\ lastIsPong \in BOOLEAN
  OBVIOUS
<1>5. /\ pingResponse \in 0 .. 255 /\ left \in 0 .. MAX_SUBSEQ_MSGS
      /\ pc \in {"update", "begin", "fifo", "wait"}
  OBVIOUS
<1>6. calls \in Seq(Frame) /\ rx \in Seq(Message)
  OBVIOUS
<1>7. TypePing /\ TypeCore /\ TypeCtrl /\ TypeRx
  BY <1>4, <1>5, <1>6 DEF TypePing, TypeCore, TypeCtrl, TypeRx
<1>8. TypeCheck /\ TypeConfig
  BY DEF TypeCheck, TypeConfig, Ids, AUTO, INVALID
<1>9. Attachment /\ PreferredParentKept
  BY DEF Attachment, PreferredParentKept
<1>10. Identity
  BY DEF Identity, AUTO, GATEWAY_ADDRESS
<1>11. CallStack
  BY DEF CallStack, ControlOnTop, PingSlot, OnTop, Pinging
<1> QED BY <1>1, <1>2, <1>3, <1>7, <1>8, <1>9, <1>10, <1>11 DEF IInv, TypeOK

\* Every step preserves it, and a stutter changes nothing.
LEMMA NextIInv == IInv /\ [Next]_vars => IInv'
<1> SUFFICES ASSUME IInv, [Next]_vars PROVE IInv'
  OBVIOUS
<1>1. CASE Update
  BY <1>1, RadioFailsKeeps, RadioStartsKeeps, ParentFoundKeeps, SearchAgainKeeps,
     NoParentFoundKeeps, IdKnownKeeps, RequestIdAgainKeeps, NoIdReceivedKeeps,
     UplinkWorksKeeps, PingAgainKeeps, UplinkFailsKeeps, UplinkLostKeeps,
     StaticUplinkLostKeeps, TryAgainKeeps, StateStaysKeeps
  DEF Update
<1>2. CASE FifoBegin \/ ProcessMessage \/ FifoEnd
  BY <1>2, FifoBeginKeeps, ProcessMessageKeeps, FifoEndKeeps
<1>3. CASE PingContinue \/ PingFailed \/ AnswerChecked
  BY <1>3, PingContinueKeeps, PingFailedKeeps, AnswerCheckedKeeps
<1>4. CASE CallbackReturn \/ HandlerReturn \/ SketchSend \/ Deliver \/ Tick \/ PowerOn
  BY <1>4, CallbackReturnKeeps, HandlerReturnKeeps, SketchSendKeeps, DeliverKeeps, TickKeeps, PowerOnKeeps
<1>5. CASE UNCHANGED vars
  <2>1. UNCHANGED <<smVars, flagVars, txVars, pingVars, checkAge, configVars,
                    eepromNodeId, route, presentationSent, rx, ctrlVars>>
    BY <1>5 DEF vars
  <2> USE <2>1 DEF IInv, TypeOK
  <2>2. /\ TypeTx' /\ TypePing' /\ TypeCheck' /\ TypeConfig' /\ TypeRoute'
        /\ TypeCore' /\ TypeRx' /\ Identity' /\ FailuresAreReal'
    BY Kept
  <2>3. TypeSM' /\ TypeFlags'
    BY DEF TypeSM, TypeFlags, smVars, flagVars
  <2>4. TypeCtrl'
    BY DEF TypeCtrl, ctrlVars
  <2>5. Attachment' /\ PreferredParentKept'
    BY DEF Attachment, PreferredParentKept, smVars, flagVars, configVars
  <2>6. CallStack'
    BY SameStack DEF CallStack, ControlOnTop, PingSlot, smVars, pingVars, ctrlVars
  <2> QED BY <2>2, <2>3, <2>4, <2>5, <2>6
<1> QED BY <1>1, <1>2, <1>3, <1>4, <1>5 DEF Next, Program

\* IInv holds in every reachable state.
THEOREM Invariance == Spec => []IInv
  BY InitIInv, NextIInv, PTL DEF Spec

-----------------------------------------------------------------------------
(* The properties. *)

\* Every variable stays within its bit field, ID range or bound, however
\* messages, timeouts, callbacks and restarts interleave.
THEOREM TypeCorrect == Spec => []TypeOK
<1>1. IInv => TypeOK
  BY DEF IInv
<1> QED BY <1>1, Invariance, PTL

\* A node that calls itself ready has a parent, an ID, a distance and a radio.
THEOREM ReadyCorrect == Spec => []ReadyIsAttached
<1>1. IInv => ReadyIsAttached
  BY DEF IInv, TypeOK, TypeFlags, Attachment, Identity, ReadyIsAttached, ValidId
<1> QED BY <1>1, Invariance, PTL

\* No lost pong keeps the ping slot of a ready node taken.
THEOREM PingSlotCorrect == Spec => []PingSlotFreed
<1>1. IInv => PingSlotFreed
  BY DEF IInv, CallStack, PingSlot, PingSlotFreed
<1> QED BY <1>1, Invariance, PTL

\* A static parent, or a preferred parent found, is the parent.
THEOREM PreferredParentCorrect == Spec => []PreferredParentKept
<1>1. IInv => PreferredParentKept
  BY DEF IInv
<1> QED BY <1>1, Invariance, PTL

\* Only a start with a static ID and an ID response write the EEPROM.
LEMMA EepromWrites == [Next]_vars => \/ UNCHANGED eepromNodeId
                                     \/ RadioStarts
                                     \/ \E m \in {Head(rx)} : IdResponse(m)
<1> SUFFICES ASSUME [Next]_vars, ~RadioStarts, ~ \E m \in {Head(rx)} : IdResponse(m)
             PROVE  UNCHANGED eepromNodeId
  OBVIOUS
<1>1. CASE Update
  BY <1>1 DEF Update, RadioFails, ParentFound, SearchAgain, NoParentFound, IdKnown,
     RequestIdAgain, NoIdReceived, UplinkWorks, PingAgain, UplinkFails, UplinkLost,
     StaticUplinkLost, TryAgain, StateStays
<1>2. CASE FifoBegin \/ FifoEnd \/ PingContinue \/ PingFailed \/ AnswerChecked
  BY <1>2 DEF FifoBegin, FifoEnd, PingContinue, PingFailed, AnswerChecked, PingReturn
<1>3. CASE ProcessMessage
  BY <1>3 DEF ProcessMessage, ParentResponse, Ping, Pong, AppMessage, HandlerWaits, Discover, Relay,
     RefuseParentRequest, AnswerUnchecked, StartPing, Ignore
<1>4. CASE CallbackReturn \/ HandlerReturn \/ SketchSend \/ Deliver \/ Tick \/ PowerOn
  BY <1>4 DEF CallbackReturn, HandlerReturn, SketchSend, Deliver, Tick, PowerOn
<1>5. CASE UNCHANGED vars
  BY <1>5 DEF vars
<1> QED BY <1>1, <1>2, <1>3, <1>4, <1>5 DEF Next, Program

\* Once an ID is stored nothing the node receives, no failure and no restart changes it.
THEOREM IdentityCorrect == Spec => IdentityKept
<1>1. ASSUME IInv, [Next]_vars
      PROVE  /\ nodeId # AUTO => nodeId = eepromNodeId
             /\ eepromNodeId # AUTO => eepromNodeId' = eepromNodeId
  <2> USE <1>1, ConstantsAssumption DEF IInv, Identity
  <2>1. CASE UNCHANGED eepromNodeId
    BY <2>1
  <2>2. CASE RadioStarts
    BY <2>2 DEF RadioStarts
  <2>3. CASE \E m \in {Head(rx)} : IdResponse(m)
    <3>1. Head(rx) \in Message
      BY <2>3 DEF IdResponse, Receive, TypeOK, TypeRx
    <3>2. nodeId = AUTO
      BY <2>3, <3>1 DEF IdResponse, ForMe, Message
    <3> QED BY <3>2
  <2> QED BY <2>1, <2>2, <2>3, EepromWrites
<1> QED BY <1>1, Invariance, PTL DEF Spec, IdentityKept

\* Only lost uplink transmissions take a ready node back to the search.
LEMMA ReadyToParent == IInv /\ [Next]_vars /\ state = "Ready" /\ state' = "Parent" => UplinkLost
<1> SUFFICES ASSUME IInv, [Next]_vars, state = "Ready", state' = "Parent", ~UplinkLost
             PROVE  FALSE
  OBVIOUS
<1>1. CASE Update
  BY <1>1 DEF Update, RadioFails, RadioStarts, ParentFound, SearchAgain, NoParentFound, IdKnown,
     RequestIdAgain, NoIdReceived, UplinkWorks, PingAgain, UplinkFails,
     StaticUplinkLost, TryAgain, StateStays, smVars
<1>2. CASE FifoBegin \/ FifoEnd \/ PingContinue \/ PingFailed \/ AnswerChecked
  BY <1>2 DEF FifoBegin, FifoEnd, PingContinue, PingFailed, AnswerChecked, PingReturn,
     ToFailure, Switch, smVars
<1>3. CASE ProcessMessage
  <2>1. PICK m \in {Head(rx)} : Receive(m)
    BY <1>3 DEF ProcessMessage, ParentResponse, Ping, Pong, AppMessage, HandlerWaits, Discover, Relay, IdResponse,
       RefuseParentRequest, AnswerUnchecked, StartPing, Ignore, ParentRequest
  <2> QED BY <2>1 DEF Receive, smVars
<1>4. CASE CallbackReturn \/ HandlerReturn \/ SketchSend \/ Deliver \/ Tick \/ PowerOn
  BY <1>4 DEF CallbackReturn, HandlerReturn, SketchSend, Deliver, Tick, PowerOn, smVars
<1>5. CASE UNCHANGED vars
  BY <1>5 DEF vars, smVars
<1> QED BY <1>1, <1>2, <1>3, <1>4, <1>5 DEF Next, Program

\* A ready node searches a new parent only after more than MAX_TX_FAILURES
\* failures in a row: the counter, even cut to its bits, never runs ahead.
THEOREM SearchCorrect == Spec => NoHastySearch
<1>1. ASSUME IInv, [Next]_vars
      PROVE  state = "Ready" /\ state' = "Parent" => unacked > MAX_TX_FAILURES
  <2> SUFFICES ASSUME state = "Ready", state' = "Parent" PROVE unacked > MAX_TX_FAILURES
    OBVIOUS
  <2>1. failedUplinkTransmissions > MAX_TX_FAILURES
    BY <1>1, ReadyToParent DEF UplinkLost
  <2> QED BY <1>1, <2>1, ConstantsAssumption DEF IInv, TypeOK, TypeTx, FailuresAreReal
<1> QED BY <1>1, Invariance, PTL DEF Spec, NoHastySearch

-----------------------------------------------------------------------------
(* The node lives the life of NodeLife. *)

\* A search is one whose flags say so, and has the preferred parent as its
\* candidate only after that one answered.
SearchInv ==
  /\ state = "Parent" => (findingParentNode <=> ~ParentIsStatic)
  /\ state = "Parent" /\ parentNodeId = MY_PARENT_NODE_ID /\ MY_PARENT_NODE_ID # AUTO
       => ParentIsStatic \/ preferredParentFound

LInv == IInv /\ SearchInv

\* The phase of each state.
PhaseAt(s) == CASE s \in {"Init", "Failure"} -> "down"
                [] s = "Parent" /\ ~ParentIsStatic -> "searching"
                [] s \in {"ID", "Uplink"} \/ (s = "Parent" /\ ParentIsStatic) -> "joining"
                [] s = "Ready" -> "attached"

LEMMA Phases == (LInv => phase = PhaseAt(state)) /\ (LInv' => phase' = PhaseAt(state'))
<1>1. LInv => phase = PhaseAt(state)
  BY DEF LInv, IInv, TypeOK, TypeSM, TypeFlags, States, Attachment, SearchInv, phase, PhaseAt
<1>2. LInv' => phase' = PhaseAt(state')
  BY DEF LInv, IInv, TypeOK, TypeSM, TypeFlags, States, Attachment, SearchInv, phase, PhaseAt
<1> QED BY <1>1, <1>2

LifeStep == SearchInv' /\ [Life!ANext]_(Life!avars)

\* What leaves the flags and the configuration alone is no step of this life.
LEMMA Quiet ==
  ASSUME LInv, UNCHANGED <<state, flagVars, configVars>>
  PROVE  LifeStep
<1>1. SearchInv'
  BY DEF LInv, SearchInv, flagVars, configVars
<1>2. UNCHANGED Life!avars
  BY DEF Life!avars, phase, flagVars, configVars
<1> QED BY <1>1, <1>2 DEF LifeStep

\* A failure is a step of this life, in whatever state it happens.
LEMMA Failing ==
  ASSUME LInv, ~uplinkOk', ~transportActive', state' \in {"Init", "Failure"}, nodeId' = nodeId
  PROVE  LifeStep
<1>1. SearchInv'
  BY DEF SearchInv
<1>2. phase' = "down"
  BY DEF phase
<1>3. Life!Fail
  BY <1>2 DEF Life!Fail
<1> QED BY <1>1, <1>3 DEF LifeStep, Life!ANext

\* So is a new search.
LEMMA Searching ==
  ASSUME LInv, ToParent, transportActive'
  PROVE  SearchInv' /\ Life!Begins
<1>1. SearchInv'
  BY DEF SearchInv, ToParent, Switch
<1>2. CASE ParentIsStatic
  <2>1. phase' = "joining" /\ parentNodeId' = MY_PARENT_NODE_ID /\ distanceGW' = 1
    BY <1>2 DEF phase, ToParent
  <2> QED BY <1>1, <1>2, <2>1 DEF Life!Begins
<1>3. CASE ~ParentIsStatic
  <2>1. phase' = "searching" /\ parentNodeId' = AUTO /\ distanceGW' = INVALID
    BY <1>3 DEF phase, ToParent
  <2> QED BY <1>1, <1>3, <2>1 DEF Life!Begins
<1> QED BY <1>2, <1>3

LEMMA SearchingAgain ==
  ASSUME LInv, ToParent, UNCHANGED <<transportActive, nodeId>>,
         \/ state = "Parent" /\ ~ParentIsStatic /\ parentNodeId = AUTO
         \/ state = "Uplink" \/ (state = "Ready" /\ ~ParentIsStatic)
  PROVE  LifeStep
<1>1. transportActive'
  BY DEF LInv, IInv, Attachment
<1>2. SearchInv' /\ Life!Begins
  BY <1>1, Searching
<1>3. /\ phase \in {"searching", "joining", "attached"}
      /\ phase = "searching" => parentNodeId = AUTO
      /\ phase = "attached" => ~ParentIsStatic
  BY Phases DEF PhaseAt
<1>4. Life!SearchAgain
  BY <1>2, <1>3 DEF Life!SearchAgain
<1> QED BY <1>2, <1>4 DEF LifeStep, Life!ANext

LEMMA RadioStartsLife == LInv /\ RadioStarts => LifeStep
<1> SUFFICES ASSUME LInv, RadioStarts PROVE LifeStep
  OBVIOUS
<1>1. nodeId = eepromNodeId /\ nodeId # GATEWAY_ADDRESS /\ nodeId \in Ids
      /\ (MY_NODE_ID # AUTO => eepromNodeId \in {AUTO, MY_NODE_ID})
  BY DEF LInv, IInv, Identity, TypeOK, TypeConfig
<1>2. ConfiguredId \in Ids /\ ConfiguredId # GATEWAY_ADDRESS
      /\ (ConfiguredId = nodeId \/ (nodeId = AUTO /\ ConfiguredId # AUTO))
  BY <1>1, ConstantsAssumption DEF ConfiguredId
<1>3. ToParent /\ nodeId' = ConfiguredId /\ transportActive'
  BY <1>2 DEF RadioStarts
<1>4. SearchInv' /\ Life!Begins
  BY <1>3, Searching
<1>5. phase = "down"
  BY Phases DEF PhaseAt, RadioStarts
<1>6. Life!GetsId \/ nodeId' = nodeId
  BY <1>2, <1>3 DEF Life!GetsId, Life!KnowsId, ValidId
<1>7. Life!Start
  BY <1>4, <1>5, <1>6 DEF Life!Start
<1> QED BY <1>4, <1>7 DEF LifeStep, Life!ANext

LEMMA ParentFoundLife == LInv /\ ParentFound => LifeStep
<1> SUFFICES ASSUME LInv, ParentFound PROVE LifeStep
  OBVIOUS
<1>1. /\ state = "Parent" /\ state' = "ID" /\ uplinkOk' = uplinkOk /\ transportActive' = transportActive
      /\ UNCHANGED configVars /\ ~uplinkOk /\ transportActive
  BY DEF ParentFound, ToID, Switch, LInv, IInv, Attachment
<1>2. SearchInv'
  BY <1>1 DEF SearchInv
<1>3. CASE ParentIsStatic
  <2>1. ~findingParentNode /\ ~findingParentNode'
    BY <1>3 DEF ParentFound, LInv, IInv, Attachment
  <2>2. UNCHANGED Life!avars
    BY <1>1, <2>1 DEF Life!avars, phase, configVars
  <2> QED BY <1>2, <2>2 DEF LifeStep
<1>4. CASE ~ParentIsStatic
  <2>1. parentNodeId # AUTO /\ ~findingParentNode' /\ findingParentNode
    BY <1>1, <1>4 DEF ParentFound, LInv, SearchInv
  <2>2. phase = "searching" /\ phase' = "joining"
    BY <1>1, <2>1 DEF phase
  <2>3. Life!Found
    BY <1>1, <2>1, <2>2 DEF Life!Found, configVars
  <2> QED BY <1>2, <2>3 DEF LifeStep, Life!ANext
<1> QED BY <1>3, <1>4

LEMMA UplinkWorksLife == LInv /\ UplinkWorks => LifeStep
<1> SUFFICES ASSUME LInv, UplinkWorks PROVE LifeStep
  OBVIOUS
<1>1. /\ state' = "Ready" /\ uplinkOk' /\ UNCHANGED <<parentNodeId, nodeId>>
      /\ distanceGW' = pingResponse /\ pingResponse # INVALID /\ pingResponse \in 0 .. 255
  BY DEF UplinkWorks, ToReady, Switch, LInv, IInv, TypeOK, TypePing
<1>2. SearchInv'
  BY <1>1 DEF SearchInv
<1>3. phase = "joining" /\ nodeId # AUTO
  BY Phases DEF PhaseAt, UplinkWorks, LInv, IInv, Attachment
<1>4. phase' = "attached"
  BY <1>1 DEF phase
<1>5. Life!Attach
  BY <1>1, <1>3, <1>4 DEF Life!Attach, Life!KnowsId
<1> QED BY <1>2, <1>5 DEF LifeStep, Life!ANext

\* A failed node that tries again is still down.
LEMMA TryAgainLife == LInv /\ TryAgain => LifeStep
<1> SUFFICES ASSUME LInv, TryAgain PROVE LifeStep
  OBVIOUS
<1>1. state' = "Init" /\ ~uplinkOk' /\ ~transportActive' /\ nodeId' = nodeId
  BY DEF TryAgain, ToInit, Switch, LInv, IInv, Attachment, Identity
<1> QED BY <1>1, Failing

LEMMA UpdateLife == LInv /\ Update => LifeStep
<1> SUFFICES ASSUME LInv, Update PROVE LifeStep
  OBVIOUS
<1>1. CASE RadioFails \/ NoParentFound \/ NoIdReceived
  <2>1. state' = "Failure" /\ ~uplinkOk' /\ ~transportActive' /\ nodeId' = nodeId
    BY <1>1 DEF RadioFails, NoParentFound, NoIdReceived, ToFailure, Switch, configVars
  <2> QED BY <2>1, Failing
<1>2. CASE SearchAgain
  BY <1>2, SearchingAgain DEF SearchAgain, SearchEnds
<1>3. CASE UplinkFails
  BY <1>3, SearchingAgain DEF UplinkFails
<1>4. CASE UplinkLost
  BY <1>4, SearchingAgain DEF UplinkLost
<1>5. CASE IdKnown \/ RequestIdAgain \/ PingAgain
  <2>1. state \in {"ID", "Uplink"} /\ state' \in {"ID", "Uplink"} /\ UNCHANGED <<flagVars, configVars>>
    BY <1>5 DEF IdKnown, RequestIdAgain, PingAgain, ToUplink, ToID, Switch
  <2>2. SearchInv'
    BY <2>1 DEF SearchInv
  <2>3. UNCHANGED Life!avars
    BY <2>1 DEF Life!avars, phase, flagVars, configVars
  <2> QED BY <2>2, <2>3 DEF LifeStep
<1>6. CASE StaticUplinkLost \/ StateStays
  BY <1>6, Quiet DEF StaticUplinkLost, StateStays, smVars
<1> QED BY <1>1, <1>2, <1>3, <1>4, <1>5, <1>6, RadioStartsLife, ParentFoundLife, UplinkWorksLife,
           TryAgainLife DEF Update

\* An offer taken is one step of the search; while the node is down nobody sees it.
LEMMA ParentResponseLife == ASSUME NEW m \in Message, LInv, ParentResponse(m) PROVE LifeStep
<1>1. /\ UNCHANGED <<state, uplinkOk, transportActive, findingParentNode, nodeId>>
      /\ phase' = phase
  BY DEF ParentResponse, Receive, smVars, phase
<1>2. CASE ~Accepts(m)
  <2>1. UNCHANGED <<state, flagVars, configVars>>
    BY <1>1, <1>2 DEF ParentResponse, Receive, flagVars, configVars
  <2> QED BY <2>1, Quiet
<1>3. CASE Accepts(m)
  <2>1. /\ preferredParentFound' = (preferredParentFound \/ Preferred(m))
        /\ distanceGW' = m.val + 1 /\ parentNodeId' = m.sender
        /\ ~ParentIsStatic /\ findingParentNode /\ ~preferredParentFound
        /\ Preferred(m) \/ m.val + 1 < distanceGW
    BY <1>3 DEF ParentResponse, Accepts
  <2>2. m.sender \in Peers /\ m.val + 1 \in 0 .. 255
    BY MessageFields DEF ParentResponse, INVALID
  <2>3. SearchInv'
    BY <1>1, <2>1 DEF LInv, SearchInv, Preferred
  <2>4. CASE phase = "down"
    BY <1>1, <2>3, <2>4 DEF LifeStep, Life!avars
  <2>5. CASE phase # "down"
    <3>1. state = "Parent" /\ phase = "searching"
      BY <2>1, <2>5, Phases DEF PhaseAt, LInv, IInv, Attachment, TypeOK, TypeSM, States
    <3>2. parentNodeId = AUTO \/ parentNodeId # MY_PARENT_NODE_ID
      BY <2>1, <3>1 DEF LInv, SearchInv
    <3>3. m.sender = MY_PARENT_NODE_ID \/ m.val + 1 < distanceGW
      BY <2>1 DEF Preferred
    <3>4. Life!Choose
      BY <1>1, <2>1, <2>2, <3>1, <3>2, <3>3 DEF Life!Choose
    <3> QED BY <2>3, <3>4 DEF LifeStep, Life!ANext
  <2> QED BY <2>4, <2>5
<1> QED BY <1>2, <1>3

\* An ID is taken by a node that has none, and is not attached therefore.
LEMMA IdResponseLife == ASSUME NEW m \in Message, LInv, IdResponse(m) PROVE LifeStep
<1>1. UNCHANGED <<state, flagVars, parentNodeId, distanceGW>>
  BY DEF IdResponse, Receive, smVars, flagVars
<1>2. nodeId = AUTO /\ m.val \in Ids
  BY MessageFields DEF IdResponse, ForMe, Ids
<1>3. nodeId' = AUTO \/ (nodeId' = m.val /\ ValidId(m.val))
  BY <1>2 DEF IdResponse
<1>4. SearchInv' /\ phase' = phase
  BY <1>1 DEF LInv, SearchInv, flagVars, phase
<1>5. phase # "attached"
  BY <1>2 DEF phase, LInv, IInv, Attachment
<1>6. CASE nodeId' = AUTO
  BY <1>1, <1>2, <1>4, <1>6 DEF LifeStep, Life!avars
<1>7. CASE nodeId' = m.val /\ ValidId(m.val)
  <2>1. Life!LearnId
    BY <1>1, <1>2, <1>4, <1>5, <1>7 DEF Life!LearnId, Life!GetsId, Life!KnowsId
  <2> QED BY <1>4, <2>1 DEF LifeStep, Life!ANext
<1> QED BY <1>3, <1>6, <1>7

LEMMA MessageLife == LInv /\ ProcessMessage => LifeStep
<1> SUFFICES ASSUME LInv, ProcessMessage PROVE LifeStep
  OBVIOUS
<1>1. Head(rx) \in Message
  BY DEF ProcessMessage, LInv, IInv, TypeOK, TypeRx
<1>2. PICK m \in {Head(rx)} :
        \/ ParentResponse(m) \/ IdResponse(m)
        \/ Ping(m) \/ Pong(m) \/ AppMessage(m) \/ HandlerWaits(m) \/ Discover(m) \/ Relay(m)
        \/ RefuseParentRequest(m) \/ AnswerUnchecked(m) \/ StartPing(m) \/ Ignore(m)
  BY DEF ProcessMessage
<1>3. CASE ~(ParentResponse(m) \/ IdResponse(m))
  <2>1. Receive(m) /\ UNCHANGED <<preferredParentFound, configVars>>
    BY <1>2, <1>3 DEF Ping, Pong, AppMessage, HandlerWaits, Discover, Relay, RefuseParentRequest,
       AnswerUnchecked, StartPing, Ignore, ParentRequest
  <2>2. UNCHANGED <<state, flagVars, configVars>>
    BY <2>1 DEF Receive, smVars, flagVars
  <2> QED BY <2>2, Quiet
<1> QED BY <1>1, <1>2, <1>3, ParentResponseLife, IdResponseLife

\* The answer to a find-parent request measures the distance, in any state.
LEMMA AnswerCheckedLife == LInv /\ AnswerChecked => LifeStep
<1> SUFFICES ASSUME LInv, AnswerChecked PROVE LifeStep
  OBVIOUS
<1>1. /\ UNCHANGED <<state, flagVars, nodeId, parentNodeId>>
      /\ distanceGW' = pingResponse /\ pingResponse # INVALID /\ pingResponse \in 0 .. 255
  BY DEF AnswerChecked, PingReturn, smVars, LInv, IInv, TypeOK, TypePing
<1>2. SearchInv' /\ phase' = phase
  BY <1>1 DEF LInv, SearchInv, flagVars, phase
<1>3. CASE phase = "down"
  BY <1>1, <1>2, <1>3 DEF LifeStep, Life!avars
<1>4. CASE phase # "down"
  <2>1. Life!Measure
    BY <1>1, <1>2, <1>4 DEF Life!Measure
  <2> QED BY <1>2, <2>1 DEF LifeStep, Life!ANext
<1> QED BY <1>3, <1>4

LEMMA NextLife == LInv /\ [Next]_vars => LifeStep
<1> SUFFICES ASSUME LInv, [Next]_vars PROVE LifeStep
  OBVIOUS
<1>1. CASE FifoBegin
  <2>1. CASE UNCHANGED flagVars /\ UNCHANGED smVars
    BY <1>1, <2>1, Quiet DEF FifoBegin, smVars
  <2>2. CASE ToFailure
    BY <1>1, <2>2, Failing DEF FifoBegin, ToFailure, Switch, configVars
  <2> QED BY <1>1, <2>1, <2>2 DEF FifoBegin
<1>2. CASE FifoEnd \/ PingContinue \/ CallbackReturn \/ HandlerReturn \/ SketchSend \/ Deliver
  BY <1>2, Quiet DEF FifoEnd, PingContinue, CallbackReturn, HandlerReturn, SketchSend, Deliver, smVars
<1>3. CASE PingFailed
  BY <1>3, Quiet DEF PingFailed, PingReturn, smVars, configVars
<1>4. CASE Tick
  BY <1>4, Quiet DEF Tick
<1>5. CASE PowerOn
  <2>1. state' = "Init" /\ ~uplinkOk' /\ ~transportActive' /\ nodeId' = nodeId
    BY <1>5 DEF PowerOn, LInv, IInv, Identity
  <2> QED BY <2>1, Failing
<1>6. CASE UNCHANGED vars
  BY <1>6, Quiet DEF vars, smVars
<1> QED BY <1>1, <1>2, <1>3, <1>4, <1>5, <1>6, UpdateLife, MessageLife, AnswerCheckedLife
        DEF Next, Program

LEMMA LifeInvariance == Spec => []LInv
<1>1. LInv /\ [Next]_vars => LInv'
  BY NextIInv, NextLife DEF LInv, LifeStep
<1>2. Init => LInv
  BY InitIInv DEF LInv, Init, SearchInv
<1> QED BY <1>1, <1>2, PTL DEF Spec

\* A parent is changed only by a search, for a nearer one or the preferred
\* one, an ID never, and a node is attached only with both: the flags of the
\* transport live the life of NodeLife, with any neighbours, messages, nested
\* pings, waits of handlers, failures and restarts.
THEOREM LifeCorrect == Spec => ImplementsLife
<1>1. Init => Life!AInit
  BY DEF Init, Life!AInit, phase
<1>2. LInv /\ [Next]_vars => [Life!ANext]_(Life!avars)
  BY NextLife DEF LifeStep
<1> QED BY <1>1, <1>2, LifeInvariance, PTL DEF Spec, ImplementsLife, Life!ASpec

\* What the life of NodeLife means for whoever reads the flags: as long as a
\* node reports its uplink, its parent and its ID stay what they are, whichever
\* late offers, ID responses and presentations come (MyTransport.cpp:387-400).
AttachmentKept == [][uplinkOk /\ uplinkOk' => UNCHANGED <<parentNodeId, nodeId>>]_vars

LEMMA AttachedStays ==
  ASSUME Life!ANext, phase = "attached", phase' = "attached"
  PROVE  UNCHANGED <<parentNodeId, nodeId>>
<1>1. CASE Life!Start \/ Life!SearchAgain \/ Life!Found \/ Life!Fail
  BY <1>1 DEF Life!Start, Life!SearchAgain, Life!Found, Life!Fail, Life!Begins
<1>2. CASE Life!Choose \/ Life!LearnId \/ Life!Attach
  BY <1>2 DEF Life!Choose, Life!LearnId, Life!Attach
<1>3. CASE Life!Measure
  BY <1>3 DEF Life!Measure
<1> QED BY <1>1, <1>2, <1>3 DEF Life!ANext

\* A step of a node that stays attached keeps both.
LEMMA AttachmentStep ==
  ASSUME LInv, [Next]_vars, uplinkOk, uplinkOk'
  PROVE  UNCHANGED <<parentNodeId, nodeId>>
<1>1. phase = "attached" /\ phase' = "attached"
  BY DEF phase
<1>2. CASE Life!ANext
  BY <1>1, <1>2, AttachedStays
<1>3. CASE UNCHANGED Life!avars
  BY <1>1, <1>3 DEF Life!avars
<1> QED BY <1>2, <1>3, NextLife DEF LifeStep

\* AttachmentKept: nothing changes the parent or the ID of a node that stays
\* attached, with any neighbours, messages, waits of handlers and failures.
THEOREM AttachmentCorrect == Spec => AttachmentKept
<1>1. LInv /\ [Next]_vars => [uplinkOk /\ uplinkOk' => UNCHANGED <<parentNodeId, nodeId>>]_vars
  BY AttachmentStep
<1> QED BY <1>1, LifeInvariance, PTL DEF Spec, AttachmentKept

-----------------------------------------------------------------------------
(* Offers to other nodes. *)

\* What a step does to the suspended calls, as far as offers are concerned.
CallsKept ==
  /\ Len(calls') = Len(calls)
  /\ \A i \in 1 .. Len(calls) : calls'[i].of = calls[i].of /\ calls'[i].for = calls[i].for
  /\ \/ broken' = broken /\ (uplinkOk => uplinkOk')
     \/ broken' = Len(calls)
CallReturns ==
  /\ Len(calls) > 0 /\ Len(calls') = Len(calls) - 1
  /\ \A i \in 1 .. Len(calls') : calls'[i] = calls[i]
  /\ broken' = Least(broken, Len(calls'))
  /\ UNCHANGED uplinkOk
CallBegins ==
  /\ Len(calls') = Len(calls) + 1
  /\ \A i \in 1 .. Len(calls) : calls'[i] = calls[i]
  /\ broken' = broken /\ (uplinkOk => uplinkOk')
  /\ calls'[Len(calls')].of = "ping" => uplinkOk /\ calls'[Len(calls')].for # parentNodeId

CallsStep == CallsKept \/ CallReturns \/ CallBegins \/ (calls' = <<>> /\ broken' = 0)

\* An update of the state machine, or a turn of one of the two loops.
LEMMA ProgramCalls ==
  ASSUME IInv, \/ Update \/ FifoBegin \/ FifoEnd \/ PingContinue \/ SketchSend \/ Deliver
               \/ UNCHANGED vars
  PROVE  CallsStep
<1> USE DEF CallsStep
<1>1. CASE RadioFails \/ RadioStarts \/ SearchAgain \/ NoParentFound \/ NoIdReceived
           \/ UplinkFails \/ UplinkLost
  <2>1. UNCHANGED calls /\ broken' = Len(calls)
    BY <1>1 DEF RadioFails, RadioStarts, SearchAgain, NoParentFound, NoIdReceived,
                UplinkFails, UplinkLost, ToFailure, ToParent
  <2> QED BY <2>1 DEF CallsKept
<1>2. CASE ParentFound \/ IdKnown \/ RequestIdAgain \/ PingAgain \/ StaticUplinkLost
           \/ TryAgain \/ StateStays \/ FifoEnd \/ PingContinue \/ SketchSend \/ Deliver
           \/ UNCHANGED vars
  <2>1. UNCHANGED <<calls, broken, uplinkOk>>
    BY <1>2 DEF ParentFound, IdKnown, RequestIdAgain, PingAgain, StaticUplinkLost, TryAgain,
                StateStays, FifoEnd, PingContinue, SketchSend, Deliver, vars, flagVars, ctrlVars
  <2> QED BY <2>1 DEF CallsKept
<1>3. CASE FifoBegin
  <2>1. UNCHANGED calls /\ (UNCHANGED <<broken, uplinkOk>> \/ broken' = Len(calls))
    BY <1>3 DEF FifoBegin, ToFailure, flagVars
  <2> QED BY <2>1 DEF CallsKept
<1>4. CASE UplinkWorks
  <2>1. uplinkOk' /\ UNCHANGED broken
    BY <1>4 DEF UplinkWorks, ToReady, Suspend
  <2>2. CASE UNCHANGED calls
    BY <2>1, <2>2 DEF CallsKept
  <2>3. CASE Suspend("ready", AUTO, 0)
    <3>1. AUTO \in Ids /\ 0 \in 0 .. MAX_SUBSEQ_MSGS /\ TypeCtrl
      BY ConstantsAssumption DEF Ids, AUTO, IInv, TypeOK
    <3>2. /\ Len(calls') = Len(calls) + 1
          /\ \A i \in 1 .. Len(calls) : calls'[i] = calls[i]
          /\ calls'[Len(calls) + 1].of = "ready"
      BY <2>3, <3>1, SuspendPushes
    <3> QED BY <2>1, <3>2 DEF CallBegins
  <2> QED BY <1>4, <2>2, <2>3 DEF UplinkWorks, ToReady
<1> QED BY <1>1, <1>2, <1>3, <1>4 DEF Update

\* The processing of a message suspends nothing, a handler, or a ping for a
\* node that is not the parent.
LEMMA MessageCalls == ASSUME IInv, ProcessMessage PROVE CallsStep
<1> USE DEF CallsStep
<1>1. PICK m \in {Head(rx)} :
        \/ ParentResponse(m) \/ Ping(m) \/ Pong(m) \/ AppMessage(m) \/ HandlerWaits(m)
        \/ Discover(m) \/ Relay(m) \/ IdResponse(m) \/ RefuseParentRequest(m)
        \/ AnswerUnchecked(m) \/ StartPing(m) \/ Ignore(m)
  BY DEF ProcessMessage
<1>2. m \in Message
  BY FifoMessages DEF IInv, TypeOK, ProcessMessage
<1>3. Receive(m)
  BY <1>1 DEF ParentResponse, Ping, Pong, AppMessage, HandlerWaits, Discover, Relay, IdResponse,
              RefuseParentRequest, AnswerUnchecked, StartPing, Ignore, ParentRequest
<1>4. UNCHANGED uplinkOk /\ left - 1 \in 0 .. MAX_SUBSEQ_MSGS /\ m.sender \in Ids /\ AUTO \in Ids
  BY <1>2, <1>3, MessageFields, ConstantsAssumption DEF Receive, IInv, TypeOK, TypeCtrl, AUTO, Ids
<1>5. CASE Consume(m)
  BY <1>4, <1>5 DEF Consume, CallsKept
<1>6. CASE HandlerWaits(m)
  <2>1. Suspend("handler", AUTO, left - 1) /\ TypeCtrl
    BY <1>6 DEF HandlerWaits, IInv, TypeOK
  <2>2. /\ Len(calls') = Len(calls) + 1
        /\ \A i \in 1 .. Len(calls) : calls'[i] = calls[i]
        /\ calls'[Len(calls) + 1].of = "handler"
    BY <1>4, <2>1, SuspendPushes
  <2> QED BY <1>4, <2>1, <2>2 DEF CallBegins, Suspend
<1>7. CASE StartPing(m)
  <2>1. Suspend("ping", m.sender, left - 1) /\ TypeCtrl /\ uplinkOk /\ m.sender # parentNodeId
    BY <1>7 DEF StartPing, Willing, IInv, TypeOK
  <2>2. /\ Len(calls') = Len(calls) + 1
        /\ \A i \in 1 .. Len(calls) : calls'[i] = calls[i]
        /\ calls'[Len(calls) + 1].for = m.sender
    BY <1>4, <2>1, SuspendPushes
  <2> QED BY <1>4, <2>1, <2>2 DEF CallBegins, Suspend
<1> QED BY <1>1, <1>5, <1>6, <1>7
        DEF ParentResponse, Ping, Pong, AppMessage, Discover, Relay, IdResponse,
            RefuseParentRequest, AnswerUnchecked, Ignore

\* A step of the node, in all.
LEMMA EveryCallsStep == ASSUME IInv, [Next]_vars PROVE CallsStep
<1>1. CASE \/ Update \/ FifoBegin \/ FifoEnd \/ PingContinue \/ SketchSend \/ Deliver
           \/ UNCHANGED vars
  BY <1>1, ProgramCalls
<1>2. CASE ProcessMessage
  BY <1>2, MessageCalls
<1>3. CASE PingFailed \/ AnswerChecked \/ CallbackReturn \/ HandlerReturn
  <2>1. Return /\ UNCHANGED uplinkOk /\ calls # <<>> /\ TypeCtrl
    BY <1>3 DEF PingFailed, AnswerChecked, PingReturn, CallbackReturn, HandlerReturn, flagVars,
                IInv, TypeOK, CallStack, ControlOnTop, OnTop
  <2>2. /\ Len(calls) > 0 /\ Len(calls') = Len(calls) - 1
        /\ \A i \in 1 .. Len(calls') : calls'[i] = calls[i]
    BY <2>1, ReturnPops DEF TypeCtrl
  <2> QED BY <2>1, <2>2 DEF Return, CallReturns, CallsStep
<1>4. CASE Tick
  <2>1. calls \in Seq(Frame) /\ DOMAIN calls = 1 .. Len(calls) /\ Len(calls) \in Nat
    BY DEF IInv, TypeOK, TypeCtrl
  <2>2. \A i \in 1 .. Len(calls) : /\ Older(calls[i]) \in Frame
                                   /\ Older(calls[i]).for = calls[i].for
                                   /\ Older(calls[i]).of = calls[i].of
    BY <2>1, OlderFrame
  <2>3. calls' = [i \in 1 .. Len(calls) |-> Older(calls[i])]
    BY <1>4, <2>1 DEF Tick
  <2>4. /\ Len(calls') = Len(calls)
        /\ \A i \in 1 .. Len(calls) : calls'[i].of = calls[i].of /\ calls'[i].for = calls[i].for
    BY <2>1, <2>2, <2>3
  <2> QED BY <1>4, <2>4 DEF Tick, flagVars, CallsKept, CallsStep
<1>5. CASE PowerOn
  BY <1>5 DEF PowerOn, CallsStep
<1> QED BY <1>1, <1>2, <1>3, <1>4, <1>5 DEF Next, Program

\* The pings of a node that stays ready are made for others: their callers were
\* not the parent when they asked, and the parent is still the same.
LEMMA PingsForOthersKept ==
  ASSUME LInv, PingsForOthers, [Next]_vars
  PROVE  PingsForOthers'
<1>1. CallsStep /\ Len(calls) \in Nat
  BY EveryCallsStep DEF LInv, IInv, TypeOK, TypeCtrl
<1>2. uplinkOk /\ uplinkOk' => parentNodeId' = parentNodeId
  BY AttachmentStep
<1> USE DEF PingsForOthers
<1>3. CASE CallsKept
  BY <1>1, <1>2, <1>3 DEF CallsKept
<1>4. CASE CallReturns
  BY <1>1, <1>2, <1>4 DEF CallReturns, Least
<1>5. CASE CallBegins
  BY <1>1, <1>2, <1>5 DEF CallBegins
<1>6. CASE calls' = <<>> /\ broken' = 0
  BY <1>6
<1> QED BY <1>1, <1>3, <1>4, <1>5, <1>6 DEF CallsStep

\* OffersAreUsable: whatever is processed while the gateway is pinged, the waits
\* of handlers included, a node that was ready all the time offers itself only
\* to a node that is not its parent, with a parent, an ID and a distance.
THEOREM OffersCorrect == Spec => OffersAreUsable
<1>1. Init => PingsForOthers
  BY DEF Init, PingsForOthers
<1>2. LInv /\ PingsForOthers /\ [Next]_vars => PingsForOthers'
  BY PingsForOthersKept
<1>3. ASSUME LInv, PingsForOthers, AnswerChecked, Len(calls) > broken
      PROVE  /\ Top.for # parentNodeId /\ parentNodeId \in Peers
             /\ distanceGW' # INVALID /\ ValidId(nodeId)
  <2>1. IInv /\ pingResponse # INVALID /\ distanceGW' = pingResponse /\ pc = "wait"
    BY <1>3 DEF LInv, AnswerChecked, PingReturn
  <2>2. Len(calls) \in 1 .. Len(calls) /\ calls[Len(calls)].of = "ping"
    BY <2>1 DEF IInv, TypeOK, TypeCtrl, CallStack, ControlOnTop, OnTop, Top
  <2>3. uplinkOk /\ Top.for # parentNodeId
    BY <1>3, <2>2 DEF PingsForOthers, Top
  <2>4. parentNodeId \in Peers /\ nodeId # AUTO /\ nodeId # GATEWAY_ADDRESS
    BY <2>1, <2>3 DEF IInv, Attachment, Identity
  <2> QED BY <2>1, <2>3, <2>4 DEF ValidId
<1> QED BY <1>1, <1>2, <1>3, LifeInvariance, PTL DEF Spec, OffersAreUsable

=============================================================================
