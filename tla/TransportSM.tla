---------------------------- MODULE TransportSM ----------------------------
(***************************************************************************)
(* The transport state machine of one sensor node (core/MyTransport.cpp):  *)
(* finding a parent, obtaining an ID, checking the uplink by pinging the   *)
(* gateway, the ready state, the failure state, and the processing of the  *)
(* received messages.                                                      *)
(*                                                                         *)
(* The program is single threaded but re-entrant: answering a find-parent  *)
(* request may ping the gateway, and the ping waits by processing further  *)
(* messages; the first ready state presents the node, and so does a        *)
(* request of the controller, and their waits, like those of a sketch's    *)
(* receive(), run the whole main loop again.  `calls` is the stack of what *)
(* is suspended, `pc` says where the innermost activation is.  The radio   *)
(* delivers messages into `rx` at any time, and time passes at any time.   *)
(*                                                                         *)
(* Build modelled: node (not gateway), uplink check on, no signing, no OTA *)
(* feature, no signal reports, not in passive mode.                        *)
(***************************************************************************)
EXTENDS Naturals, Sequences

CONSTANTS
  Peers,              \* IDs of the other nodes, GATEWAY_ADDRESS among them
  MY_NODE_ID,         \* static ID of this node, or AUTO
  MY_PARENT_NODE_ID,  \* preferred (or static) parent, or AUTO
  ParentIsStatic,     \* MY_PARENT_NODE_IS_STATIC
  Repeater,           \* MY_REPEATER_FEATURE
  SanityCheck,        \* MY_TRANSPORT_SANITY_CHECK
  IdOffers,           \* IDs a controller may hand out, 0 and AUTO included
  Hops,               \* hop counts and distances seen in messages
  Traffic,            \* kinds of message the network sends to this node
  MAX_TX_FAILURES, TX_COUNTER_MOD,   \* bound and width of failedUplinkTransmissions
  MAX_TSM_FAILURES, STATE_RETRIES, MAX_SUBSEQ_MSGS,
  STATE_TIMEOUT, PING_TIMEOUT, CHKUPL_INTERVAL,  \* in ticks
  TIMEOUT_FAILURE, TIMEOUT_EXT_FAILURE,          \* in ticks
  HandlersWait,       \* messages make the core or the sketch wait
  RxMax, MaxNest, MaxDepth \* bounds: receive FIFO, nested pings, other nested waits

GATEWAY_ADDRESS   == 0
AUTO              == 255
BROADCAST_ADDRESS == 255
INVALID           == 255   \* DISTANCE_INVALID, INVALID_HOPS
Ids               == 0 .. 255
Others            == Peers \ {GATEWAY_ADDRESS}

Kinds == {"ID_RESPONSE", "FPAR_RESPONSE", "FPAR_REQUEST", "PING", "PONG",
          "DISCOVER", "APP"}

\* No node owns 0 except the gateway, 255 is nobody's, and no peer owns an ID
\* this node has or may be given; hop counts and distances on the air are
\* valid ones; the counters fit their bit fields.
ASSUME ConstantsAssumption ==
  /\ Peers \subseteq Ids \ {AUTO} /\ GATEWAY_ADDRESS \in Peers
  /\ MY_NODE_ID \in Ids \ Peers
  /\ MY_PARENT_NODE_ID \in Peers \cup {AUTO}
  /\ ParentIsStatic \in BOOLEAN /\ Repeater \in BOOLEAN /\ SanityCheck \in BOOLEAN
  /\ HandlersWait \in BOOLEAN
  /\ ParentIsStatic => MY_PARENT_NODE_ID # AUTO
  /\ IdOffers \subseteq (Ids \ Peers) \cup {GATEWAY_ADDRESS}
  /\ Hops \subseteq 0 .. 254
  /\ Traffic \subseteq Kinds
  /\ MAX_TX_FAILURES \in Nat /\ TX_COUNTER_MOD \in Nat
  /\ MAX_TX_FAILURES + 1 < TX_COUNTER_MOD
  /\ MAX_TSM_FAILURES \in Nat /\ STATE_RETRIES \in Nat /\ MAX_SUBSEQ_MSGS \in Nat
  /\ STATE_TIMEOUT \in Nat /\ PING_TIMEOUT \in Nat /\ CHKUPL_INTERVAL \in Nat
  /\ TIMEOUT_FAILURE \in Nat /\ TIMEOUT_EXT_FAILURE \in Nat
  /\ STATE_TIMEOUT <= TIMEOUT_FAILURE /\ TIMEOUT_FAILURE <= TIMEOUT_EXT_FAILURE
  /\ RxMax \in Nat /\ MaxNest \in Nat /\ MaxDepth \in Nat

VARIABLES
  \* _transportSM: state, retries, time since entry, flags and counters
  state, retries, age, uplinkOk, transportActive, findingParentNode,
  preferredParentFound, failureCounter, failedUplinkTransmissions,
  pingActive, pingResponse,
  checkAge,                       \* time since lastUplinkCheck
  nodeId, parentNodeId, distanceGW, \* _transportConfig
  eepromNodeId, route,            \* EEPROM: node ID and routing table
  presentationSent,               \* core: ready callback done
  rx,                             \* receive FIFO of the radio
  pc, left,                       \* innermost activation, messages left in its batch
  calls,                          \* stack of suspended activations
  lastIsPong,                     \* _msg holds an I_PONG
  \* history variables: not in the code, read by the properties only
  unacked,                        \* uplink transmissions failed in a row, uncut
  broken                          \* calls suspended when the uplink was lost last

smVars     == <<state, retries, age>>
flagVars   == <<uplinkOk, transportActive, findingParentNode, preferredParentFound, failureCounter>>
txVars     == <<failedUplinkTransmissions, unacked>>
pingVars   == <<pingActive, pingResponse>>
configVars == <<nodeId, parentNodeId, distanceGW>>
ctrlVars   == <<pc, left, calls, broken, lastIsPong>>
vars == <<smVars, flagVars, txVars, pingVars, checkAge, configVars,
          eepromNodeId, route, presentationSent, rx, ctrlVars>>

States == {"Init", "Parent", "ID", "Uplink", "Ready", "Failure"}

ValidId(n) == n # GATEWAY_ADDRESS /\ n # AUTO

\* Messages as they arrive.  flag: the token matches / an acknowledgement is
\* requested.  An ID response goes to whoever has no ID; distances and hop
\* counts on the air are valid ones; only nodes with an ID offer themselves.
Message ==
  {m \in [kind : Kinds, sender : Ids, last : Ids, dst : Ids, val : 0 .. 255, flag : BOOLEAN] :
     /\ m.kind = "ID_RESPONSE" => m.dst = AUTO
     /\ m.kind \in {"FPAR_RESPONSE", "PONG"} => m.val # INVALID
     /\ m.kind = "FPAR_RESPONSE" => m.sender \in Peers}

Least(a, b) == IF a <= b THEN a ELSE b

\* Suspended activations: a transportPingNode for the sender of a find-parent
\* request, the callback of the ready state, the handler of a message.  The
\* first and the last were reached from a batch with `left` messages to go.
Frame == [of : {"ping", "ready", "handler"}, for : Ids, age : Nat, left : 0 .. MAX_SUBSEQ_MSGS]

Top     == calls[Len(calls)]
OnTop(f) == calls # <<>> /\ Top.of = f
Pinging == \E i \in 1 .. Len(calls) : calls[i].of = "ping"
Depth   == Len(SelectSeq(calls, LAMBDA c : c.of # "ping"))

Suspend(of, for, rest) ==
  /\ calls' = Append(calls, [of |-> of, for |-> for, age |-> 0, left |-> rest])
  /\ UNCHANGED broken
Return == /\ calls' = SubSeq(calls, 1, Len(calls) - 1)
          /\ broken' = Least(broken, Len(calls) - 1)

\* Where the innermost activation goes after its batch of messages.
Resume == IF OnTop("ping") THEN "wait" ELSE "update"

-----------------------------------------------------------------------------
(* Sending (transportRouteMessage, transportSendWrite). *)

\* Where transportRouteMessage sends a message for dst, given the routing
\* table rt and the node the message came from.
NextHop(dst, last, rt) ==
  CASE dst = GATEWAY_ADDRESS   -> parentNodeId
    [] dst = BROADCAST_ADDRESS -> BROADCAST_ADDRESS
    [] OTHER -> IF ~Repeater THEN parentNodeId
                ELSE IF dst \in Others /\ rt[dst] # AUTO THEN rt[dst]
                ELSE IF last # parentNodeId THEN parentNodeId ELSE dst

\* Whether the message leaves and counts as an uplink transmission: unicasts
\* are refused while a parent is searched, and only what goes to the parent counts.
Uplinks(dst, last, rt) == /\ findingParentNode => dst = BROADCAST_ADDRESS
                          /\ NextHop(dst, last, rt) = parentNodeId

\* The 4-bit counter of failed uplink transmissions after one more
\* transmission (a broadcast always counts as sent), and its uncut history.
Wrapped(n) == IF n = TX_COUNTER_MOD THEN 0 ELSE n

FailedAfter_NoReset(n, uplink, ok) ==
  IF ~uplink \/ ok THEN n ELSE Wrapped(n + 1)

FailedAfter(n, uplink, ok) ==
  IF ~uplink THEN n ELSE IF ok THEN 0 ELSE Wrapped(n + 1)
UnackedAfter(n, uplink, ok) ==
  IF ~uplink THEN n ELSE IF ok THEN 0 ELSE Least(n + 1, MAX_TX_FAILURES + 1)

\* Towards no parent (AUTO, the broadcast address) the message is a broadcast.
Sent(uplink, ok) ==
  LET acked == ok \/ parentNodeId = BROADCAST_ADDRESS
  IN  /\ failedUplinkTransmissions' = FailedAfter(failedUplinkTransmissions, uplink, acked)
      /\ unacked' = UnackedAfter(unacked, uplink, acked)

\* Two transmissions in a row.
SentTwice(uplink1, ok1, uplink2, ok2) ==
  /\ failedUplinkTransmissions' =
       FailedAfter(FailedAfter(failedUplinkTransmissions, uplink1, ok1), uplink2, ok2)
  /\ unacked' = UnackedAfter(UnackedAfter(unacked, uplink1, ok1), uplink2, ok2)

-----------------------------------------------------------------------------
(* State transitions (transportSwitchSM and the st*Transition functions).  *)
(* Each one sets the state, its retry counter and its time, and whatever   *)
(* its transition function assigns; the update that takes it says the rest.*)

Switch_RetriesKept(s) == state' = s /\ retries' = retries + 1 /\ age' = 0

Switch(s) == /\ state' = s
             /\ retries' = IF s = state THEN retries + 1 ELSE 0
             /\ age' = 0

ToInit ==
  /\ Switch("Init")
  /\ pingActive' = FALSE
  /\ transportActive' = FALSE
  /\ checkAge' = CHKUPL_INTERVAL
  /\ nodeId' = eepromNodeId
  /\ parentNodeId' = MY_PARENT_NODE_ID
  /\ distanceGW' = INVALID

\* The broadcast of the find-parent request goes out while the parent is AUTO,
\* the very value of the broadcast address, so it resets the failure counter.
ToParent ==
  /\ Switch("Parent")
  /\ uplinkOk' = FALSE /\ broken' = Len(calls)
  /\ preferredParentFound' = FALSE
  /\ findingParentNode' = ~ParentIsStatic
  /\ distanceGW' = IF ParentIsStatic THEN 1 ELSE INVALID
  /\ parentNodeId' = IF ParentIsStatic THEN MY_PARENT_NODE_ID ELSE AUTO
  /\ IF ParentIsStatic THEN UNCHANGED txVars
                       ELSE failedUplinkTransmissions' = 0 /\ unacked' = 0

\* An ID is requested only when there is none yet.
ToID ==
  /\ Switch("ID")
  /\ \E ok \in BOOLEAN : Sent(nodeId = AUTO, ok)

ToUplink ==
  /\ Switch("Uplink")
  /\ pingActive' = TRUE
  /\ pingResponse' = INVALID
  /\ \E ok \in BOOLEAN : Sent(TRUE, ok)

\* The callback of the first ready state presents the node; its waits run the
\* main loop again.  At MaxDepth it is taken to return at once.
ToReady ==
  /\ Switch("Ready")
  /\ uplinkOk' = TRUE
  /\ failureCounter' = 0
  /\ failedUplinkTransmissions' = 0 /\ unacked' = 0
  /\ lastIsPong' = (presentationSent /\ lastIsPong)
  /\ IF ~presentationSent /\ Depth < MaxDepth
     THEN Suspend("ready", AUTO, 0) /\ UNCHANGED presentationSent /\ pc' = "update"
     ELSE UNCHANGED <<calls, broken>> /\ presentationSent' = TRUE /\ pc' = "begin"

ToFailure ==
  /\ Switch("Failure")
  /\ failureCounter' = Least(failureCounter + 1, MAX_TSM_FAILURES)
  /\ uplinkOk' = FALSE /\ broken' = Len(calls)
  /\ transportActive' = FALSE

\* stInitUpdate: the radio starts or it does not.
RadioFails ==
  /\ pc = "update" /\ state = "Init" /\ pc' = "begin"
  /\ ToFailure
  /\ UNCHANGED <<findingParentNode, preferredParentFound, txVars, pingVars, checkAge,
                 configVars, eepromNodeId, route, presentationSent, rx, left, calls, lastIsPong>>

\* A static ID is stored; the ID of the gateway is refused.
ConfiguredId == IF MY_NODE_ID # AUTO THEN MY_NODE_ID ELSE nodeId

RadioStarts ==
  /\ pc = "update" /\ state = "Init" /\ pc' = "begin"
  /\ rx' = <<>>  \* the radio is reset, its FIFO flushed
  /\ eepromNodeId' = IF MY_NODE_ID # AUTO THEN MY_NODE_ID ELSE eepromNodeId
  /\ IF ConfiguredId # GATEWAY_ADDRESS
     THEN /\ ToParent /\ nodeId' = ConfiguredId /\ transportActive' = TRUE
          /\ UNCHANGED failureCounter
     ELSE /\ ToFailure /\ nodeId' = AUTO
          /\ UNCHANGED <<parentNodeId, distanceGW, findingParentNode,
                         preferredParentFound, txVars>>
  /\ UNCHANGED <<pingVars, checkAge, route, presentationSent, left, calls, lastIsPong>>

\* stParentUpdate: at the end of the search, or at once when the preferred
\* parent answered, go on with the parent found; else search again or give up.
SearchEnds_Answered == ~ParentIsStatic /\ preferredParentFound

SearchEnds == ~ParentIsStatic /\ (age > STATE_TIMEOUT \/ preferredParentFound)

ParentFound ==
  /\ pc = "update" /\ state = "Parent" /\ pc' = "begin"
  /\ ParentIsStatic \/ (SearchEnds /\ parentNodeId # AUTO)
  /\ findingParentNode' = (ParentIsStatic /\ findingParentNode)
  /\ ToID
  /\ UNCHANGED <<uplinkOk, transportActive, preferredParentFound, failureCounter,
                 pingVars, checkAge, configVars, eepromNodeId, route, presentationSent,
                 rx, left, calls, broken, lastIsPong>>

SearchAgain ==
  /\ pc = "update" /\ state = "Parent" /\ pc' = "begin"
  /\ SearchEnds /\ parentNodeId = AUTO /\ retries < STATE_RETRIES
  /\ ToParent
  /\ UNCHANGED <<transportActive, failureCounter, pingVars, checkAge, nodeId,
                 eepromNodeId, route, presentationSent, rx, left, calls, lastIsPong>>

NoParentFound ==
  /\ pc = "update" /\ state = "Parent" /\ pc' = "begin"
  /\ SearchEnds /\ parentNodeId = AUTO /\ retries >= STATE_RETRIES
  /\ ToFailure
  /\ UNCHANGED <<findingParentNode, preferredParentFound, txVars, pingVars, checkAge,
                 configVars, eepromNodeId, route, presentationSent, rx, left, calls, lastIsPong>>

\* stIDUpdate
IdKnown ==
  /\ pc = "update" /\ state = "ID" /\ pc' = "begin"
  /\ nodeId # AUTO
  /\ ToUplink
  /\ UNCHANGED <<flagVars, checkAge, configVars, eepromNodeId, route, presentationSent,
                 rx, left, calls, broken, lastIsPong>>

RequestIdAgain ==
  /\ pc = "update" /\ state = "ID" /\ pc' = "begin"
  /\ nodeId = AUTO /\ age > STATE_TIMEOUT /\ retries < STATE_RETRIES
  /\ ToID
  /\ UNCHANGED <<flagVars, pingVars, checkAge, configVars, eepromNodeId, route,
                 presentationSent, rx, left, calls, broken, lastIsPong>>

NoIdReceived ==
  /\ pc = "update" /\ state = "ID" /\ pc' = "begin"
  /\ nodeId = AUTO /\ age > STATE_TIMEOUT /\ retries >= STATE_RETRIES
  /\ ToFailure
  /\ UNCHANGED <<findingParentNode, preferredParentFound, txVars, pingVars, checkAge,
                 configVars, eepromNodeId, route, presentationSent, rx, left, calls, lastIsPong>>

\* stUplinkUpdate: the hops of the answer become the distance to the gateway;
\* without an answer the ping is repeated, then another parent is searched.
UplinkWorks ==
  /\ pc = "update" /\ state = "Uplink"
  /\ pingResponse # INVALID
  /\ ToReady
  /\ checkAge' = 0
  /\ distanceGW' = pingResponse
  /\ UNCHANGED <<transportActive, findingParentNode, preferredParentFound, pingVars,
                 nodeId, parentNodeId, eepromNodeId, route, rx, left>>

PingAgain ==
  /\ pc = "update" /\ state = "Uplink" /\ pc' = "begin"
  /\ pingResponse = INVALID /\ age > STATE_TIMEOUT /\ retries < STATE_RETRIES
  /\ ToUplink
  /\ UNCHANGED <<flagVars, checkAge, configVars, eepromNodeId, route, presentationSent,
                 rx, left, calls, broken, lastIsPong>>

UplinkFails ==
  /\ pc = "update" /\ state = "Uplink" /\ pc' = "begin"
  /\ pingResponse = INVALID /\ age > STATE_TIMEOUT /\ retries >= STATE_RETRIES
  /\ pingActive' = FALSE /\ UNCHANGED pingResponse
  /\ ToParent
  /\ UNCHANGED <<transportActive, failureCounter, checkAge, nodeId, eepromNodeId,
                 route, presentationSent, rx, left, calls, lastIsPong>>

\* stReadyUpdate: too many failed uplink transmissions make the node search a
\* new parent; one with a static parent starts counting again.
UplinkLost ==
  /\ pc = "update" /\ state = "Ready" /\ pc' = "begin"
  /\ failedUplinkTransmissions > MAX_TX_FAILURES /\ ~ParentIsStatic
  /\ ToParent
  /\ UNCHANGED <<transportActive, failureCounter, pingVars, checkAge, nodeId,
                 eepromNodeId, route, presentationSent, rx, left, calls, lastIsPong>>

StaticUplinkLost ==
  /\ pc = "update" /\ state = "Ready" /\ pc' = "begin"
  /\ failedUplinkTransmissions > MAX_TX_FAILURES /\ ParentIsStatic
  /\ failedUplinkTransmissions' = 0 /\ unacked' = 0
  /\ UNCHANGED <<smVars, flagVars, pingVars, checkAge, configVars, eepromNodeId,
                 route, presentationSent, rx, left, calls, broken, lastIsPong>>

\* stFailureUpdate: the longer delay applies from MAX_TSM_FAILURES on.
FailureDelay == IF failureCounter = MAX_TSM_FAILURES THEN TIMEOUT_EXT_FAILURE ELSE TIMEOUT_FAILURE

TryAgain ==
  /\ pc = "update" /\ state = "Failure" /\ pc' = "begin"
  /\ age > FailureDelay
  /\ ToInit
  /\ UNCHANGED <<uplinkOk, findingParentNode, preferredParentFound, failureCounter,
                 txVars, pingResponse, eepromNodeId, route, presentationSent,
                 rx, left, calls, broken, lastIsPong>>

\* An update that finds nothing to do yet.
StateStays ==
  /\ pc = "update" /\ pc' = "begin"
  /\ \/ state = "Parent"  /\ ~ParentIsStatic /\ ~SearchEnds
     \/ state = "ID"      /\ nodeId = AUTO /\ age <= STATE_TIMEOUT
     \/ state = "Uplink"  /\ pingResponse = INVALID /\ age <= STATE_TIMEOUT
     \/ state = "Ready"   /\ failedUplinkTransmissions <= MAX_TX_FAILURES
     \/ state = "Failure" /\ age <= FailureDelay
  /\ UNCHANGED <<smVars, flagVars, txVars, pingVars, checkAge, configVars, eepromNodeId,
                 route, presentationSent, rx, left, calls, broken, lastIsPong>>

\* transportUpdateSM, the first half of transportProcess.
Update == \/ RadioFails \/ RadioStarts
          \/ ParentFound \/ SearchAgain \/ NoParentFound
          \/ IdKnown \/ RequestIdAgain \/ NoIdReceived
          \/ UplinkWorks \/ PingAgain \/ UplinkFails
          \/ UplinkLost \/ StaticUplinkLost
          \/ TryAgain \/ StateStays

\* The ready callback returns: the outer transportSwitchSM now stores the time
\* of entry, of whatever state the nested main loop has reached by then.
CallbackReturn ==
  /\ pc = "update" /\ OnTop("ready")
  /\ Return
  /\ presentationSent' = TRUE
  /\ age' = 0
  /\ pc' = "begin"
  /\ UNCHANGED <<state, retries, flagVars, txVars, pingVars, checkAge, configVars,
                 eepromNodeId, route, rx, left, lastIsPong>>

-----------------------------------------------------------------------------
(* Receiving (transportProcessFIFO, transportProcessMessage). *)

\* transportProcessFIFO starts: nothing while the transport is off; a sanity
\* check that is due and fails puts the node in Failure, but the batch goes on.
FifoBegin ==
  /\ pc = "begin"
  /\ \/ /\ ~transportActive
        /\ pc' = Resume
        /\ UNCHANGED <<left, smVars, flagVars, broken>>
     \/ /\ transportActive
        /\ pc' = "fifo" /\ left' = MAX_SUBSEQ_MSGS
        /\ \/ UNCHANGED <<smVars, flagVars, broken>>
           \/ /\ SanityCheck /\ ToFailure
              /\ UNCHANGED <<findingParentNode, preferredParentFound>>
  /\ UNCHANGED <<txVars, pingVars, checkAge, configVars, eepromNodeId, route,
                 presentationSent, rx, calls, lastIsPong>>

FifoEnd ==
  /\ pc = "fifo" /\ (rx = <<>> \/ left = 0)
  /\ pc' = Resume /\ left' = 0
  /\ UNCHANGED <<smVars, flagVars, txVars, pingVars, checkAge, configVars,
                 eepromNodeId, route, presentationSent, rx, calls, broken, lastIsPong>>

ForMe_OrAll(m) == m.dst \in {nodeId, BROADCAST_ADDRESS}

ForMe(m)   == m.dst = nodeId
ForAll(m)  == m.dst # nodeId /\ m.dst = BROADCAST_ADDRESS
Transit(m) == m.dst # nodeId /\ m.dst # BROADCAST_ADDRESS

\* The routing table after m: whatever does not come from the parent comes
\* from below.  (The entries for the gateway and for 255 are never read and
\* left out.)  The controller may have the table cleared.
RouteAfter(m) ==
  IF Repeater /\ m.last # parentNodeId /\ m.sender # nodeId /\ m.sender \in Others
  THEN [route EXCEPT ![m.sender] = m.last] ELSE route

NoRoutes == [p \in Others |-> AUTO]

\* The part every received message has in common.
Receive(m) ==
  /\ pc = "fifo" /\ left > 0 /\ rx # <<>> /\ m = Head(rx)
  /\ rx' = Tail(rx)
  /\ UNCHANGED <<smVars, uplinkOk, transportActive, findingParentNode,
                 failureCounter, presentationSent>>

\* The rest of a message that is processed without a wait.  (Only a
\* transportWait looks at the type of _msg afterwards.)
Consume_Unlimited(m) == /\ left' = left
                        /\ lastIsPong' = (Pinging /\ m.kind = "PONG")
                        /\ UNCHANGED <<pc, calls, broken>>

Consume(m) == /\ left' = left - 1
              /\ lastIsPong' = (Pinging /\ m.kind = "PONG")
              /\ UNCHANGED <<pc, calls, broken>>

\* I_FIND_PARENT_RESPONSE: the shortest distance wins, the preferred parent
\* beats everyone and is not displaced.
Preferred(m) == MY_PARENT_NODE_ID # AUTO /\ m.sender = MY_PARENT_NODE_ID

Accepts_Displaces(m) ==
  /\ ~ParentIsStatic /\ findingParentNode
  /\ Preferred(m) \/ (m.val + 1 # INVALID /\ m.val + 1 < distanceGW)
Accepts_Unsolicited(m) ==
  Preferred(m) \/ (m.val + 1 # INVALID /\ m.val + 1 < distanceGW)

Accepts(m) ==
  /\ ~ParentIsStatic /\ findingParentNode /\ ~preferredParentFound
  /\ Preferred(m) \/ (m.val + 1 # INVALID /\ m.val + 1 < distanceGW)

ParentResponse(m) ==
  /\ Receive(m) /\ ForMe(m) /\ m.kind = "FPAR_RESPONSE"
  /\ Consume(m) /\ route' = RouteAfter(m)
  /\ IF Accepts(m)
     THEN /\ preferredParentFound' = (preferredParentFound \/ Preferred(m))
          /\ distanceGW' = m.val + 1 /\ parentNodeId' = m.sender
     ELSE UNCHANGED <<preferredParentFound, distanceGW, parentNodeId>>
  /\ UNCHANGED <<txVars, pingVars, checkAge, nodeId, eepromNodeId>>

\* I_PING is answered whatever the state.
Ping(m) ==
  /\ Receive(m) /\ ForMe(m) /\ m.kind = "PING"
  /\ Consume(m) /\ route' = RouteAfter(m)
  /\ \E ok \in BOOLEAN : Sent(Uplinks(m.sender, nodeId, RouteAfter(m)), ok)
  /\ UNCHANGED <<preferredParentFound, pingVars, checkAge, configVars, eepromNodeId>>

\* I_PONG answers the ping in progress, whichever ping it was sent for.
Pong(m) ==
  /\ Receive(m) /\ ForMe(m) /\ m.kind = "PONG"
  /\ Consume(m) /\ route' = RouteAfter(m)
  /\ IF pingActive THEN pingActive' = FALSE /\ pingResponse' = m.val
                   ELSE UNCHANGED pingVars
  /\ UNCHANGED <<preferredParentFound, txVars, checkAge, configVars, eepromNodeId>>

\* A message for the core or the sketch (a broadcast only from the parent)
\* may ask for an acknowledgement and make the node reply to the gateway;
\* neither leaves unless it is ready.
ForSketch(m) == m.kind = "APP" /\ (ForMe(m) \/ (ForAll(m) /\ m.last = parentNodeId))
Acks(m)      == uplinkOk /\ ForMe(m) /\ m.flag /\ Uplinks(m.sender, m.last, RouteAfter(m))

AppMessage(m) ==
  /\ Receive(m) /\ ForSketch(m)
  /\ Consume(m)
  /\ route' = RouteAfter(m) \/ (Repeater /\ m.sender = GATEWAY_ADDRESS /\ ForMe(m) /\ route' = NoRoutes)
  /\ \E replies, ok1, ok2 \in BOOLEAN :
       SentTwice(Acks(m), ok1,
                 uplinkOk /\ replies /\ Uplinks(GATEWAY_ADDRESS, nodeId, route'), ok2)
  /\ UNCHANGED <<preferredParentFound, pingVars, checkAge, configVars, eepromNodeId>>

\* One that makes the core or the sketch wait: I_PRESENTATION, which presents
\* the node again, or whatever receive() waits for.  The main loop runs inside.
HandlerWaits(m) ==
  /\ Receive(m) /\ ForSketch(m)
  /\ HandlersWait /\ Depth < MaxDepth
  /\ route' = RouteAfter(m)
  /\ \E ok \in BOOLEAN : Sent(Acks(m), ok)
  /\ Suspend("handler", AUTO, left - 1)
  /\ pc' = "update" /\ left' = 0 /\ lastIsPong' = FALSE
  /\ UNCHANGED <<preferredParentFound, pingVars, checkAge, configVars, eepromNodeId>>

HandlerReturn ==
  /\ pc = "update" /\ OnTop("handler")
  /\ Return
  /\ left' = Top.left /\ pc' = "fifo"
  /\ UNCHANGED <<smVars, flagVars, txVars, pingVars, checkAge, configVars, eepromNodeId,
                 route, presentationSent, rx, lastIsPong>>

\* I_DISCOVER_REQUEST is answered when it comes from the parent.
Discover(m) ==
  /\ Receive(m) /\ ForAll(m) /\ m.kind = "DISCOVER"
  /\ Consume(m) /\ route' = RouteAfter(m)
  /\ \E ok \in BOOLEAN :
       Sent(m.last = parentNodeId /\ Uplinks(m.sender, nodeId, RouteAfter(m)), ok)
  /\ UNCHANGED <<preferredParentFound, pingVars, checkAge, configVars, eepromNodeId>>

\* A message for another node is relayed by a repeater that is ready.
Relay(m) ==
  /\ Receive(m) /\ Transit(m)
  /\ Consume(m) /\ route' = RouteAfter(m)
  /\ \E ok \in BOOLEAN :
       Sent(Repeater /\ uplinkOk /\ Uplinks(m.dst, m.last, RouteAfter(m)), ok)
  /\ UNCHANGED <<preferredParentFound, pingVars, checkAge, configVars, eepromNodeId>>

\* I_ID_RESPONSE: with a dynamic ID and the token of the request, the ID is
\* taken and stored; an invalid one (the network is full) leaves none.
IdResponse(m) ==
  /\ Receive(m) /\ ForMe(m) /\ m.kind = "ID_RESPONSE"
  /\ Consume(m) /\ route' = RouteAfter(m)
  /\ IF MY_NODE_ID = AUTO /\ m.flag
     THEN IF ValidId(m.val) THEN nodeId' = m.val /\ eepromNodeId' = m.val
                            ELSE nodeId' = AUTO /\ UNCHANGED eepromNodeId
     ELSE UNCHANGED <<nodeId, eepromNodeId>>
  /\ UNCHANGED <<preferredParentFound, txVars, pingVars, checkAge, parentNodeId, distanceGW>>

\* I_FIND_PARENT_REQUEST: a ready repeater answers any node but its parent,
\* if its own uplink works (transportCheckUplink).
Willing_Circular(m) == Repeater /\ uplinkOk

Willing(m) == Repeater /\ uplinkOk /\ m.sender # parentNodeId

ParentRequest(m) == Receive(m) /\ ForAll(m) /\ m.kind = "FPAR_REQUEST"

\* Not asked, not ready, or another ping is active.
RefuseParentRequest(m) ==
  /\ ParentRequest(m)
  /\ ~Willing(m) \/ (checkAge >= CHKUPL_INTERVAL /\ pingActive)
  /\ Consume(m) /\ route' = RouteAfter(m)
  /\ UNCHANGED <<preferredParentFound, txVars, pingVars, checkAge, configVars, eepromNodeId>>

\* Flood control: a check less than CHKUPL_INTERVAL old counts as passed, and
\* the answer makes it new again.
AnswerUnchecked(m) ==
  /\ ParentRequest(m) /\ Willing(m) /\ checkAge < CHKUPL_INTERVAL
  /\ Consume(m) /\ route' = RouteAfter(m)
  /\ checkAge' = 0
  /\ \E ok \in BOOLEAN : Sent(Uplinks(m.sender, nodeId, RouteAfter(m)), ok)
  /\ UNCHANGED <<preferredParentFound, pingVars, configVars, eepromNodeId>>

\* transportPingNode: send I_PING, then transportWait, which first spoils the
\* type of _msg and then processes messages.
StartPing(m) ==
  /\ ParentRequest(m) /\ Willing(m) /\ checkAge >= CHKUPL_INTERVAL /\ ~pingActive
  /\ pingActive' = TRUE /\ pingResponse' = INVALID
  /\ \E ok \in BOOLEAN : Sent(Uplinks(GATEWAY_ADDRESS, nodeId, RouteAfter(m)), ok)
  /\ route' = RouteAfter(m)
  /\ Suspend("ping", m.sender, left - 1)
  /\ pc' = "begin" /\ left' = 0 /\ lastIsPong' = FALSE
  /\ UNCHANGED <<preferredParentFound, checkAge, configVars, eepromNodeId>>

\* Everything else: broadcasts that are at most forwarded (a broadcast is not
\* an uplink transmission), and requests to all that reach a node without ID.
Ignore(m) ==
  /\ Receive(m)
  /\ \/ ForAll(m) /\ m.kind \in {"ID_RESPONSE", "FPAR_RESPONSE"}
     \/ ForAll(m) /\ m.kind = "APP" /\ m.last # parentNodeId
     \/ ForMe(m) /\ m.kind \in {"FPAR_REQUEST", "DISCOVER"}
  /\ Consume(m) /\ route' = RouteAfter(m)
  /\ UNCHANGED <<preferredParentFound, txVars, pingVars, checkAge, configVars, eepromNodeId>>

ProcessMessage ==
  rx # <<>> /\ \E m \in {Head(rx)} :
    \/ ParentResponse(m) \/ Ping(m) \/ Pong(m) \/ AppMessage(m) \/ HandlerWaits(m)
    \/ Discover(m) \/ Relay(m) \/ IdResponse(m) \/ RefuseParentRequest(m) \/ AnswerUnchecked(m)
    \/ StartPing(m) \/ Ignore(m)

\* transportWait goes on while its time lasts and the last message processed
\* was no I_PONG.
PingPending == ~lastIsPong /\ Top.age < PING_TIMEOUT

PingContinue ==
  /\ pc = "wait" /\ PingPending
  /\ pc' = "begin"
  /\ UNCHANGED <<smVars, flagVars, txVars, pingVars, checkAge, configVars,
                 eepromNodeId, route, presentationSent, rx, left, calls, broken, lastIsPong>>

FreePingSlot_Forgotten == UNCHANGED pingActive

FreePingSlot == pingActive' = FALSE

PingReturn ==
  /\ pc = "wait" /\ ~PingPending
  /\ FreePingSlot /\ UNCHANGED pingResponse
  /\ Return
  /\ left' = Top.left /\ pc' = "fifo"
  /\ lastIsPong' = (lastIsPong /\ Pinging')
  /\ UNCHANGED <<smVars, flagVars, nodeId, parentNodeId, eepromNodeId, route,
                 presentationSent, rx>>

\* No response arrived: the request stays unanswered.
PingFailed ==
  /\ PingReturn /\ pingResponse = INVALID
  /\ UNCHANGED <<txVars, checkAge, distanceGW>>

\* The uplink works: remember that, and answer the request.
AnswerChecked ==
  /\ PingReturn /\ pingResponse # INVALID
  /\ checkAge' = 0
  /\ distanceGW' = pingResponse
  /\ \E ok \in BOOLEAN : Sent(Uplinks(Top.for, nodeId, route), ok)

-----------------------------------------------------------------------------
(* The sketch, the network, the clock, the power supply. *)

\* The sketch (or its presentation) sends to the gateway: transportSendRoute.
SketchSend ==
  /\ pc = "update" /\ uplinkOk
  /\ \E ok \in BOOLEAN : Sent(Uplinks(GATEWAY_ADDRESS, nodeId, route), ok)
  /\ UNCHANGED <<smVars, flagVars, pingVars, checkAge, configVars, eepromNodeId,
                 route, presentationSent, rx, ctrlVars>>

\* What the network may send to this node now.  Answers may be late: a pong
\* need not belong to the ping in progress.
Msg(kind, sender, last, dst, val, flag) ==
  [kind |-> kind, sender |-> sender, last |-> last, dst |-> dst, val |-> val, flag |-> flag]

IdResponses    == {Msg("ID_RESPONSE", GATEWAY_ADDRESS, p, AUTO, id, match) :
                     p \in Peers, id \in IdOffers, match \in BOOLEAN}
Offers         == {Msg("FPAR_RESPONSE", p, p, nodeId, h, FALSE) : p \in Peers, h \in Hops}
ParentRequests == {Msg("FPAR_REQUEST", n, n, BROADCAST_ADDRESS, 0, FALSE) : n \in Others \cup {AUTO}}
PingRequests   == {Msg("PING", n, p, nodeId, 1, FALSE) : n, p \in Others}
Pongs          == {Msg("PONG", GATEWAY_ADDRESS, p, n, h, FALSE) :
                     p \in Peers, n \in {nodeId} \cup Others, h \in Hops}
Discoveries    == {Msg("DISCOVER", GATEWAY_ADDRESS, p, BROADCAST_ADDRESS, 0, FALSE) : p \in Peers}
AppSent        == {Msg("APP", s, p, n, 0, ack) :
                     s, p \in Peers, n \in {nodeId, BROADCAST_ADDRESS} \cup Peers, ack \in BOOLEAN}
AppMessages    == {m \in AppSent : m.dst \notin {m.sender, m.last} /\ (m.flag => m.dst = nodeId)}

Inbound == {m \in IdResponses \cup Offers \cup ParentRequests \cup PingRequests
                   \cup Pongs \cup Discoveries \cup AppMessages : m.kind \in Traffic}

\* The network keeps requests in flight and being answered below MaxNest.
Requests == Len(calls) - Depth + Len(SelectSeq(rx, LAMBDA m : m.kind = "FPAR_REQUEST"))

Deliver ==
  /\ transportActive /\ Len(rx) < RxMax
  /\ \E m \in Inbound :
       /\ m.kind = "FPAR_REQUEST" => Requests < MaxNest
       /\ rx' = Append(rx, m)
  /\ UNCHANGED <<smVars, flagVars, txVars, pingVars, checkAge, configVars,
                 eepromNodeId, route, presentationSent, ctrlVars>>

\* Time is counted as far as some guard reads it.
AgeLimit == CASE state = "Failure" -> FailureDelay + 1
              [] state \in {"Parent", "ID", "Uplink"} -> STATE_TIMEOUT + 1
              [] OTHER -> 0

Older(call) ==
  IF call.of = "ping" THEN [call EXCEPT !.age = Least(@ + 1, PING_TIMEOUT)] ELSE call

Tick ==
  /\ age' = Least(age + 1, AgeLimit)
  /\ checkAge' = Least(checkAge + 1, CHKUPL_INTERVAL)
  /\ calls' = [i \in DOMAIN calls |-> Older(calls[i])]
  /\ UNCHANGED <<state, retries, flagVars, txVars, pingVars, configVars, eepromNodeId,
                 route, presentationSent, rx, pc, left, broken, lastIsPong>>

\* RAM after power-on (_begin, transportInitialise): everything but the EEPROM.
PowerOn ==
  /\ state' = "Init" /\ retries' = 0 /\ age' = 0
  /\ uplinkOk' = FALSE /\ transportActive' = FALSE
  /\ findingParentNode' = FALSE /\ preferredParentFound' = FALSE
  /\ failureCounter' = 0
  /\ failedUplinkTransmissions' = 0 /\ unacked' = 0
  /\ pingActive' = FALSE /\ pingResponse' = 0
  /\ checkAge' = 0
  /\ nodeId' = eepromNodeId /\ parentNodeId' = MY_PARENT_NODE_ID /\ distanceGW' = INVALID
  /\ presentationSent' = FALSE
  /\ rx' = <<>> /\ pc' = "update" /\ left' = 0 /\ calls' = <<>> /\ broken' = 0 /\ lastIsPong' = FALSE
  /\ UNCHANGED <<eepromNodeId, route>>

\* The first start, with an erased EEPROM.
Init ==
  /\ state = "Init" /\ retries = 0 /\ age = 0
  /\ uplinkOk = FALSE /\ transportActive = FALSE
  /\ findingParentNode = FALSE /\ preferredParentFound = FALSE
  /\ failureCounter = 0
  /\ failedUplinkTransmissions = 0 /\ unacked = 0
  /\ pingActive = FALSE /\ pingResponse = 0
  /\ checkAge = 0
  /\ nodeId = AUTO /\ parentNodeId = MY_PARENT_NODE_ID /\ distanceGW = INVALID
  /\ presentationSent = FALSE
  /\ rx = <<>> /\ pc = "update" /\ left = 0 /\ calls = <<>> /\ broken = 0 /\ lastIsPong = FALSE
  /\ eepromNodeId = AUTO /\ route = NoRoutes

\* What the program does by itself, as long as it runs.
Program == \/ Update \/ FifoBegin \/ ProcessMessage \/ FifoEnd
           \/ PingContinue \/ PingFailed \/ AnswerChecked

Next == Program \/ CallbackReturn \/ HandlerReturn \/ SketchSend \/ Deliver \/ Tick \/ PowerOn

Spec == Init /\ [][Next]_vars

\* The processor runs: some step of Program is always enabled, and as no other
\* steps change pc, left or rx for ever, this is WF_vars(Program), which TLC is
\* slow to evaluate.  Time passes.  The waits of the ready callback and of
\* handlers, which all have a deadline, end although the main loop keeps
\* running inside them.
Fairness == /\ []<><<TRUE>>_<<pc, left, rx>>
            /\ WF_vars(Tick)
            /\ SF_vars(CallbackReturn) /\ SF_vars(HandlerReturn)

FairSpec == Spec /\ Fairness

-----------------------------------------------------------------------------
(* Properties. *)

TypeSM == /\ state \in States /\ retries \in 0 .. STATE_RETRIES /\ age \in Nat
          /\ failureCounter \in 0 .. MAX_TSM_FAILURES
TypeFlags ==
  /\ uplinkOk \in BOOLEAN /\ transportActive \in BOOLEAN
  /\ findingParentNode \in BOOLEAN /\ preferredParentFound \in BOOLEAN
TypeTx == /\ failedUplinkTransmissions \in 0 .. TX_COUNTER_MOD - 1
          /\ unacked \in 0 .. MAX_TX_FAILURES + 1
TypePing  == pingActive \in BOOLEAN /\ pingResponse \in 0 .. 255
TypeCheck == checkAge \in 0 .. CHKUPL_INTERVAL
TypeConfig == /\ nodeId \in Ids /\ eepromNodeId \in Ids
              /\ parentNodeId \in Peers \cup {AUTO} /\ distanceGW \in 0 .. 255
TypeRoute == route \in [Others -> Ids]
TypeCore == presentationSent \in BOOLEAN
TypeRx   == rx \in Seq(Message)
TypeCtrl == /\ pc \in {"update", "begin", "fifo", "wait"} /\ left \in 0 .. MAX_SUBSEQ_MSGS
            /\ lastIsPong \in BOOLEAN
            /\ calls \in Seq(Frame)

\* Every variable stays within its type: bit fields, IDs, bounds.
TypeOK == /\ TypeSM /\ TypeFlags /\ TypeTx /\ TypePing /\ TypeCheck
          /\ TypeConfig /\ TypeRoute /\ TypeCore /\ TypeRx /\ TypeCtrl

\* How the states, the flags and the configuration hang together.
Attachment ==
  /\ uplinkOk <=> state = "Ready"
  /\ transportActive <=> state \notin {"Init", "Failure"}
  /\ state \in {"ID", "Uplink", "Ready"} => parentNodeId \in Peers /\ ~findingParentNode
  /\ ParentIsStatic => ~findingParentNode
  /\ state \in {"Uplink", "Ready"} => nodeId # AUTO
  /\ state = "Ready" => distanceGW # INVALID

\* The ID in RAM is the one in the EEPROM, never the gateway's, and a static
\* ID is never replaced.
Identity ==
  /\ nodeId = eepromNodeId /\ nodeId # GATEWAY_ADDRESS
  /\ MY_NODE_ID # AUTO => eepromNodeId \in {AUTO, MY_NODE_ID}

\* A wait belongs to the ping on top; the main loop runs when none is.
ControlOnTop == (pc = "wait" => OnTop("ping")) /\ (pc = "update" => ~OnTop("ping"))

\* The ping slot is taken by a ping on the stack or by the uplink check of the
\* state machine, and then no answer came yet.
PingSlot ==
  pingActive => pingResponse = INVALID /\ (Pinging \/ state \in {"Uplink", "Failure"})

CallStack == ControlOnTop /\ PingSlot

\* A ping begun since the uplink was lost last is made by a ready node for one
\* that is not its parent.
PingsForOthers ==
  /\ broken \in Nat
  /\ \A i \in 1 .. Len(calls) :
       i > broken /\ calls[i].of = "ping" => uplinkOk /\ calls[i].for # parentNodeId

\* The 4-bit counter never counts more failures than there were.
FailuresAreReal ==
  failedUplinkTransmissions <= unacked \/ unacked = MAX_TX_FAILURES + 1

\* A node that calls itself ready has a parent, an ID of its own, a distance
\* to the gateway and a running radio, and is not searching: the flags are set
\* by six different handlers and read by every sender.
ReadyIsAttached ==
  uplinkOk => /\ state = "Ready" /\ transportActive
              /\ parentNodeId \in Peers /\ ~findingParentNode
              /\ ValidId(nodeId) /\ distanceGW # INVALID

\* A ready node that waits for no pong has no ping active: a lost pong never
\* blocks later uplink checks (comment at MyTransport.cpp:623).
PingSlotFreed == state = "Ready" /\ ~Pinging => ~pingActive

\* The parent of a node whose parent is static, or whose preferred parent
\* answered the search, is that parent, whatever offers come before or after.
PreferredParentKept ==
  ParentIsStatic \/ preferredParentFound => parentNodeId = MY_PARENT_NODE_ID

\* The inductive invariant the proofs use.
IInv == TypeOK /\ Attachment /\ Identity /\ CallStack /\ FailuresAreReal /\ PreferredParentKept

\* The ID in use is the stored one, and once a node has stored an ID nothing it
\* receives, no failure and no restart changes it: late and repeated ID
\* responses are not taken.
IdentityKept ==
  [][/\ nodeId # AUTO => nodeId = eepromNodeId
     /\ eepromNodeId # AUTO => eepromNodeId' = eepromNodeId]_vars

\* A node as its flags show it to the layers above (MyTransport.cpp:387-400)
\* lives the life of NodeLife: its parent is changed only by a search, for a
\* nearer one or the preferred one, its ID never, not even by a restart, and
\* it is attached only with both; a failed node's parent is not looked at.
phase == IF uplinkOk THEN "attached"
         ELSE IF ~transportActive THEN "down"
         ELSE IF findingParentNode THEN "searching" ELSE "joining"
Life == INSTANCE NodeLife WITH
          Neighbours <- Peers, OwnIds <- {n \in Ids : ValidId(n)}, Distances <- 0 .. 255,
          NoNode <- AUTO, NoDistance <- INVALID,
          FirstChoice <- MY_PARENT_NODE_ID, Static <- ParentIsStatic,
          parent <- IF phase = "down" THEN AUTO ELSE parentNodeId,
          id <- nodeId,
          distance <- IF phase = "down" THEN INVALID ELSE distanceGW
ImplementsLife == Life!ASpec

\* A ready node gives up its parent only after more than MAX_TX_FAILURES uplink
\* transmissions failed in a row, none acknowledged in between.
NoHastySearch ==
  [][state = "Ready" /\ state' = "Parent" => unacked > MAX_TX_FAILURES]_vars

\* A request is answered after a ping of two seconds in which messages are
\* processed and, in the waits of handlers, the whole main loop runs.  A node
\* that was ready all that time still offers itself only to a node that is not
\* its parent, and has a parent, an ID and a distance to advertise.  (One that
\* lost its uplink in between may not: see OffersWhenOperational.)
OffersAreUsable ==
  [][AnswerChecked /\ Len(calls) > broken =>
       /\ Top.for # parentNodeId /\ parentNodeId \in Peers
       /\ distanceGW' # INVALID /\ ValidId(nodeId)]_vars

\* Every state but Ready is left eventually, whatever is received or lost: the
\* state changes again and again, or is Ready again and again.
StatesEnd == []<>(state = "Ready") \/ []<><<TRUE>>_state

\* However many messages arrive, the outermost main loop comes round again: the
\* batches end, and so do the pings, whose waits process messages without a turn
\* of the main loop and may ping again.  (MaxNest and MaxDepth are assumptions
\* about the network here: nothing in the code bounds the nesting.)
MainLoopTurns == []<>(pc = "update" /\ calls = <<>>)

-----------------------------------------------------------------------------
(* Statements of the documentation that the code does not keep.            *)

\* "only reply if node is fully operational" (MyTransport.cpp:841): a node that
\* answers a find-parent request has its uplink.  (While it searches a parent
\* nothing it sends to one node leaves.)
OffersWhenOperational == [][AnswerChecked /\ ~findingParentNode => uplinkOk]_vars

\* "no circular reference" (MyTransport.cpp:844): a node never offers itself to
\* its own parent.
NoCircularReference ==
  [][AnswerChecked /\ ~findingParentNode /\ Top.for \in Peers => Top.for # parentNodeId]_vars

\* "255 if no answer received within 2000ms" (MyTransport.h:385): a ping fails
\* only when its time is over.
PingGetsItsTime == [][PingFailed => Top.age >= PING_TIMEOUT]_vars

\* "search for a new parent node after this many transmission failures"
\* (MyTransport.h:166), with the 4-bit counter of MyTransport.h:277.
FailuresStartSearch ==
  [][state = "Ready" /\ Update /\ unacked > MAX_TX_FAILURES => state' = "Parent"]_vars

=============================================================================
