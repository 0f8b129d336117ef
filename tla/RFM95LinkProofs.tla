-------------------------- MODULE RFM95LinkProofs --------------------------
(***************************************************************************)
(* RFM95Link for any nodes, retries and messages: its types, that a packet *)
(* waiting for the main program is never overwritten, and that a confirmed *)
(* message was received.                                                   *)
(*                                                                         *)
(* The last one needs to know what every frame still under way, on the     *)
(* air, in the packet of some node or about to be sent by the main program *)
(* of some node, says of a sender n.  FrameTrue is that knowledge: a frame *)
(* carries at most the sequence number n used last; if it carries just     *)
(* that number, and the call of n sent under it, it is a copy of the       *)
(* message of this call or an acknowledgement from somebody who took it.   *)
(* A restart of n makes it false, as numbers start again from 0.           *)
(***************************************************************************)
EXTENDS RFM95Link, TLAPS

(* q, j and g stand for seq[n], job[n] and got.                            *)
DataTrue(n, f, q, j) ==
  f.kind = "data" /\ f.from = n =>
    f.seq <= q /\ (j.aired = "new" /\ f.seq = q => f.msg = j.msg)

AckTrue(n, f, q, j, g) ==
  f.kind = "ack" /\ f.to = n =>
    f.seq <= q /\ (j.aired = "new" /\ f.seq = q /\ f.from = j.to => j.msg \in g[f.from])

FrameTrue(n, f, q, j, g) == DataTrue(n, f, q, j) /\ AckTrue(n, f, q, j, g)

AckOf(m, j) == [kind |-> "ack", from |-> m, to |-> j.to, seq |-> j.seq, msg |-> j.msg]

Knows(n, f) == FrameTrue(n, f, seq[n], job[n], got)

PacketsTrue == \A n \in Nodes \ restarted, m \in Nodes : Knows(n, packet[m])
AirTrue == \A n \in Nodes \ restarted, m \in Nodes :
             onAir[m] # None => Knows(n, onAir[m])
PendingTrue == \A n \in Nodes \ restarted, m \in Nodes :
                 job[m].kind = "ack" => Knows(n, AckOf(m, job[m]))

(* What the flags say of the packet, and the state of the radio.           *)
FlagsTrue == \A n \in Nodes :
               /\ dataReceived[n] => packet[n].kind = "data"
               /\ ackReceived[n] => packet[n].kind = "ack" /\ packet[n].to = n
RxIsEmpty == \A n \in Nodes : mode[n] = "RX" => ~dataReceived[n] /\ ~ackReceived[n]
FollowsInRx == \A n \in Nodes : follows[n] # None => mode[n] = "RX"
AirInTx == \A n \in Nodes : onAir[n] # None => mode[n] = "TX"
PcMode == \A n \in Nodes :
            /\ pc[n] = "cad" => mode[n] \in {"CAD", "STDBY"}
            /\ pc[n] \in {"wait", "backoff"} => mode[n] \in {"RX", "STDBY"}

(* Acknowledgements go to one node; only data frames count as aired, and   *)
(* those with a new number have one above 0.                               *)
AddressedTo(f) == f.kind = "ack" => f.to \in Nodes
AcksAddressed == \A n \in Nodes : /\ AddressedTo(packet[n])
                                  /\ onAir[n] # None => AddressedTo(onAir[n])
                                  /\ AddressedTo(job[n])
Aired == \A n \in Nodes : /\ job[n].kind = "ack" => job[n].aired = "no"
                          /\ job[n].aired = "new" => seq[n] > 0

RadioInv == RxIsEmpty /\ FollowsInRx /\ AirInTx /\ PcMode
FramesInv == FlagsTrue /\ AcksAddressed /\ Aired /\ PacketsTrue /\ AirTrue /\ PendingTrue
IInv == TypeOK /\ RadioInv /\ FramesInv

----------------------------------------------------------------------------
(* Types                                                                   *)
LEMMA NoFrameType == \A n \in Nodes : NoFrame(n) \in Frame
BY DEF NoFrame, Frame

LEMMA AckJobType == \A to \in Nodes, s \in Nat : AckJob(to, s) \in Job
BY BoundsAssumption DEF AckJob, Job

LEMMA NoJobType == \A n \in Nodes : NoJob(n) \in Job
BY AckJobType DEF NoJob

LEMMA InitType == Init => TypeOK
BY NoFrameType, NoJobType, BoundsAssumption DEF Init, TypeOK

(* The frame Transmit puts on the air.                                     *)
Leaving(n) == [kind |-> job[n].kind, from |-> n, to |-> job[n].to, msg |-> job[n].msg,
               seq |-> IF job[n].kind = "ack" THEN job[n].seq ELSE seq'[n]]

(* What AfterSend leaves in the variables it changes.                      *)
LEMMA AfterSendType ==
  ASSUME TypeOK, NEW n \in Nodes, AfterSend(n)
  PROVE  /\ mode' \in [Nodes -> {"SLEEP", "STDBY", "RX", "CAD", "TX"}]
         /\ ackReceived' \in [Nodes -> BOOLEAN]
         /\ dataReceived' \in [Nodes -> BOOLEAN]
         /\ pc' \in [Nodes -> {"idle", "cad", "sent", "wait", "backoff"}]
         /\ job' \in [Nodes -> Job]
<1>1. EnterRx(n) /\ (Return(n) \/ Stay(n, "wait") \/ Stay(n, "backoff"))
  BY DEF AfterSend
<1>2. pc' \in [Nodes -> {"idle", "cad", "sent", "wait", "backoff"}]
  BY <1>1 DEF Return, Stay, Goto, TypeOK
<1>3. job' \in [Nodes -> Job]
  BY <1>1, NoJobType DEF Return, Stay, TypeOK
<1>4. /\ mode' \in [Nodes -> {"SLEEP", "STDBY", "RX", "CAD", "TX"}]
      /\ ackReceived' \in [Nodes -> BOOLEAN]
      /\ dataReceived' \in [Nodes -> BOOLEAN]
  BY <1>1 DEF EnterRx, TypeOK
<1>5. QED
  BY <1>2, <1>3, <1>4

LEMMA TypeStep == TypeOK /\ [Next]_vars => TypeOK'
<1> SUFFICES ASSUME TypeOK, [Next]_vars PROVE TypeOK'
  OBVIOUS
<1> USE DEF TypeOK
<1>1. ASSUME NEW n \in Nodes, NEW to \in (Nodes \ {n}) \cup {Broadcast},
             NEW patient \in BOOLEAN, Send(n, to, patient)
      PROVE  TypeOK'
  <2>1. calls' \in 0 .. MaxCalls /\ calls' \in Nat
    BY <1>1, BoundsAssumption DEF Send
  <2>2. job' \in [Nodes -> Job]
    BY <1>1, <2>1, BoundsAssumption DEF Send, Job
  <2>3. QED
    BY <1>1, <2>1, <2>2 DEF Send, StartFrame, Leave, Goto
<1>2. ASSUME NEW n \in Nodes, Sleep(n) PROVE TypeOK'
  BY <1>2 DEF Sleep, Silence
<1>3. ASSUME NEW n \in Nodes, Listen(n) PROVE TypeOK'
  BY <1>3 DEF Listen, EnterRx, channel
<1>4. ASSUME NEW n \in Nodes, Receive(n) PROVE TypeOK'
  <2>1. packet[n] \in Frame
    OBVIOUS
  <2>2. got' \in [Nodes -> SUBSET Nat]
    BY <1>4, <2>1 DEF Receive, Frame
  <2>3. job' \in [Nodes -> Job]
    <3>1. AckJob(packet[n].from, packet[n].seq) \in Job
      BY <2>1, AckJobType DEF Frame
    <3>2. QED
      BY <1>4, <3>1 DEF Receive
  <2>4. QED
    BY <1>4, <2>2, <2>3 DEF Receive, StartFrame, Leave, Goto
<1>5. ASSUME NEW n \in Nodes, Transmit(n) PROVE TypeOK'
  <2>1. job[n] \in Job
    OBVIOUS
  <2>2. seq' \in [Nodes -> Nat]
    BY <1>5 DEF Transmit
  <2>3. Leaving(n) \in Frame
    BY <2>1, <2>2 DEF Leaving, Frame, Job
  <2>4. onAir' \in [Nodes -> Frame \cup {None}]
    BY <1>5, <2>3 DEF Transmit, Leaving
  <2>5. job' \in [Nodes -> Job]
    BY <1>5, <2>1, NoJobType DEF Transmit, Return, Job
  <2>6. QED
    BY <1>5, <2>2, <2>4, <2>5 DEF Transmit, Leave, Return, Goto
<1>6. ASSUME NEW n \in Nodes, NotClear(n) PROVE TypeOK'
  <2>1. CASE job[n].kind = "ack"
    BY <1>6, <2>1, NoJobType DEF NotClear, Return, Goto, channel
  <2>2. CASE job[n].kind # "ack"
    BY <1>6, <2>2, AfterSendType DEF NotClear, channel
  <2>3. QED
    BY <2>1, <2>2
<1>7. ASSUME NEW n \in Nodes, Sent(n) PROVE TypeOK'
  BY <1>7, AfterSendType DEF Sent, channel
<1>8. ASSUME NEW n \in Nodes, AckSeen(n) PROVE TypeOK'
  BY <1>8, NoJobType DEF AckSeen, Return, Stay, Goto, channel
<1>9. ASSUME NEW n \in Nodes, Timeout(n) PROVE TypeOK'
  BY <1>9 DEF Timeout, Stay, Goto, channel, radio
<1>10. ASSUME NEW n \in Nodes, Retry(n) PROVE TypeOK'
  <2>1. job[n] \in Job /\ job[n].retry + 1 \in 0 .. Retries
    <3>1. job[n].retry # Retries
      BY <1>10, Zenon DEF Retry, LastTry
    <3>2. job[n] \in Job
      OBVIOUS
    <3>3. job[n].retry \in 0 .. Retries
      BY <3>2 DEF Job
    <3>4. QED
      BY <3>1, <3>2, <3>3, BoundsAssumption
  <2>2. job' \in [Nodes -> Job]
    <3> DEFINE J == [job[n] EXCEPT !.retry = @ + 1]
    <3>1. J \in Job
      <4>1. J = [kind |-> job[n].kind, to |-> job[n].to, seq |-> job[n].seq, msg |-> job[n].msg,
                 patient |-> job[n].patient, retry |-> job[n].retry + 1, aired |-> job[n].aired]
        BY <2>1 DEF Job
      <4>2. QED
        BY <2>1, <4>1 DEF Job
    <3>2. job' = [job EXCEPT ![n] = J]
      BY <1>10 DEF Retry
    <3>3. QED
      BY <3>1, <3>2
  <2>3. QED
    BY <1>10, <2>2 DEF Retry, StartFrame, Leave, Goto
<1>11. ASSUME NEW n \in Nodes, Fail(n) PROVE TypeOK'
  BY <1>11, NoJobType DEF Fail, Return, Goto, channel, radio
<1>12. ASSUME NEW n \in Nodes, CadDone(n) PROVE TypeOK'
  BY <1>12 DEF CadDone, channel
<1>13. ASSUME NEW n \in Nodes, Synchronise(n) PROVE TypeOK'
  BY <1>13 DEF Synchronise, radio
<1>14. ASSUME NEW n \in Nodes, TxDone(n) PROVE TypeOK'
  <2>1. PICK whole \in SUBSET {r \in Nodes : follows[r] = n} :
          LET taken == {r \in whole : ForUs(r, onAir[n])} IN
          /\ mode' = [r \in Nodes |-> IF r \in whole \cup {n} THEN "STDBY" ELSE mode[r]]
          /\ packet' = [r \in Nodes |-> IF r \in whole THEN onAir[n] ELSE packet[r]]
          /\ ackReceived' = [r \in Nodes |-> IF r \in taken THEN onAir[n].kind = "ack"
                                              ELSE ackReceived[r]]
          /\ dataReceived' = [r \in Nodes |-> IF r \in taken THEN onAir[n].kind = "data"
                                               ELSE dataReceived[r]]
    BY <1>14 DEF TxDone
  <2>2. onAir[n] \in Frame
    BY <1>14 DEF TxDone
  <2>3. packet' \in [Nodes -> Frame]
    BY <2>1, <2>2
  <2>4. mode' \in [Nodes -> {"SLEEP", "STDBY", "RX", "CAD", "TX"}]
    BY <2>1
  <2>5. ackReceived' \in [Nodes -> BOOLEAN]
    BY <2>1, Zenon
  <2>6. dataReceived' \in [Nodes -> BOOLEAN]
    BY <2>1, Zenon
  <2>7. QED
    BY <1>14, <2>3, <2>4, <2>5, <2>6 DEF TxDone
<1>15. ASSUME NEW n \in Nodes, Overhear(n) PROVE TypeOK'
  BY <1>15, NoFrameType DEF Overhear, channel
<1>16. ASSUME NEW n \in Nodes, Restart(n) PROVE TypeOK'
  BY <1>16, NodesAssumption, NoJobType DEF Restart, Return, Goto, Silence
<1>17. CASE UNCHANGED vars
  BY <1>17 DEF vars
<1>18. QED
  BY <1>1, <1>2, <1>3, <1>4, <1>5, <1>6, <1>7, <1>8, <1>9, <1>10, <1>11, <1>12, <1>13,
     <1>14, <1>15, <1>16, <1>17
     DEF Next, Program, Chip, sendWithRetry

----------------------------------------------------------------------------
(* The radio                                                               *)
LEMMA InitRadio == Init => RadioInv
BY NodesAssumption DEF Init, RadioInv, RxIsEmpty, FollowsInRx, AirInTx, PcMode

LEMMA RadioStep == TypeOK /\ RadioInv /\ [Next]_vars => RadioInv'
<1> SUFFICES ASSUME TypeOK, RadioInv, [Next]_vars PROVE RadioInv'
  OBVIOUS
<1> USE NodesAssumption DEF TypeOK, RadioInv, RxIsEmpty, FollowsInRx, AirInTx, PcMode
<1>1. ASSUME NEW n \in Nodes, NEW to \in (Nodes \ {n}) \cup {Broadcast},
             NEW patient \in BOOLEAN, Send(n, to, patient)
      PROVE  RadioInv'
  BY <1>1 DEF Send, Idle, StartFrame, Leave, Goto
<1>2. ASSUME NEW n \in Nodes, Sleep(n) PROVE RadioInv'
  BY <1>2 DEF Sleep, Idle, Silence
<1>3. ASSUME NEW n \in Nodes, Listen(n) PROVE RadioInv'
  BY <1>3 DEF Listen, Idle, Deaf, EnterRx, channel
<1>4. ASSUME NEW n \in Nodes, Receive(n) PROVE RadioInv'
  BY <1>4 DEF Receive, Idle, StartFrame, Leave, Goto
<1>5. ASSUME NEW n \in Nodes, Transmit(n) PROVE RadioInv'
  BY <1>5 DEF Transmit, Leave, Return, Goto
<1>6. ASSUME NEW n \in Nodes, mode[n] # "TX", AfterSend(n), UNCHANGED channel PROVE RadioInv'
  <2>1. EnterRx(n) /\ (Return(n) \/ Stay(n, "wait") \/ Stay(n, "backoff"))
    BY <1>6 DEF AfterSend
  <2>2. QED
    BY <1>6, <2>1 DEF EnterRx, Return, Stay, Goto, channel
<1>7. ASSUME NEW n \in Nodes, NotClear(n) PROVE RadioInv'
  <2>1. CASE job[n].kind = "ack"
    BY <1>7, <2>1 DEF NotClear, Return, Goto, channel
  <2>2. CASE job[n].kind # "ack"
    BY <1>6, <1>7, <2>2 DEF NotClear
  <2>3. QED
    BY <2>1, <2>2
<1>8. ASSUME NEW n \in Nodes, Sent(n) PROVE RadioInv'
  BY <1>6, <1>8 DEF Sent
<1>9. ASSUME NEW n \in Nodes, AckSeen(n) PROVE RadioInv'
  BY <1>9 DEF AckSeen, Return, Stay, Goto, channel
<1>10. ASSUME NEW n \in Nodes, Timeout(n) PROVE RadioInv'
  BY <1>10 DEF Timeout, Stay, Goto, channel, radio
<1>11. ASSUME NEW n \in Nodes, Retry(n) PROVE RadioInv'
  BY <1>11 DEF Retry, StartFrame, Leave, Goto
<1>12. ASSUME NEW n \in Nodes, Fail(n) PROVE RadioInv'
  BY <1>12 DEF Fail, Return, Goto, channel, radio
<1>13. ASSUME NEW n \in Nodes, CadDone(n) PROVE RadioInv'
  BY <1>13 DEF CadDone, channel
<1>14. ASSUME NEW n \in Nodes, Synchronise(n) PROVE RadioInv'
  BY <1>14 DEF Synchronise, radio
<1>15. ASSUME NEW n \in Nodes, TxDone(n) PROVE RadioInv'
  BY <1>15 DEF TxDone
<1>16. ASSUME NEW n \in Nodes, Overhear(n) PROVE RadioInv'
  BY <1>16 DEF Overhear, channel
<1>17. ASSUME NEW n \in Nodes, Restart(n) PROVE RadioInv'
  BY <1>17 DEF Restart, Return, Goto, Silence
<1>18. CASE UNCHANGED vars
  BY <1>18 DEF vars
<1>19. QED
  BY <1>1, <1>2, <1>3, <1>4, <1>5, <1>7, <1>8, <1>9, <1>10, <1>11, <1>12, <1>13, <1>14,
     <1>15, <1>16, <1>17, <1>18
     DEF Next, Program, Chip, sendWithRetry

----------------------------------------------------------------------------
(* TypeOK: every variable keeps its range, whatever is lost or resent.     *)
THEOREM TypeCorrect == Spec => []TypeOK
<1>1. QED
  BY InitType, TypeStep, PTL DEF Spec

(* PacketKept: only a radio that listens stores a packet, and one that     *)
(* listens has none waiting (RFM95.cpp:246-258, 203-244).                  *)
THEOREM PacketKeptCorrect == Spec => PacketKept
<1>1. ASSUME TypeOK, RadioInv, [Next]_vars
      PROVE  [\A n \in Nodes : dataReceived[n] /\ dataReceived'[n] => packet'[n] = packet[n]]_vars
  <2> SUFFICES ASSUME NEW r \in Nodes, dataReceived[r], packet'[r] # packet[r] PROVE FALSE
    OBVIOUS
  <2>1. mode[r] # "RX" /\ follows[r] = None
    BY <1>1 DEF RadioInv, RxIsEmpty, FollowsInRx
  <2>2. ASSUME NEW n \in Nodes, TxDone(n) PROVE packet'[r] = packet[r]
    BY <1>1, <2>1, <2>2, NodesAssumption DEF TxDone, TypeOK
  <2>3. ASSUME NEW n \in Nodes, Overhear(n) PROVE packet'[r] = packet[r]
    BY <1>1, <2>1, <2>3 DEF Overhear, TypeOK
  <2>4. packet' = packet \/ \E n \in Nodes : TxDone(n) \/ Overhear(n)
    BY <1>1 DEF Next, Program, Chip, sendWithRetry, vars, radio, Send, Sleep, Listen, Receive,
       Transmit, NotClear, Sent, AckSeen, Timeout, Retry, Fail, CadDone, Synchronise, Restart
  <2>5. QED
    BY <2>2, <2>3, <2>4
<1>2. QED
  BY <1>1, InitType, TypeStep, InitRadio, RadioStep, PTL DEF Spec, PacketKept

----------------------------------------------------------------------------
(* The frames under way                                                    *)
(* What is known of a frame stays true while its number is passed, or the  *)
(* call that used it goes on; messages taken stay taken.                   *)
Outlives(q, j, q2, j2) ==
  /\ q <= q2
  /\ j2.aired = "new" =>
       q < q2 \/ (q2 = q /\ j.aired = "new" /\ j2.msg = j.msg /\ j2.to = j.to)

LEMMA Carried ==
  ASSUME NEW n \in Nodes, NEW f \in Frame, NEW q \in Nat, NEW q2 \in Nat, NEW j, NEW j2,
         NEW g, NEW g2, Outlives(q, j, q2, j2), \A m \in Nodes : g[m] \subseteq g2[m],
         FrameTrue(n, f, q, j, g)
  PROVE  FrameTrue(n, f, q2, j2, g2)
<1>1. f.seq \in Nat /\ f.from \in Nodes
  BY DEF Frame
<1>2. DataTrue(n, f, q2, j2)
  BY <1>1 DEF FrameTrue, DataTrue, Outlives
<1>3. AckTrue(n, f, q2, j2, g2)
  BY <1>1 DEF FrameTrue, AckTrue, Outlives
<1>4. QED
  BY <1>2, <1>3 DEF FrameTrue

(* A node that makes an acknowledgement of its own, or none at all, knows  *)
(* nothing wrong of it.                                                    *)
LEMMA OwnFrame ==
  ASSUME NEW m \in Nodes, NEW n \in Nodes, NEW q \in Nat, NEW j, NEW g,
         j.aired = "new" => q > 0
  PROVE  FrameTrue(n, NoFrame(m), q, j, g) /\ FrameTrue(n, AckOf(m, NoJob(m)), q, j, g)
BY DEF FrameTrue, DataTrue, AckTrue, NoFrame, AckOf, NoJob, AckJob

KnowsNext(n, f) == FrameTrue(n, f, seq'[n], job'[n], got')

(* A step keeps what is known of the frames when the calls of the others   *)
(* outlive it, packets come from the air, and what is new on the air or    *)
(* pending is true.                                                        *)
Sound == /\ \A n \in Nodes \ restarted' : Outlives(seq[n], job[n], seq'[n], job'[n])
         /\ restarted \subseteq restarted'
         /\ \A m \in Nodes : got[m] \subseteq got'[m]
         /\ \A m \in Nodes : \/ packet'[m] = packet[m]
                             \/ packet'[m] = NoFrame(m)
                             \/ \E k \in Nodes : onAir[k] # None /\ packet'[m] = onAir[k]
         /\ \A m \in Nodes : \/ onAir'[m] = onAir[m]
                             \/ onAir'[m] = None
                             \/ \A n \in Nodes \ restarted' : KnowsNext(n, onAir'[m])
         /\ \A m \in Nodes : job'[m].kind = "ack" =>
              \/ job[m].kind = "ack" /\ AckOf(m, job'[m]) = AckOf(m, job[m])
              \/ job'[m] = NoJob(m)
              \/ \A n \in Nodes \ restarted' : KnowsNext(n, AckOf(m, job'[m]))

LEMMA AckOfType ==
  ASSUME NEW m \in Nodes, NEW j \in Job, j.kind = "ack", j.to \in Nodes
  PROVE  AckOf(m, j) \in Frame
BY DEF AckOf, Frame, Job

LEMMA FramesStep ==
  ASSUME TypeOK, TypeOK', FramesInv, Aired', Sound
  PROVE  PacketsTrue' /\ AirTrue' /\ PendingTrue'
<1> USE DEF TypeOK
<1>1. ASSUME NEW n \in Nodes \ restarted', NEW f \in Frame, Knows(n, f) PROVE KnowsNext(n, f)
  <2>1. n \in Nodes \ restarted /\ seq[n] \in Nat /\ seq'[n] \in Nat
    BY DEF Sound
  <2>2. Outlives(seq[n], job[n], seq'[n], job'[n]) /\ \A m \in Nodes : got[m] \subseteq got'[m]
    BY DEF Sound
  <2>3. QED
    BY <1>1, <2>1, <2>2, Carried DEF Knows, KnowsNext
<1>2. ASSUME NEW n \in Nodes, NEW m \in Nodes
      PROVE  KnowsNext(n, NoFrame(m)) /\ KnowsNext(n, AckOf(m, NoJob(m)))
  <2>1. seq'[n] \in Nat /\ (job'[n].aired = "new" => seq'[n] > 0)
    BY DEF Aired
  <2>2. QED
    BY <2>1, OwnFrame DEF KnowsNext
<1>3. ASSUME NEW n \in Nodes \ restarted', NEW k \in Nodes, onAir[k] # None
      PROVE  KnowsNext(n, onAir[k])
  BY <1>1, <1>3 DEF Sound, FramesInv, AirTrue
<1>4. ASSUME NEW n \in Nodes \ restarted', NEW m \in Nodes PROVE KnowsNext(n, packet'[m])
  <2>1. CASE packet'[m] = packet[m]
    BY <1>1, <2>1 DEF Sound, FramesInv, PacketsTrue
  <2>2. CASE packet'[m] = NoFrame(m)
    BY <1>2, <2>2
  <2>3. CASE \E k \in Nodes : onAir[k] # None /\ packet'[m] = onAir[k]
    BY <1>3, <2>3
  <2>4. QED
    BY <2>1, <2>2, <2>3 DEF Sound
<1>5. ASSUME NEW n \in Nodes \ restarted', NEW m \in Nodes, onAir'[m] # None
      PROVE  KnowsNext(n, onAir'[m])
  BY <1>3, <1>5 DEF Sound
<1>6. ASSUME NEW n \in Nodes \ restarted', NEW m \in Nodes, job'[m].kind = "ack"
      PROVE  KnowsNext(n, AckOf(m, job'[m]))
  <2>1. CASE job[m].kind = "ack" /\ AckOf(m, job'[m]) = AckOf(m, job[m])
    <3>1. job[m].to \in Nodes
      BY <2>1 DEF FramesInv, AcksAddressed, AddressedTo
    <3>2. Knows(n, AckOf(m, job[m]))
      BY <2>1 DEF Sound, FramesInv, PendingTrue
    <3>3. QED
      BY <1>1, <2>1, <3>1, <3>2, AckOfType
  <2>2. CASE job'[m] = NoJob(m)
    BY <1>2, <2>2
  <2>3. QED
    BY <1>6, <2>1, <2>2 DEF Sound
<1>7. QED
  BY <1>4, <1>5, <1>6 DEF PacketsTrue, AirTrue, PendingTrue, Knows, KnowsNext

(* What a step says of flags and jobs, without their frames.               *)
Marks == FlagsTrue /\ AcksAddressed /\ Aired

LEMMA InitFrames == Init => FramesInv
<1> SUFFICES ASSUME Init PROVE FramesInv
  OBVIOUS
<1>1. \A n \in Nodes : /\ packet[n] = NoFrame(n) /\ job[n] = NoJob(n) /\ onAir[n] = None
                       /\ seq[n] = 0 /\ ~dataReceived[n] /\ ~ackReceived[n]
  BY DEF Init
<1>2. FlagsTrue /\ AcksAddressed /\ Aired
  <2>1. FlagsTrue
    BY <1>1 DEF FlagsTrue
  <2>2. ASSUME NEW n \in Nodes
        PROVE  packet[n].to = n /\ job[n].to = n /\ job[n].aired = "no" /\ onAir[n] = None
    <3>1. packet[n] = NoFrame(n) /\ job[n] = NoJob(n) /\ onAir[n] = None
      BY <1>1
    <3>2. QED
      BY <3>1 DEF NoFrame, NoJob, AckJob
  <2>3. AcksAddressed /\ Aired
    BY <1>1, <2>2 DEF AcksAddressed, AddressedTo, Aired
  <2>4. QED
    BY <2>1, <2>3
<1>3. PacketsTrue /\ AirTrue /\ PendingTrue
  BY <1>1, <1>2, OwnFrame DEF PacketsTrue, AirTrue, PendingTrue, Knows, Aired
<1>4. QED
  BY <1>2, <1>3 DEF FramesInv

(* The call of a node goes on or ends, without a new number.               *)
LEMMA SameCall ==
  ASSUME TypeOK, UNCHANGED seq,
         \A n \in Nodes : \/ job'[n] = job[n] \/ job'[n].aired # "new"
                          \/ /\ job'[n].aired = job[n].aired
                             /\ job'[n].msg = job[n].msg /\ job'[n].to = job[n].to
  PROVE  \A n \in Nodes : Outlives(seq[n], job[n], seq'[n], job'[n])
BY DEF TypeOK, Outlives

(* A call that ends: steps that disturb no frame.                          *)
LEMMA Quiet ==
  ASSUME TypeOK, Marks, UNCHANGED <<packet, seq, got>>, restarted \subseteq restarted',
         \A m \in Nodes : onAir'[m] \in {onAir[m], None},
         \A m \in Nodes : job'[m] = job[m] \/ job'[m] = NoJob(m),
         \A m \in Nodes : /\ dataReceived'[m] => dataReceived[m]
                          /\ ackReceived'[m] => ackReceived[m]
  PROVE  Marks' /\ Sound
<1>1. Marks'
  <2>1. \A m \in Nodes : NoJob(m).to = m /\ NoJob(m).aired = "no"
    BY DEF NoJob, AckJob
  <2>2. FlagsTrue'
    BY DEF Marks, FlagsTrue
  <2>3. AcksAddressed'
    BY <2>1 DEF Marks, AcksAddressed, AddressedTo
  <2>4. Aired'
    BY <2>1 DEF Marks, Aired
  <2>5. QED
    BY <2>2, <2>3, <2>4 DEF Marks
<1>2. \A n \in Nodes : Outlives(seq[n], job[n], seq'[n], job'[n])
  <2>1. \A n \in Nodes : NoJob(n).aired = "no"
    BY DEF NoJob, AckJob
  <2>2. QED
    BY <2>1, SameCall
<1>3. QED
  BY <1>1, <1>2 DEF Sound

LEMMA EndsQuietly ==
  ASSUME TypeOK, NEW n \in Nodes, Return(n) \/ Stay(n, "wait") \/ Stay(n, "backoff")
  PROVE  \A m \in Nodes : job'[m] = job[m] \/ job'[m] = NoJob(m)
BY DEF TypeOK, Return, Stay

LEMMA RxQuietly ==
  ASSUME TypeOK, NEW n \in Nodes, EnterRx(n)
  PROVE  \A m \in Nodes : /\ dataReceived'[m] => dataReceived[m]
                          /\ ackReceived'[m] => ackReceived[m]
BY DEF TypeOK, EnterRx

LEMMA MarksStep == TypeOK /\ TypeOK' /\ RadioInv /\ FramesInv /\ [Next]_vars => Marks' /\ Sound
<1> SUFFICES ASSUME TypeOK, TypeOK', RadioInv, FramesInv, [Next]_vars PROVE Marks' /\ Sound
  OBVIOUS
<1>0. Marks
  BY DEF FramesInv, Marks
<1>1. ASSUME NEW n \in Nodes, NEW to \in (Nodes \ {n}) \cup {Broadcast},
             NEW patient \in BOOLEAN, Send(n, to, patient)
      PROVE  Marks' /\ Sound
  <2>1. /\ job'[n].kind = "data" /\ job'[n].aired = "no"
        /\ \A m \in Nodes : m # n => job'[m] = job[m]
    BY <1>1 DEF Send, TypeOK
  <2>2. UNCHANGED <<packet, seq, onAir, got, restarted, dataReceived, ackReceived>>
    BY <1>1 DEF Send
  <2>3. Marks'
    BY <1>0, <2>1, <2>2 DEF Marks, FlagsTrue, AcksAddressed, AddressedTo, Aired
  <2>4. \A m \in Nodes : Outlives(seq[m], job[m], seq'[m], job'[m])
    BY <2>1, <2>2, SameCall
  <2>5. \A m \in Nodes : job'[m].kind = "ack" => job'[m] = job[m]
    BY <2>1
  <2>6. QED
    BY <2>2, <2>3, <2>4, <2>5 DEF Sound
<1>2. ASSUME NEW n \in Nodes, Sleep(n) PROVE Marks' /\ Sound
  <2>1. \A m \in Nodes : onAir'[m] \in {onAir[m], None}
    BY <1>2 DEF Sleep, Silence, TypeOK
  <2>2. QED
    BY <1>0, <1>2, <2>1, Quiet DEF Sleep
<1>3. ASSUME NEW n \in Nodes, Listen(n) PROVE Marks' /\ Sound
  BY <1>0, <1>3, Quiet, RxQuietly DEF Listen, channel
<1>4. ASSUME NEW n \in Nodes, Receive(n) PROVE Marks' /\ Sound
  <2> DEFINE f == packet[n]
  <2>1. f \in Frame /\ f.kind = "data" /\ f.from \in Nodes
    BY <1>0, <1>4 DEF Receive, Marks, FlagsTrue, TypeOK, Frame
  <2>2. UNCHANGED <<packet, seq, onAir, restarted, ackReceived>>
    BY <1>4 DEF Receive
  <2>3. /\ \A m \in Nodes : got[m] \subseteq got'[m]
        /\ f.msg \in got'[n]
        /\ \A m \in Nodes : dataReceived'[m] => dataReceived[m]
    BY <1>4 DEF Receive, TypeOK
  <2>4. job' = job \/ job' = [job EXCEPT ![n] = AckJob(f.from, f.seq)]
    BY <1>4 DEF Receive
  <2>5. \A m \in Nodes : job'[m] = job[m] \/ (m = n /\ job'[m] = AckJob(f.from, f.seq))
    BY <2>4 DEF TypeOK
  <2>6. Marks'
    BY <1>0, <2>1, <2>2, <2>3, <2>5
       DEF Marks, FlagsTrue, AcksAddressed, AddressedTo, Aired, AckJob
  <2>7. \A m \in Nodes : Outlives(seq[m], job[m], seq'[m], job'[m])
    BY <2>2, <2>5, SameCall DEF AckJob
  <2>8. ASSUME NEW k \in Nodes \ restarted
        PROVE  FrameTrue(k, AckOf(n, AckJob(f.from, f.seq)), seq[k], job[k], got')
    <3>1. DataTrue(k, f, seq[k], job[k])
      BY DEF FramesInv, PacketsTrue, Knows, FrameTrue
    <3>2. f.from = k => f.seq <= seq[k] /\ (job[k].aired = "new" /\ f.seq = seq[k]
                                            => job[k].msg \in got'[n])
      BY <2>1, <2>3, <3>1 DEF DataTrue
    <3>3. QED
      BY <3>2 DEF FrameTrue, DataTrue, AckTrue, AckOf, AckJob
  <2>9. ASSUME NEW k \in Nodes \ restarted, job'[n] = AckJob(f.from, f.seq)
        PROVE  KnowsNext(k, AckOf(n, job'[n]))
    <3>1. CASE job'[k] = job[k]
      BY <2>2, <2>8, <2>9, <3>1 DEF KnowsNext
    <3>2. CASE k = n
      <4>1. job'[k].aired = "no" /\ job'[k].to = f.from
        BY <2>9, <3>2 DEF AckJob
      <4>2. FrameTrue(k, AckOf(n, AckJob(f.from, f.seq)), seq[k], job[k], got')
        BY <2>8
      <4>3. QED
        BY <2>2, <2>9, <4>1, <4>2 DEF KnowsNext, FrameTrue, DataTrue, AckTrue, AckOf, AckJob
    <3>3. QED
      BY <2>5, <3>1, <3>2
  <2>10. QED
    BY <2>2, <2>3, <2>5, <2>6, <2>7, <2>9 DEF Sound
<1>5. ASSUME NEW n \in Nodes, Transmit(n) PROVE Marks' /\ Sound
  <2> DEFINE f == Leaving(n)
  <2>1. UNCHANGED <<packet, got, restarted, dataReceived, ackReceived>>
    BY <1>5 DEF Transmit
  <2>2. /\ onAir'[n] = f
        /\ \A m \in Nodes : m # n => onAir'[m] = onAir[m] /\ seq'[m] = seq[m] /\ job'[m] = job[m]
    BY <1>5 DEF Transmit, Leaving, TypeOK, Return
  <2>3. seq[n] \in Nat /\ seq'[n] = IF Numbered(n) THEN seq[n] + 1 ELSE seq[n]
    BY <1>5 DEF Transmit, TypeOK
  <2>4. job[n] \in Job
    BY DEF TypeOK
  <2>5. CASE job[n].kind = "ack"
    <3>1. job'[n] = NoJob(n) /\ seq'[n] = seq[n] + 1
      BY <1>5, <2>3, <2>5 DEF Transmit, Return, Numbered, TypeOK
    <3>2. f = AckOf(n, job[n])
      BY <2>5 DEF Leaving, AckOf
    <3>3. Marks'
      BY <1>0, <2>1, <2>2, <2>3, <2>5, <3>1, <3>2
         DEF Marks, FlagsTrue, AcksAddressed, AddressedTo, Aired, NoJob, AckJob, AckOf
    <3>4. \A m \in Nodes : Outlives(seq[m], job[m], seq'[m], job'[m])
      BY <2>2, <2>3, <3>1 DEF Outlives, NoJob, AckJob, TypeOK
    <3>5. ASSUME NEW k \in Nodes \ restarted PROVE KnowsNext(k, f)
      <4>1. Knows(k, f)
        BY <2>5, <3>2 DEF FramesInv, PendingTrue
      <4>2. job[n].to \in Nodes
        BY <1>0, <2>5 DEF Marks, AcksAddressed, AddressedTo
      <4>3. f \in Frame
        BY <2>4, <2>5, <3>2, <4>2, AckOfType
      <4>4. seq[k] \in Nat /\ seq'[k] \in Nat
        BY DEF TypeOK
      <4>5. QED
        BY <2>1, <3>4, <4>1, <4>3, <4>4, Carried DEF Knows, KnowsNext
    <3>6. QED
      BY <2>1, <2>2, <3>1, <3>3, <3>4, <3>5 DEF Sound
  <2>6. CASE job[n].kind = "data"
    <3>1. job'[n] = [job[n] EXCEPT
                       !.aired = IF Numbered(n) THEN "new" ELSE IF @ = "no" THEN "old" ELSE @]
      BY <1>5, <2>6 DEF Transmit, TypeOK
    <3>2. /\ job'[n].kind = "data" /\ job'[n].msg = job[n].msg /\ job'[n].to = job[n].to
          /\ Numbered(n) => job'[n].aired = "new"
          /\ ~Numbered(n) => job'[n].aired # "new" \/ job[n].aired = "new"
      BY <2>4, <2>6, <3>1 DEF Job
    <3>3. f.kind = "data" /\ f.from = n /\ f.msg = job[n].msg /\ f.seq = seq'[n]
      BY <2>6 DEF Leaving
    <3>4. Marks'
      <4>1. Aired'
        BY <1>0, <2>2, <2>3, <3>2 DEF Marks, Aired
      <4>2. AcksAddressed'
        BY <1>0, <2>1, <2>2, <3>2, <3>3 DEF Marks, AcksAddressed, AddressedTo
      <4>3. FlagsTrue'
        BY <1>0, <2>1 DEF Marks, FlagsTrue
      <4>4. QED
        BY <4>1, <4>2, <4>3 DEF Marks
    <3>5. \A m \in Nodes : Outlives(seq[m], job[m], seq'[m], job'[m])
      BY <2>2, <2>3, <3>2 DEF Outlives, TypeOK
    <3>6. ASSUME NEW k \in Nodes \ restarted PROVE KnowsNext(k, f)
      <4>1. seq'[n] \in Nat
        BY DEF TypeOK
      <4>2. QED
        BY <3>2, <3>3, <4>1 DEF KnowsNext, FrameTrue, DataTrue, AckTrue
    <3>7. QED
      BY <2>1, <2>2, <3>2, <3>4, <3>5, <3>6 DEF Sound
  <2>7. QED
    BY <2>4, <2>5, <2>6 DEF Job
<1>6. ASSUME NEW n \in Nodes, AfterSend(n), UNCHANGED <<packet, seq, channel, got, restarted>>
      PROVE  Marks' /\ Sound
  <2>1. EnterRx(n) /\ (Return(n) \/ Stay(n, "wait") \/ Stay(n, "backoff"))
    BY <1>6 DEF AfterSend
  <2>2. QED
    BY <1>0, <1>6, <2>1, Quiet, EndsQuietly, RxQuietly DEF channel
<1>7. ASSUME NEW n \in Nodes, NotClear(n) PROVE Marks' /\ Sound
  <2>1. CASE job[n].kind = "ack"
    BY <1>0, <1>7, <2>1, Quiet, EndsQuietly DEF NotClear, channel
  <2>2. CASE job[n].kind # "ack"
    BY <1>6, <1>7, <2>2 DEF NotClear
  <2>3. QED
    BY <2>1, <2>2
<1>8. ASSUME NEW n \in Nodes, Sent(n) PROVE Marks' /\ Sound
  BY <1>6, <1>8 DEF Sent
<1>9. ASSUME NEW n \in Nodes, AckSeen(n) PROVE Marks' /\ Sound
  <2>1. \A m \in Nodes : /\ dataReceived'[m] => dataReceived[m]
                         /\ ackReceived'[m] => ackReceived[m]
    BY <1>9 DEF AckSeen, TypeOK
  <2>2. QED
    BY <1>0, <1>9, <2>1, Quiet, EndsQuietly DEF AckSeen, channel
<1>10. ASSUME NEW n \in Nodes, Timeout(n) PROVE Marks' /\ Sound
  BY <1>0, <1>10, Quiet, EndsQuietly DEF Timeout, channel, radio
<1>11. ASSUME NEW n \in Nodes, Retry(n) PROVE Marks' /\ Sound
  <2>1. UNCHANGED <<packet, seq, onAir, got, restarted, dataReceived, ackReceived>>
    BY <1>11 DEF Retry
  <2>2. \A m \in Nodes : /\ job'[m].kind = job[m].kind /\ job'[m].aired = job[m].aired
                         /\ job'[m].msg = job[m].msg /\ job'[m].to = job[m].to
                         /\ job'[m].seq = job[m].seq
    BY <1>11 DEF Retry, TypeOK, Job
  <2>3. Marks'
    BY <1>0, <2>1, <2>2 DEF Marks, FlagsTrue, AcksAddressed, AddressedTo, Aired
  <2>4. \A m \in Nodes : Outlives(seq[m], job[m], seq'[m], job'[m])
    BY <2>1, <2>2, SameCall
  <2>5. \A m \in Nodes : AckOf(m, job'[m]) = AckOf(m, job[m])
    BY <2>2 DEF AckOf
  <2>6. QED
    BY <2>1, <2>2, <2>3, <2>4, <2>5 DEF Sound
<1>12. ASSUME NEW n \in Nodes, Fail(n) PROVE Marks' /\ Sound
  BY <1>0, <1>12, Quiet, EndsQuietly DEF Fail, channel, radio
<1>13. ASSUME NEW n \in Nodes, CadDone(n) PROVE Marks' /\ Sound
  BY <1>0, <1>13, Quiet DEF CadDone, channel
<1>14. ASSUME NEW n \in Nodes, Synchronise(n) PROVE Marks' /\ Sound
  BY <1>0, <1>14, Quiet DEF Synchronise, radio
<1>15. ASSUME NEW n \in Nodes, TxDone(n) PROVE Marks' /\ Sound
  <2>1. PICK whole \in SUBSET {r \in Nodes : follows[r] = n} :
          LET taken == {r \in whole : ForUs(r, onAir[n])} IN
          /\ packet' = [r \in Nodes |-> IF r \in whole THEN onAir[n] ELSE packet[r]]
          /\ ackReceived' = [r \in Nodes |-> IF r \in taken THEN onAir[n].kind = "ack"
                                              ELSE ackReceived[r]]
          /\ dataReceived' = [r \in Nodes |-> IF r \in taken THEN onAir[n].kind = "data"
                                               ELSE dataReceived[r]]
    BY <1>15 DEF TxDone
  <2>2. onAir[n] # None /\ UNCHANGED <<seq, job, got, restarted>>
    BY <1>15 DEF TxDone
  <2>3. \A m \in Nodes : onAir'[m] \in {onAir[m], None}
    BY <1>15 DEF TxDone, TypeOK
  <2>4. AddressedTo(onAir[n])
    BY <1>0, <2>2 DEF Marks, AcksAddressed
  <2>5. AcksAddressed' /\ Aired'
    BY <1>0, <2>1, <2>2, <2>3, <2>4 DEF Marks, AcksAddressed, Aired
  <2>6. FlagsTrue'
    <3> SUFFICES ASSUME NEW r \in Nodes
                 PROVE  /\ dataReceived'[r] => packet'[r].kind = "data"
                        /\ ackReceived'[r] => packet'[r].kind = "ack" /\ packet'[r].to = r
      BY DEF FlagsTrue
    <3>1. CASE r \notin whole
      BY <1>0, <2>1, <3>1 DEF Marks, FlagsTrue
    <3>2. CASE r \in whole /\ ForUs(r, onAir[n])
      BY <2>1, <2>4, <3>2, NodesAssumption DEF ForUs, AddressedTo
    <3>3. CASE r \in whole /\ ~ForUs(r, onAir[n])
      <4>1. ~dataReceived[r] /\ ~ackReceived[r]
        BY <2>1, <3>3, NodesAssumption DEF RadioInv, FollowsInRx, RxIsEmpty
      <4>2. QED
        BY <2>1, <3>3, <4>1
    <3>4. QED
      BY <3>1, <3>2, <3>3
  <2>7. \A m \in Nodes : Outlives(seq[m], job[m], seq'[m], job'[m])
    BY <2>2, SameCall
  <2>8. \A m \in Nodes : packet'[m] = packet[m] \/ packet'[m] = onAir[n]
    BY <2>1
  <2>9. QED
    BY <2>2, <2>3, <2>5, <2>6, <2>7, <2>8 DEF Marks, Sound
<1>16. ASSUME NEW n \in Nodes, Overhear(n) PROVE Marks' /\ Sound
  <2>1. /\ packet'[n] = NoFrame(n) /\ \A m \in Nodes : m # n => packet'[m] = packet[m]
        /\ UNCHANGED <<seq, job, onAir, got, restarted, dataReceived, ackReceived>>
    BY <1>16 DEF Overhear, TypeOK, channel
  <2>2. ~dataReceived[n] /\ ~ackReceived[n]
    BY <1>16 DEF Overhear, RadioInv, RxIsEmpty
  <2>3. Marks'
    BY <1>0, <2>1, <2>2 DEF Marks, FlagsTrue, AcksAddressed, AddressedTo, Aired, NoFrame
  <2>4. \A m \in Nodes : Outlives(seq[m], job[m], seq'[m], job'[m])
    BY <2>1, SameCall
  <2>5. QED
    BY <2>1, <2>3, <2>4 DEF Sound
<1>17. ASSUME NEW n \in Nodes, Restart(n) PROVE Marks' /\ Sound
  <2>1. /\ job'[n] = NoJob(n)
        /\ \A m \in Nodes : m # n => job'[m] = job[m] /\ seq'[m] = seq[m]
        /\ restarted' = restarted \cup {n}
        /\ UNCHANGED <<packet, got>>
    BY <1>17 DEF Restart, Return, TypeOK
  <2>2. \A m \in Nodes : /\ onAir'[m] \in {onAir[m], None}
                         /\ dataReceived'[m] => dataReceived[m]
                         /\ ackReceived'[m] => ackReceived[m]
    BY <1>17 DEF Restart, Silence, TypeOK
  <2>3. Marks'
    BY <1>0, <2>1, <2>2
       DEF Marks, FlagsTrue, AcksAddressed, AddressedTo, Aired, NoJob, AckJob
  <2>4. \A m \in Nodes \ restarted' : Outlives(seq[m], job[m], seq'[m], job'[m])
    BY <2>1 DEF Outlives, TypeOK
  <2>5. QED
    BY <2>1, <2>2, <2>3, <2>4 DEF Sound
<1>18. CASE UNCHANGED vars
  BY <1>0, <1>18, Quiet DEF vars
<1>19. QED
  BY <1>1, <1>2, <1>3, <1>4, <1>5, <1>7, <1>8, <1>9, <1>10, <1>11, <1>12, <1>13, <1>14,
     <1>15, <1>16, <1>17, <1>18
     DEF Next, Program, Chip, sendWithRetry

(* ConfirmedIsReceived: an acknowledgement that counts was given for a     *)
(* copy of this very message (RFM95.cpp:505-529).                          *)
THEOREM ConfirmedCorrect == Spec => ConfirmedIsReceived
<1>1. TypeOK /\ RadioInv /\ FramesInv /\ [Next]_vars => TypeOK' /\ RadioInv' /\ FramesInv'
  BY TypeStep, RadioStep, MarksStep, FramesStep DEF FramesInv, Marks
<1>2. ASSUME TypeOK, FramesInv
      PROVE  [\A n \in Nodes \ restarted :
                Confirmed(n) /\ job[n].aired = "new" => job[n].msg \in got[job[n].to]]_vars
  <2> SUFFICES ASSUME NEW n \in Nodes \ restarted, Confirmed(n), job[n].aired = "new"
               PROVE  job[n].msg \in got[job[n].to]
    OBVIOUS
  <2>1. ackReceived[n] /\ Matches(n)
    BY <1>2 DEF Confirmed, AckSeen, Stay, Goto, TypeOK
  <2>2. packet[n].kind = "ack" /\ packet[n].to = n
    BY <1>2, <2>1 DEF FramesInv, FlagsTrue
  <2>3. AckTrue(n, packet[n], seq[n], job[n], got)
    BY <1>2 DEF FramesInv, PacketsTrue, Knows, FrameTrue
  <2>4. QED
    BY <2>1, <2>2, <2>3 DEF AckTrue, Matches
<1>3. QED
  BY <1>1, <1>2, InitType, InitRadio, InitFrames, PTL DEF Spec, ConfirmedIsReceived
=============================================================================
