----------------------------- MODULE RFM95Link -----------------------------
(***************************************************************************)
(* Nodes with RFM95 radios on one channel (drivers/RFM95/RFM95.cpp): a     *)
(* frame to one node asks for an acknowledgement, which the main program   *)
(* of the recipient sends when it takes the message; without one the       *)
(* sender repeats the frame, RETRIES times.  Before each frame, an         *)
(* acknowledgement included, the channel activity detection listens for    *)
(* others, and a frame is not sent while one is detected.                  *)
(*                                                                         *)
(* The processor of a node runs the main program and, between its steps,   *)
(* the interrupt handler of the radio.  The channel loses frames; a        *)
(* receiver must be listening when the preamble of a frame ends.  The      *)
(* power control (ATC) is left out; a sequence number does not come back   *)
(* (it has 16 bits).                                                       *)
(***************************************************************************)
EXTENDS Naturals

CONSTANTS Nodes,
          Broadcast,   \* RFM95_BROADCAST_ADDRESS
          None,        \* no frame on the air, no frame followed
          Retries,     \* RFM95_RETRIES
          MaxCalls,    \* bound: messages sent by all nodes together
          Resetting    \* bound: nodes that restart, once each

ASSUME NodesAssumption == Broadcast \notin Nodes /\ None \notin Nodes /\ Resetting \subseteq Nodes
ASSUME BoundsAssumption == Retries \in Nat /\ MaxCalls \in Nat

VARIABLES mode, cad, ackReceived, dataReceived, packet,  \* RFM95: see rfm95_internal_t
          seq,         \* txSequenceNumber
          pc,          \* where the main program is in the driver
          job,         \* the frame it is sending
          onAir,       \* the frame the radio of a node is transmitting
          preamble,    \* whether its preamble goes on
          follows,     \* the node whose frame a radio is receiving
          calls,       \* (history) how many messages sendWithRetry was given
          got,         \* (history) the messages recv took
          restarted    \* (history) nodes that restarted

radio == <<mode, cad, ackReceived, dataReceived, packet>>
channel == <<onAir, preamble, follows>>
vars == <<mode, cad, ackReceived, dataReceived, packet, seq, pc, job,
          onAir, preamble, follows, calls, got, restarted>>

(* seq is the sequence number of a data frame, the one acknowledged of an  *)
(* acknowledgement.                                                        *)
Frame == [kind : {"data", "ack"}, from : Nodes, to : Nodes \cup {Broadcast},
          seq : Nat, msg : Nat]

(* patient: not transportSend's noACK.  aired: no frame of this call was   *)
(* on the air yet, one was but with an old sequence number, or a new one.  *)
Job == [kind : {"data", "ack"}, to : Nodes \cup {Broadcast}, seq : Nat, msg : Nat,
        patient : BOOLEAN, retry : 0 .. Retries, aired : {"no", "old", "new"}]

NoFrame(n) == [kind |-> "ack", from |-> n, to |-> n, seq |-> 0, msg |-> 0]
AckJob(to, s) == [kind |-> "ack", to |-> to, seq |-> s, msg |-> 0,
                  patient |-> FALSE, retry |-> 0, aired |-> "no"]
NoJob(n) == AckJob(n, 0)

Init == /\ mode = [n \in Nodes |-> "STDBY"]
        /\ cad = [n \in Nodes |-> FALSE]
        /\ ackReceived = [n \in Nodes |-> FALSE]
        /\ dataReceived = [n \in Nodes |-> FALSE]
        /\ packet = [n \in Nodes |-> NoFrame(n)]
        /\ seq = [n \in Nodes |-> 0]
        /\ pc = [n \in Nodes |-> "idle"]
        /\ job = [n \in Nodes |-> NoJob(n)]
        /\ onAir = [n \in Nodes |-> None]
        /\ preamble = [n \in Nodes |-> FALSE]
        /\ follows = [n \in Nodes |-> None]
        /\ calls = 0
        /\ got = [n \in Nodes |-> {}]
        /\ restarted = {}

----------------------------------------------------------------------------
(* RFM95_setRadioMode: entering RX forgets what was received.              *)
Leave(n, m) == /\ mode' = [mode EXCEPT ![n] = m]
               /\ follows' = [follows EXCEPT ![n] = None]

EnterRx_Keep(n) == /\ mode' = [mode EXCEPT ![n] = "RX"]
                   /\ ackReceived' = [ackReceived EXCEPT ![n] = FALSE]
                   /\ UNCHANGED dataReceived
EnterRx(n) == IF mode[n] = "RX" THEN UNCHANGED <<mode, ackReceived, dataReceived>>
              ELSE /\ mode' = [mode EXCEPT ![n] = "RX"]
                   /\ ackReceived' = [ackReceived EXCEPT ![n] = FALSE]
                   /\ dataReceived' = [dataReceived EXCEPT ![n] = FALSE]

(* A transmission cut off is received by nobody.                          *)
Silence(n) ==
  /\ onAir' = [onAir EXCEPT ![n] = None]
  /\ follows' = [r \in Nodes |-> IF r = n \/ follows[r] = n THEN None ELSE follows[r]]

Goto(n, l) == pc' = [pc EXCEPT ![n] = l]
Stay(n, l) == Goto(n, l) /\ UNCHANGED job
Return(n) == Goto(n, "idle") /\ job' = [job EXCEPT ![n] = NoJob(n)]

(* The first part of sendFrame: wait for the end of a transmission, then   *)
(* listen for activity.                                                    *)
StartFrame(n) == /\ mode[n] # "TX"
                 /\ Leave(n, "CAD")
                 /\ Goto(n, "cad")

(* sendWithRetry after RFM95_send, whether that sent anything or not.      *)
AfterSend(n) == /\ EnterRx(n)
                /\ IF job[n].to = Broadcast THEN Return(n)
                   ELSE Stay(n, IF job[n].patient THEN "wait" ELSE "backoff")

----------------------------------------------------------------------------
(* The main program between two calls of the driver: transportSend,        *)
(* transportAvailable and transportReceive.                                *)
Idle(n) == pc[n] = "idle"

Send(n, to, patient) ==
  /\ Idle(n) /\ calls < MaxCalls
  /\ StartFrame(n)
  /\ calls' = calls + 1
  /\ job' = [job EXCEPT ![n] = [kind |-> "data", to |-> to, seq |-> 0, msg |-> calls',
                                patient |-> patient, retry |-> 0, aired |-> "no"]]
  /\ UNCHANGED <<cad, ackReceived, dataReceived, packet, seq, onAir, preamble,
                 got, restarted>>

(* RFM95_available: back to RX, unless data waits or a frame is leaving.   *)
Deaf_Standby(n) == mode[n] \notin {"TX", "RX", "STDBY"}
Deaf(n) == mode[n] \notin {"TX", "RX"}

Listen(n) == /\ Idle(n) /\ ~dataReceived[n] /\ Deaf(n)
             /\ EnterRx(n)
             /\ UNCHANGED <<cad, packet, seq, pc, job, channel, calls, got, restarted>>

(* RFM95_recv: the message is taken, then acknowledged if it asks for it.  *)
Receive(n) ==
  /\ Idle(n) /\ dataReceived[n]
  /\ dataReceived' = [dataReceived EXCEPT ![n] = FALSE]
  /\ got' = [got EXCEPT ![n] = @ \cup {packet[n].msg}]
  /\ IF packet[n].to = Broadcast THEN UNCHANGED <<mode, follows, pc, job>>
     ELSE /\ StartFrame(n)
          /\ job' = [job EXCEPT ![n] = AckJob(packet[n].from, packet[n].seq)]
  /\ UNCHANGED <<cad, ackReceived, packet, seq, onAir, preamble, calls, restarted>>

(* RFM95_sleep: an acknowledgement that is leaving is cut off.             *)
Sleep(n) == /\ Idle(n) /\ mode[n] # "SLEEP"
            /\ mode' = [mode EXCEPT ![n] = "SLEEP"]
            /\ Silence(n)
            /\ UNCHANGED <<cad, ackReceived, dataReceived, packet, seq, pc, job,
                           preamble, calls, got, restarted>>

----------------------------------------------------------------------------
(* sendFrame and sendWithRetry                                             *)
(* A frame leaves with a new sequence number, but for retries.             *)
Numbered(n) == job[n].kind = "ack" \/ job[n].retry = 0

Transmit(n) ==
  /\ pc[n] = "cad" /\ mode[n] # "CAD" /\ ~cad[n]
  /\ seq' = [seq EXCEPT ![n] = IF Numbered(n) THEN @ + 1 ELSE @]
  /\ onAir' = [onAir EXCEPT ![n] =
                 [kind |-> job[n].kind, from |-> n, to |-> job[n].to, msg |-> job[n].msg,
                  seq |-> IF job[n].kind = "ack" THEN job[n].seq ELSE seq'[n]]]
  /\ preamble' = [preamble EXCEPT ![n] = TRUE]
  /\ Leave(n, "TX")
  /\ IF job[n].kind = "ack" THEN Return(n)
     ELSE /\ job' = [job EXCEPT ![n].aired = IF Numbered(n) THEN "new"
                                             ELSE IF @ = "no" THEN "old" ELSE @]
          /\ Goto(n, "sent")
  /\ UNCHANGED <<cad, ackReceived, dataReceived, packet, calls, got, restarted>>

(* Activity, or no end of the detection within RFM95_CAD_TIMEOUT_MS.       *)
NotClear(n) ==
  /\ pc[n] = "cad" /\ (mode[n] = "CAD" \/ cad[n])
  /\ IF job[n].kind = "ack"
       THEN Return(n) /\ UNCHANGED <<mode, ackReceived, dataReceived>>
       ELSE AfterSend(n)
  /\ UNCHANGED <<cad, packet, seq, channel, calls, got, restarted>>

Sent(n) == /\ pc[n] = "sent" /\ mode[n] # "TX"
           /\ AfterSend(n)
           /\ UNCHANGED <<cad, packet, seq, channel, calls, got, restarted>>

(* An acknowledgement counts when it is the recipient's and has the        *)
(* sequence number last used.                                              *)
Matches_AnySeq(n) == packet[n].from = job[n].to
Matches(n) == packet[n].from = job[n].to /\ packet[n].seq = seq[n]

AckSeen(n) == /\ pc[n] = "wait" /\ ackReceived[n]
              /\ mode' = [mode EXCEPT ![n] = "RX"]
              /\ ackReceived' = [ackReceived EXCEPT ![n] = FALSE]
              /\ dataReceived' = [dataReceived EXCEPT ![n] = FALSE]
              /\ IF Matches(n) THEN Return(n) ELSE Stay(n, "wait")
              /\ UNCHANGED <<cad, packet, seq, channel, calls, got, restarted>>

Timeout(n) == /\ pc[n] = "wait"
              /\ Stay(n, "backoff")
              /\ UNCHANGED <<radio, seq, channel, calls, got, restarted>>

LastTry_OneMore(n) == ~job[n].patient \/ job[n].retry > Retries
LastTry(n) == ~job[n].patient \/ job[n].retry = Retries

Retry_Uncounted(n) == /\ pc[n] = "backoff" /\ ~LastTry(n)
                      /\ StartFrame(n)
                      /\ UNCHANGED <<cad, ackReceived, dataReceived, packet, seq, job,
                                     onAir, preamble, calls, got, restarted>>
Retry(n) == /\ pc[n] = "backoff" /\ ~LastTry(n)
            /\ StartFrame(n)
            /\ job' = [job EXCEPT ![n].retry = @ + 1]
            /\ UNCHANGED <<cad, ackReceived, dataReceived, packet, seq, onAir, preamble,
                           calls, got, restarted>>

Fail(n) == /\ pc[n] = "backoff" /\ LastTry(n)
           /\ Return(n)
           /\ UNCHANGED <<radio, seq, channel, calls, got, restarted>>

----------------------------------------------------------------------------
(* The radios, and the interrupt handler                                   *)
(* The detection may miss a frame on the air; bound: it finds no other.    *)
CadDone(n) == /\ mode[n] = "CAD"
              /\ mode' = [mode EXCEPT ![n] = "STDBY"]
              /\ \E detected \in BOOLEAN :
                   /\ detected => \E m \in Nodes : onAir[m] # None
                   /\ cad' = [cad EXCEPT ![n] = detected]
              /\ UNCHANGED <<ackReceived, dataReceived, packet, seq, pc, job, channel,
                             calls, got, restarted>>

Synchronise(n) ==
  /\ onAir[n] # None /\ preamble[n]
  /\ preamble' = [preamble EXCEPT ![n] = FALSE]
  /\ \E heard \in SUBSET {r \in Nodes : mode[r] = "RX" /\ follows[r] = None} :
       follows' = [r \in Nodes |-> IF r \in heard THEN n ELSE follows[r]]
  /\ UNCHANGED <<radio, seq, pc, job, onAir, calls, got, restarted>>

ForUs(r, f) == f.to \in {r, Broadcast}

(* TX_DONE at the sender, RX_DONE at those who received the frame whole:   *)
(* all of them go to STDBY, also those it was not meant for.               *)
TxDone(n) ==
  /\ onAir[n] # None /\ ~preamble[n]
  /\ onAir' = [onAir EXCEPT ![n] = None]
  /\ follows' = [r \in Nodes |-> IF follows[r] = n THEN None ELSE follows[r]]
  /\ \E whole \in SUBSET {r \in Nodes : follows[r] = n} :
       LET taken == {r \in whole : ForUs(r, onAir[n])} IN
       /\ mode' = [r \in Nodes |-> IF r \in whole \cup {n} THEN "STDBY" ELSE mode[r]]
       /\ packet' = [r \in Nodes |-> IF r \in whole THEN onAir[n] ELSE packet[r]]
       /\ ackReceived' = [r \in Nodes |-> IF r \in taken THEN onAir[n].kind = "ack"
                                           ELSE ackReceived[r]]
       /\ dataReceived' = [r \in Nodes |-> IF r \in taken THEN onAir[n].kind = "data"
                                            ELSE dataReceived[r]]
  /\ UNCHANGED <<cad, seq, pc, job, preamble, calls, got, restarted>>

(* A frame between nodes outside the model: not for us, but the radio      *)
(* leaves RX all the same.  Nothing reads the packet.                      *)
Overhear(n) == /\ mode[n] = "RX" /\ follows[n] = None
               /\ mode' = [mode EXCEPT ![n] = "STDBY"]
               /\ packet' = [packet EXCEPT ![n] = NoFrame(n)]
               /\ UNCHANGED <<cad, ackReceived, dataReceived, seq, pc, job, channel,
                              calls, got, restarted>>

(* A restart of the node: RFM95_initialise.                                *)
Restart(n) ==
  /\ n \in Resetting \ restarted
  /\ restarted' = restarted \cup {n}
  /\ mode' = [mode EXCEPT ![n] = "STDBY"]
  /\ ackReceived' = [ackReceived EXCEPT ![n] = FALSE]
  /\ dataReceived' = [dataReceived EXCEPT ![n] = FALSE]
  /\ seq' = [seq EXCEPT ![n] = 0]
  /\ Return(n)
  /\ Silence(n)
  /\ UNCHANGED <<cad, packet, preamble, calls, got>>

----------------------------------------------------------------------------
sendWithRetry(n) == Transmit(n) \/ NotClear(n) \/ Sent(n) \/ AckSeen(n)
                    \/ Timeout(n) \/ Retry(n) \/ Fail(n)
Chip(n) == CadDone(n) \/ Synchronise(n) \/ TxDone(n)
Program(n) == Listen(n) \/ Receive(n) \/ sendWithRetry(n)

Next == \E n \in Nodes :
          \/ \E to \in (Nodes \ {n}) \cup {Broadcast}, patient \in BOOLEAN : Send(n, to, patient)
          \/ Sleep(n)
          \/ Program(n)
          \/ Chip(n)
          \/ Overhear(n)
          \/ Restart(n)

Spec == Init /\ [][Next]_vars

(* Processors run, deadlines pass, and radios finish what they began.      *)
FairSpec == Spec /\ \A n \in Nodes : WF_vars(Program(n)) /\ WF_vars(Chip(n))

----------------------------------------------------------------------------
TypeOK == /\ mode \in [Nodes -> {"SLEEP", "STDBY", "RX", "CAD", "TX"}]
          /\ cad \in [Nodes -> BOOLEAN]
          /\ ackReceived \in [Nodes -> BOOLEAN] /\ dataReceived \in [Nodes -> BOOLEAN]
          /\ packet \in [Nodes -> Frame]
          /\ seq \in [Nodes -> Nat]
          /\ pc \in [Nodes -> {"idle", "cad", "sent", "wait", "backoff"}]
          /\ job \in [Nodes -> Job]
          /\ onAir \in [Nodes -> Frame \cup {None}] /\ preamble \in [Nodes -> BOOLEAN]
          /\ follows \in [Nodes -> Nodes \cup {None}]
          /\ calls \in 0 .. MaxCalls
          /\ got \in [Nodes -> SUBSET Nat]
          /\ restarted \subseteq Nodes

(* The interrupt handler never overwrites a packet the main program has    *)
(* not taken: "we are still in STDBY from IRQ handler" (RFM95.cpp:249).    *)
PacketKept ==
  [][\A n \in Nodes : dataReceived[n] /\ dataReceived'[n] => packet'[n] = packet[n]]_vars

(* When sendWithRetry returns true for a message that left with a new      *)
(* sequence number, the recipient has taken that message, however late and *)
(* for whichever copy acknowledgements come (RFM95.cpp:505-529).           *)
Confirmed(n) == AckSeen(n) /\ pc'[n] = "idle"
ConfirmedIsReceived ==
  [][\A n \in Nodes \ restarted :
       Confirmed(n) /\ job[n].aired = "new" => job[n].msg \in got[job[n].to]]_vars

(* sendWithRetry returns, whatever the channel does.                       *)
CallsReturn == \A n \in Nodes : (pc[n] # "idle") ~> (pc[n] = "idle")

(* Whatever was sent, received, overheard or interrupted, the radio        *)
(* listens again (RFM95.cpp:246-258).                                      *)
Listens == \A n \in Nodes : []<>(mode[n] = "RX")

(* "@return True if packet successfully sent" (RFM95.h:423): a frame of    *)
(* this call was on the air.                                               *)
TrueMeansSent == [][\A n \in Nodes : Confirmed(n) => job[n].aired # "no"]_vars
=============================================================================
