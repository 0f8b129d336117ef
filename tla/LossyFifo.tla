----------------------------- MODULE LossyFifo -----------------------------
(***************************************************************************)
(* What the buffered receive path of the RF24 transport promises to        *)
(* transportProcessFIFO: the messages the radio hands over come out of     *)
(* transportReceive whole and in the order of their arrival, one is thrown *)
(* away only while the queue is full, and every one thrown away is         *)
(* counted, up to the limit of the counter.                                *)
(***************************************************************************)
EXTENDS Integers, Sequences

CONSTANTS Messages,   \* what a radio frame can carry
          Corrupt,    \* a frame the chip reports an impossible length for
          Empty,      \* the message of length 0 that takes its place
          Size,       \* MY_RX_MESSAGE_BUFFER_SIZE
          LostMax     \* the limit of transportLostMessageCount

VARIABLES air,        \* frames received by the chip, not yet taken from it
          queue,      \* messages taken from the chip, not yet received
          got,        \* the message transportReceive returned last
          lost        \* how many messages were thrown away

avars == <<air, queue, got, lost>>

AInit == /\ air = <<>>
         /\ queue = <<>>
         /\ got = Empty
         /\ lost = 0

(* A frame arrives, or the initialisation of the radio empties it. *)
Arrive(m) == /\ air' = Append(air, m)
             /\ UNCHANGED <<queue, got, lost>>

Reset == /\ air' = <<>>
         /\ UNCHANGED <<queue, got, lost>>

(* A frame of impossible length costs every frame the chip holds. *)
Spoil == /\ air # <<>>
         /\ Head(air) = Corrupt
         /\ air' = <<Empty>>
         /\ UNCHANGED <<queue, got, lost>>

Accept == /\ air # <<>>
          /\ Head(air) # Corrupt
          /\ Len(queue) < Size
          /\ queue' = Append(queue, Head(air))
          /\ air' = Tail(air)
          /\ UNCHANGED <<got, lost>>

Drop == /\ air # <<>>
        /\ Head(air) # Corrupt
        /\ Len(queue) = Size
        /\ air' = Tail(air)
        /\ lost' = IF lost < LostMax THEN lost + 1 ELSE lost
        /\ UNCHANGED <<queue, got>>

Deliver == /\ queue # <<>>
           /\ got' = Head(queue)
           /\ queue' = Tail(queue)
           /\ UNCHANGED <<air, lost>>

ANext == \/ \E m \in Messages : Arrive(m)
         \/ Reset
         \/ Spoil
         \/ Accept
         \/ Drop
         \/ Deliver

ASpec == AInit /\ [][ANext]_avars
=============================================================================
