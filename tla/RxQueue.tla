------------------------------ MODULE RxQueue ------------------------------
(***************************************************************************)
(* The buffered receive path of the RF24 transport                         *)
(* (MY_RX_MESSAGE_BUFFER_FEATURE): the interrupt handler of the radio      *)
(* moves frames from the chip into a circular buffer and the main program  *)
(* takes them out, one field at a time.                                    *)
(*                                                                         *)
(* The machine has one processor.  The handler may start between any two   *)
(* steps of the main program that are not inside a critical section, and   *)
(* the main program stands still until the handler returns; the radio goes *)
(* on receiving all the while.  Where MY_CRITICAL_SECTION expands to       *)
(* nothing (Atomic = FALSE) the handler may start inside a section too.    *)
(***************************************************************************)
EXTENDS Integers, Sequences

CONSTANTS Messages,   \* what a radio frame can carry
          Corrupt,    \* the frame whose payload width the chip misreports
          Empty,      \* a message of length 0, and a slot never written
          Torn,       \* the length of one message with the data of another
          Size,       \* MY_RX_MESSAGE_BUFFER_SIZE
          LostMax,    \* the limit of transportLostMessageCount (255)
          RadioFifo,  \* the frames the chip can hold (3)
          Atomic      \* does MY_CRITICAL_SECTION mask the interrupt?

ASSUME SizeAssumption == Size \in Nat \ {0}
ASSUME LimitAssumption == LostMax \in Nat /\ RadioFifo \in Nat /\ Atomic \in BOOLEAN
ASSUME MessageAssumption == /\ Corrupt \in Messages
                            /\ Empty \notin Messages
                            /\ Torn \notin Messages \cup {Empty}

VARIABLES radio,      \* the receive FIFO of the chip
          rxDr,       \* its RX_DR flag: the interrupt line is low
          edge,       \* a falling edge of that line the processor has latched
          slots,      \* transportRxQueueStorage: m_len and m_data of a slot
          m_front, m_fill,
          lost,       \* transportLostMessageCount
          isr,        \* the interrupt handler
          main,       \* transportReceive in the main program
          got         \* what transportReceive returned last

chip == <<radio, rxDr, edge>>
ring == <<slots, m_front, m_fill>>
vars == <<radio, rxDr, edge, slots, m_front, m_fill, lost, isr, main, got>>

Index == 0 .. Size - 1
NoSlot == Size                      \* the NULL pointer
Contents == Messages \cup {Empty}
Slot == [len : Contents, data : Contents]

(* What a reader makes of a length and some data. *)
Read(s) == IF s.len = Empty THEN Empty
           ELSE IF s.len = s.data THEN s.data ELSE Torn

back_OffByOne(front, fill) == (front - fill + Size - 1) % Size
back(front, fill) == (front - fill + Size) % Size

(* The steps of the main program inside a critical section, once it has    *)
(* begun to look at the buffer.                                            *)
Sections == {"back", "backFill", "backFront", "popLoad", "popStore"}

Outside == [pc |-> "out", msg |-> NoSlot, len |-> Empty]
Away == [pc |-> "away", seen |-> 0, msg |-> NoSlot, len |-> Empty, data |-> Empty]

Init == /\ radio = <<>> /\ rxDr = FALSE /\ edge = FALSE
        /\ slots = [i \in Index |-> [len |-> Empty, data |-> Empty]]
        /\ m_front = 0 /\ m_fill = 0
        /\ lost = 0
        /\ isr = Outside
        /\ main = Away
        /\ got = [len |-> Empty, data |-> Empty]

----------------------------------------------------------------------------
(* The radio.  A frame sets RX_DR; only a line that was high has an edge.  *)
Arrive(m) == /\ Len(radio) < RadioFifo
             /\ radio' = Append(radio, m)
             /\ rxDr' = TRUE
             /\ edge' = (edge \/ ~rxDr)
             /\ UNCHANGED <<ring, lost, isr, main, got>>

(* RF24_initialize flushes the chip and clears its flags; the queue keeps  *)
(* its messages and a latched edge stays latched.                          *)
RF24_initialize == /\ isr.pc = "out" /\ main.pc = "away"
                   /\ radio' = <<>> /\ rxDr' = FALSE
                   /\ UNCHANGED <<edge, ring, lost, isr, main, got>>

----------------------------------------------------------------------------
(* RF24_irqHandler and transportRxCallback *)
At(step) == isr.pc = step
GoTo(step) == isr' = [isr EXCEPT !.pc = step]

Interrupt == /\ At("out") /\ edge
             /\ Atomic => main.pc \notin Sections
             /\ edge' = FALSE
             /\ GoTo("available")
             /\ UNCHANGED <<radio, rxDr, ring, lost, main, got>>

IsDataAvailable == /\ At("available") /\ radio # <<>>
                   /\ GoTo("full")
                   /\ UNCHANGED <<chip, ring, lost, main, got>>

IrqReturn == /\ At("available") /\ radio = <<>>
             /\ isr' = Outside
             /\ UNCHANGED <<chip, ring, lost, main, got>>

(* full() chooses between a free slot, getFront(), and the NULL buffer.    *)
ChooseBuffer_Overruns == /\ At("full")
                         /\ isr' = [isr EXCEPT !.pc = "width", !.msg = m_front]
                         /\ UNCHANGED <<chip, ring, lost, main, got>>

ChooseBuffer == /\ At("full")
                /\ isr' = [isr EXCEPT !.pc = "width",
                             !.msg = IF m_fill = Size THEN NoSlot ELSE m_front]
                /\ UNCHANGED <<chip, ring, lost, main, got>>

(* RF24_getDynamicPayloadSize: an invalid width flushes the chip.          *)
PayloadSize == /\ At("width")
               /\ IF Head(radio) = Corrupt
                    THEN isr' = [isr EXCEPT !.pc = "payload", !.len = Empty]
                         /\ radio' = <<>>
                    ELSE isr' = [isr EXCEPT !.pc = "payload", !.len = Head(radio)]
                         /\ radio' = radio
               /\ UNCHANGED <<rxDr, edge, ring, lost, main, got>>

(* The payload leaves the chip, into the slot if there is one.  For a      *)
(* width of 0 nothing is transferred.                                      *)
ReadPayload == /\ At("payload")
               /\ GoTo("clear")
               /\ IF isr.len = Empty THEN UNCHANGED <<radio, slots>>
                  ELSE /\ radio' = Tail(radio)
                       /\ slots' = IF isr.msg = NoSlot THEN slots
                                   ELSE [slots EXCEPT ![isr.msg].data = Head(radio)]
               /\ UNCHANGED <<rxDr, edge, m_front, m_fill, lost, main, got>>

ClearRxDr == /\ At("clear")
             /\ rxDr' = FALSE
             /\ GoTo(IF isr.msg = NoSlot THEN "lost" ELSE "length")
             /\ UNCHANGED <<radio, edge, ring, lost, main, got>>

StoreLength == /\ At("length")
               /\ slots' = [slots EXCEPT ![isr.msg].len = isr.len]
               /\ GoTo("push")
               /\ UNCHANGED <<chip, m_front, m_fill, lost, main, got>>

pushFront_Once == /\ At("push")
                  /\ m_front' = (m_front + 1) % Size
                  /\ m_fill' = m_fill + 1
                  /\ isr' = Outside
                  /\ UNCHANGED <<chip, slots, lost, main, got>>

pushFront == /\ At("push")
             /\ IF m_fill = Size THEN UNCHANGED <<m_front, m_fill>>
                ELSE /\ m_front' = (m_front + 1) % Size
                     /\ m_fill' = m_fill + 1
             /\ isr' = [Outside EXCEPT !.pc = "available"]
             /\ UNCHANGED <<chip, slots, lost, main, got>>

CountLost_Unlimited == /\ At("lost")
                       /\ lost' = lost + 1
                       /\ isr' = [Outside EXCEPT !.pc = "available"]
                       /\ UNCHANGED <<chip, ring, main, got>>

CountLost == /\ At("lost")
             /\ lost' = IF lost < LostMax THEN lost + 1 ELSE lost
             /\ isr' = [Outside EXCEPT !.pc = "available"]
             /\ UNCHANGED <<chip, ring, main, got>>

irqHandler == \/ Interrupt \/ IsDataAvailable \/ IrqReturn
              \/ ChooseBuffer \/ PayloadSize \/ ReadPayload
              \/ ClearRxDr \/ StoreLength \/ pushFront \/ CountLost

----------------------------------------------------------------------------
(* transportAvailable and transportReceive, called by transportProcessFIFO *)
Main(step) == isr.pc = "out" /\ main.pc = step
Step(step) == main' = [main EXCEPT !.pc = step]

Available == /\ Main("away") /\ m_fill # 0
             /\ Step("get")
             /\ UNCHANGED <<chip, ring, lost, isr, got>>

(* getBack(): empty(), then back(), which reads two volatile variables in  *)
(* an order the language leaves open.                                      *)
getBack == /\ Main("get")
           /\ main' = IF m_fill = 0 THEN Away ELSE [main EXCEPT !.pc = "back"]
           /\ UNCHANGED <<chip, ring, lost, isr, got>>

LoadFront == /\ Main("back")
             /\ main' = [main EXCEPT !.pc = "backFill", !.seen = m_front]
             /\ UNCHANGED <<chip, ring, lost, isr, got>>

LoadFill == /\ Main("back")
            /\ main' = [main EXCEPT !.pc = "backFront", !.seen = m_fill]
            /\ UNCHANGED <<chip, ring, lost, isr, got>>

Back(front, fill) == /\ main' = [main EXCEPT !.pc = "len", !.seen = 0,
                                               !.msg = back(front, fill)]
                     /\ UNCHANGED <<chip, ring, lost, isr, got>>

BackOfFront == Main("backFill") /\ Back(main.seen, m_fill)
BackOfFill == Main("backFront") /\ Back(m_front, main.seen)

CopyLength == /\ Main("len")
              /\ main' = [main EXCEPT !.pc = "data", !.len = slots[main.msg].len]
              /\ UNCHANGED <<chip, ring, lost, isr, got>>

CopyData == /\ Main("data")
            /\ main' = [main EXCEPT !.pc = "pop",
                          !.data = IF main.len = Empty THEN Empty
                                   ELSE slots[main.msg].data]
            /\ UNCHANGED <<chip, ring, lost, isr, got>>

Received == /\ main' = Away
            /\ got' = [len |-> main.len, data |-> main.data]

(* popBack(): empty(), then m_fill--, a load and a store.                  *)
popBack == /\ Main("pop")
           /\ IF m_fill = 0 THEN Received ELSE Step("popLoad") /\ UNCHANGED got
           /\ UNCHANGED <<chip, ring, lost, isr>>

PopLoad == /\ Main("popLoad")
           /\ main' = [main EXCEPT !.pc = "popStore", !.seen = m_fill]
           /\ UNCHANGED <<chip, ring, lost, isr, got>>

PopStore == /\ Main("popStore")
            /\ m_fill' = main.seen - 1
            /\ Received
            /\ UNCHANGED <<chip, slots, m_front, lost, isr>>

transportReceive == \/ Available \/ getBack \/ LoadFront \/ LoadFill
                    \/ BackOfFront \/ BackOfFill \/ CopyLength \/ CopyData
                    \/ popBack \/ PopLoad \/ PopStore

Next == \/ \E m \in Messages : Arrive(m)
        \/ RF24_initialize
        \/ irqHandler
        \/ transportReceive

Spec == Init /\ [][Next]_vars

(* A latched interrupt is taken as soon as it is not masked, the handler   *)
(* runs to its end, and the main loop keeps calling transportProcessFIFO.  *)
FairSpec == Spec /\ WF_vars(irqHandler) /\ WF_vars(transportReceive)

----------------------------------------------------------------------------
Handler == [pc : {"out", "available", "full", "width", "payload",
                  "clear", "length", "push", "lost"},
            msg : 0 .. Size, len : Contents]
Reader == [pc : {"away", "get", "back", "backFill", "backFront",
                 "len", "data", "pop", "popLoad", "popStore"},
           seen : 0 .. Size, msg : 0 .. Size, len : Contents, data : Contents]

TypeOK == /\ radio \in Seq(Messages) /\ Len(radio) <= RadioFifo
          /\ rxDr \in BOOLEAN /\ edge \in BOOLEAN
          /\ slots \in [Index -> Slot]
          /\ m_front \in Index /\ m_fill \in 0 .. Size
          /\ lost \in 0 .. LostMax
          /\ isr \in Handler /\ main \in Reader
          /\ got \in Slot

(* The interrupt is edge-triggered and the chip holds its line low until   *)
(* RX_DR is cleared, so a frame the handler overlooks raises no second     *)
(* interrupt (RF24.cpp:418-427).  Whenever the handler is not running and  *)
(* the chip holds a frame, an interrupt is pending.                        *)
NoFrameForgotten == isr.pc = "out" /\ radio # <<>> => edge

(* The handler never writes the slot transportReceive is copying from,     *)
(* although the copy is made outside any critical section                  *)
(* (MyTransportRF24.cpp:130-134).                                          *)
Reading == main.pc \in {"len", "data", "pop", "popLoad", "popStore"}
SlotsApart == Reading /\ isr.msg # NoSlot => isr.msg # main.msg

(* The handler, the ring and the reader together behave as LossyFifo.  A   *)
(* frame is on its way from the moment it left the chip until it is pushed *)
(* or counted as lost; it leaves the queue when popBack stores m_fill.     *)
OnItsWay == \/ isr.pc \in {"clear", "length", "push", "lost"}
            \/ isr.pc = "payload" /\ isr.len = Empty
air == IF OnItsWay THEN <<isr.len>> \o radio ELSE radio
queue == [i \in 1 .. m_fill |-> Read(slots[back(m_front, m_fill - (i - 1))])]
Fifo == INSTANCE LossyFifo WITH got <- Read(got)
ImplementsFifo == Fifo!ASpec

(* Once no more frames arrive, the chip and the queue are emptied.         *)
Drains == <>[][\A m \in Messages : ~Arrive(m)]_vars
            => <>[](radio = <<>> /\ m_fill = 0)
=============================================================================
