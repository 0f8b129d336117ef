--------------------------- MODULE RxQueueProofs ---------------------------
(***************************************************************************)
(* Proofs about RxQueue, for every ring size, set of messages and limit of *)
(* the loss counter, where critical sections mask the interrupt.           *)
(***************************************************************************)
EXTENDS RxQueue, SequenceTheorems, TLAPS

----------------------------------------------------------------------------
(* Arithmetic of the ring, and sequences.                                  *)

LEMMA BackIndex ==
  ASSUME NEW front \in Index, NEW fill \in 0 .. Size
  PROVE  back(front, fill) \in Index
BY SizeAssumption, SMT DEF back, Index

LEMMA BackStays ==
  ASSUME NEW front \in Index, NEW fill \in 1 .. Size - 1
  PROVE  back((front + 1) % Size, fill + 1) = back(front, fill)
BY SizeAssumption, SMT DEF back, Index

LEMMA BackApart ==
  ASSUME NEW front \in Index, NEW fill \in 1 .. Size - 1
  PROVE  back(front, fill) # front
BY SizeAssumption, SMT DEF back, Index

LEMMA NextIndex ==
  ASSUME NEW front \in Index
  PROVE  (front + 1) % Size \in Index
BY SizeAssumption, SMT DEF Index

LEMMA Nonempty ==
  ASSUME NEW S, NEW s \in Seq(S), s # <<>>
  PROVE  Head(s) \in S /\ Tail(s) \in Seq(S) /\ Len(Tail(s)) = Len(s) - 1
OBVIOUS

LEMMA Appended ==
  ASSUME NEW S, NEW s \in Seq(S), NEW e \in S
  PROVE  /\ Append(s, e) \in Seq(S) /\ Append(s, e) # <<>>
         /\ Len(Append(s, e)) = Len(s) + 1
         /\ s # <<>> => Head(Append(s, e)) = Head(s)
BY AppendProperties, HeadTailAppend

LEMMA NoElements == \A S : <<>> \in Seq(S) /\ Len(<<>>) = 0
OBVIOUS

----------------------------------------------------------------------------
(* The inductive invariant.  What the handler has in hand at each of its   *)
(* steps: it fills the free slot in front, or it found the ring full.      *)
HandlerInv ==
  /\ isr.pc \in {"full", "width"} => radio # <<>>
  /\ isr.pc = "payload" /\ isr.len # Empty => radio # <<>> /\ Head(radio) = isr.len
  /\ isr.pc \in {"out", "available", "full"} => isr.msg = NoSlot
  /\ isr.pc \in {"width", "payload", "clear"} =>
       \/ isr.msg = m_front /\ m_fill < Size
       \/ isr.msg = NoSlot /\ m_fill = Size
  /\ isr.pc \in {"length", "push"} => isr.msg = m_front /\ m_fill < Size
  /\ isr.pc = "lost" => isr.msg = NoSlot /\ m_fill = Size
  /\ isr.pc \in {"clear", "length", "push"} /\ isr.len # Empty /\ isr.msg # NoSlot
       => slots[m_front].data = isr.len
  /\ isr.pc = "push" => slots[m_front].len = isr.len
  /\ isr.len # Corrupt

(* RX_DR tells whether the chip holds a frame once the handler is through. *)
WakeInv ==
  /\ isr.pc = "out" => (radio # <<>> => rxDr /\ edge)
  /\ isr.pc \in {"out", "available", "length", "push", "lost"} => (rxDr => radio # <<>>)

(* The reader holds the slot at the back, which is not empty, and what it  *)
(* has loaded or copied so far is still what the ring contains.            *)
MainInv ==
  /\ main.pc # "away" => m_fill # 0
  /\ main.pc \in Sections => isr.pc = "out"
  /\ main.pc = "backFill" => main.seen = m_front
  /\ main.pc \in {"backFront", "popStore"} => main.seen = m_fill
  /\ Reading => main.msg = back(m_front, m_fill)
  /\ main.pc \in {"data", "pop", "popLoad", "popStore"}
       => main.len = slots[main.msg].len
  /\ main.pc \in {"pop", "popLoad", "popStore"}
       => main.data = IF main.len = Empty THEN Empty ELSE slots[main.msg].data

Inv == TypeOK /\ HandlerInv /\ WakeInv /\ MainInv

LEMMA InitInv == Init => Inv
<1> SUFFICES ASSUME Init PROVE Inv
  OBVIOUS
<1> USE SizeAssumption, LimitAssumption, MessageAssumption
<1>1. slots \in [Index -> Slot]
  BY DEF Init, Slot, Contents
<1>2. isr \in Handler /\ main \in Reader /\ got \in Slot
  BY DEF Init, Outside, Away, Handler, Reader, Slot, Contents, NoSlot
<1>3. TypeOK
  BY <1>1, <1>2, NoElements DEF Init, TypeOK, Index
<1>4. HandlerInv /\ WakeInv
  BY DEF Init, HandlerInv, WakeInv, Outside
<1>5. MainInv
  BY DEF Init, MainInv, Away, Reading, Sections
<1> QED
  BY <1>3, <1>4, <1>5 DEF Inv

(* Steps of the main program leave everything but its own state and m_fill *)
(* alone; steps of the handler leave the main program alone.               *)
LEMMA MainStep ==
  ASSUME transportReceive
  PROVE  isr.pc = "out" /\ UNCHANGED <<radio, rxDr, edge, slots, m_front, lost, isr>>
BY DEF transportReceive, Available, getBack, LoadFront, LoadFill, BackOfFront,
       BackOfFill, Back, CopyLength, CopyData, popBack, PopLoad, PopStore, Main,
       Received, chip, ring

LEMMA HandlerStep ==
  ASSUME irqHandler
  PROVE  UNCHANGED <<main, got>>
BY DEF irqHandler, Interrupt, IsDataAvailable, IrqReturn, ChooseBuffer, PayloadSize,
       ReadPayload, ClearRxDr, StoreLength, pushFront, CountLost

----------------------------------------------------------------------------
LEMMA TypePreserved ==
  ASSUME Inv, [Next]_vars
  PROVE  TypeOK'
<1> USE SizeAssumption, LimitAssumption, MessageAssumption DEF Inv, At, GoTo
<1> USE DEF NoSlot, Contents, Outside
<1>1. ASSUME NEW m \in Messages, Arrive(m) PROVE TypeOK'
  BY <1>1, Appended DEF Arrive, TypeOK, ring
<1>2. CASE RF24_initialize
  <2>1. radio' \in Seq(Messages) /\ Len(radio') <= RadioFifo
    BY <1>2 DEF RF24_initialize
  <2> QED
    BY <1>2, <2>1 DEF RF24_initialize, TypeOK, ring
<1>3. ASSUME irqHandler, UNCHANGED <<radio, slots, m_front, m_fill, lost>>,
             isr' \in Handler, edge' \in BOOLEAN, rxDr' \in BOOLEAN
      PROVE  TypeOK'
  BY <1>3, HandlerStep DEF TypeOK
<1>4. CASE Interrupt
  <2>1. isr' \in Handler
    BY <1>4 DEF Interrupt, TypeOK, Handler
  <2> QED
    BY <2>1, <1>3, <1>4 DEF Interrupt, irqHandler, ring, TypeOK
<1>5. CASE IsDataAvailable \/ IrqReturn
  <2>1. isr' \in Handler
    BY <1>5 DEF IsDataAvailable, IrqReturn, TypeOK, Handler
  <2> QED
    BY <2>1, <1>3, <1>5 DEF IsDataAvailable, IrqReturn, irqHandler, ring, chip, TypeOK
<1>6. CASE ChooseBuffer
  <2>1. (IF m_fill = Size THEN Size ELSE m_front) \in 0 .. Size
    BY DEF TypeOK, Index
  <2>2. isr' \in Handler
    BY <1>6, <2>1 DEF ChooseBuffer, TypeOK, Handler
  <2> QED
    BY <2>2, <1>3, <1>6 DEF ChooseBuffer, irqHandler, ring, chip, TypeOK
<1>7. CASE PayloadSize
  <2>1. Head(radio) \in Messages
    BY <1>7, Nonempty DEF PayloadSize, TypeOK, HandlerInv
  <2>2. isr' \in Handler
    BY <1>7, <2>1 DEF PayloadSize, TypeOK, Handler
  <2>3. radio' = radio \/ radio' = <<>>
    BY <1>7 DEF PayloadSize
  <2>4. radio' \in Seq(Messages) /\ Len(radio') <= RadioFifo
    <3>1. CASE radio' = radio
      BY <3>1 DEF TypeOK
    <3>2. CASE radio' = <<>>
      BY <3>2
    <3> QED
      BY <2>3, <3>1, <3>2
  <2> QED
    BY <1>7, <2>2, <2>4 DEF PayloadSize, TypeOK, ring
<1>8. CASE ReadPayload
  <2>1. isr' \in Handler
    BY <1>8 DEF ReadPayload, TypeOK, Handler
  <2>2. CASE isr.len = Empty
    BY <1>8, <2>1, <2>2 DEF ReadPayload, TypeOK
  <2>3. CASE isr.len # Empty
    <3>0. radio # <<>> /\ radio' = Tail(radio)
      BY <1>8, <2>3 DEF ReadPayload, HandlerInv
    <3>1. Head(radio) \in Messages /\ radio' \in Seq(Messages) /\ Len(radio') <= RadioFifo
      BY <3>0, Nonempty DEF TypeOK
    <3>2. slots' \in [Index -> Slot]
      BY <1>8, <2>3, <3>1 DEF ReadPayload, TypeOK, Slot
    <3> QED
      BY <1>8, <2>1, <3>1, <3>2 DEF ReadPayload, TypeOK
  <2> QED
    BY <2>2, <2>3
<1>9. CASE ClearRxDr
  <2>1. isr' \in Handler
    BY <1>9 DEF ClearRxDr, TypeOK, Handler
  <2> QED
    BY <2>1, <1>3, <1>9 DEF ClearRxDr, irqHandler, ring, TypeOK
<1>10. CASE StoreLength
  <2>1. isr' \in Handler
    BY <1>10 DEF StoreLength, TypeOK, Handler
  <2>2. isr.len \in Contents
    BY DEF TypeOK, Handler
  <2>3. slots' \in [Index -> Slot]
    BY <1>10, <2>2 DEF StoreLength, TypeOK, Slot
  <2> QED
    BY <1>10, <2>1, <2>3 DEF StoreLength, TypeOK, chip
<1>11. CASE pushFront
  <2>1. isr' \in Handler
    BY <1>11 DEF pushFront, Handler
  <2>2. m_front' \in Index /\ m_fill' \in 0 .. Size
    BY <1>11, NextIndex DEF pushFront, TypeOK
  <2> QED
    BY <1>11, <2>1, <2>2 DEF pushFront, TypeOK, chip
<1>12. CASE CountLost
  <2>1. isr' \in Handler
    BY <1>12 DEF CountLost, Handler
  <2> QED
    BY <1>12, <2>1 DEF CountLost, TypeOK, chip, ring
<1>13. ASSUME transportReceive, main' \in Reader, got' \in Slot, m_fill' \in 0 .. Size
       PROVE  TypeOK'
  BY <1>13, MainStep DEF TypeOK
<1>14. CASE Available \/ getBack \/ PopLoad \/ LoadFill \/ LoadFront
  <2>1. 0 \in 0 .. Size /\ m_front \in 0 .. Size /\ m_fill \in 0 .. Size
    BY DEF TypeOK, Index
  <2>2. main' \in Reader
    <3>1. CASE Available \/ getBack
      BY <3>1, <2>1 DEF Available, getBack, Step, TypeOK, Away, Reader
    <3>2. CASE LoadFront
      BY <3>2, <2>1 DEF LoadFront, TypeOK, Reader
    <3>3. CASE LoadFill \/ PopLoad
      BY <3>3, <2>1 DEF LoadFill, PopLoad, TypeOK, Reader
    <3> QED
      BY <1>14, <3>1, <3>2, <3>3
  <2> QED
    BY <1>13, <1>14, <2>2 DEF Available, getBack, PopLoad, LoadFill, LoadFront,
                              transportReceive, TypeOK, ring
<1>15. CASE BackOfFront \/ BackOfFill
  <2>1. PICK b \in Index : main' = [main EXCEPT !.pc = "len", !.seen = 0, !.msg = b]
    BY <1>15, BackIndex DEF BackOfFront, BackOfFill, Back, Main, MainInv, TypeOK
  <2>2. main' \in Reader
    <3>1. 0 \in 0 .. Size /\ b \in 0 .. Size
      BY <2>1 DEF Index
    <3> QED
      BY <2>1, <3>1 DEF TypeOK, Reader
  <2> QED
    BY <1>13, <1>15, <2>2 DEF BackOfFront, BackOfFill, Back, transportReceive, TypeOK, ring
<1>16. CASE CopyLength \/ CopyData
  <2>1. main.msg \in Index
    BY <1>16, BackIndex DEF CopyLength, CopyData, Main, MainInv, Reading, TypeOK
  <2>2. slots[main.msg].len \in Contents /\ slots[main.msg].data \in Contents
    BY <2>1 DEF TypeOK, Slot
  <2>3. main' \in Reader
    BY <1>16, <2>2 DEF CopyLength, CopyData, TypeOK, Reader
  <2> QED
    BY <1>13, <1>16, <2>3 DEF CopyLength, CopyData, transportReceive, TypeOK, ring
<1>17. CASE popBack \/ PopStore
  <2>1. main' \in Reader
    BY <1>17 DEF popBack, PopStore, Received, Step, Away, TypeOK, Reader
  <2>2. got' \in Slot
    BY <1>17 DEF popBack, PopStore, Received, TypeOK, Reader, Slot
  <2>3. m_fill' \in 0 .. Size
    BY <1>17 DEF popBack, PopStore, Main, MainInv, TypeOK, ring
  <2> QED
    BY <1>13, <1>17, <2>1, <2>2, <2>3 DEF transportReceive
<1>18. CASE UNCHANGED vars
  BY <1>18 DEF vars, TypeOK
<1> QED
  BY <1>1, <1>2, <1>4, <1>5, <1>6, <1>7, <1>8, <1>9, <1>10, <1>11, <1>12, <1>14, <1>15,
     <1>16, <1>17, <1>18
  DEF Next, irqHandler, transportReceive

----------------------------------------------------------------------------
LEMMA HandlerPreserved ==
  ASSUME Inv, [Next]_vars
  PROVE  HandlerInv'
<1> USE SizeAssumption, MessageAssumption DEF Inv, At, GoTo
<1>1. ASSUME NEW m \in Messages, Arrive(m) PROVE HandlerInv'
  BY <1>1, Appended DEF Arrive, TypeOK, HandlerInv, ring, NoSlot
<1>2. CASE RF24_initialize
  BY <1>2 DEF RF24_initialize, HandlerInv, ring, NoSlot
<1>3. CASE Interrupt \/ IsDataAvailable \/ IrqReturn
  BY <1>3 DEF Interrupt, IsDataAvailable, IrqReturn, TypeOK, Handler, HandlerInv, ring,
              chip, Outside, NoSlot
<1>4. CASE ChooseBuffer
  BY <1>4 DEF ChooseBuffer, TypeOK, Handler, HandlerInv, ring, chip, NoSlot
<1>5. CASE PayloadSize
  <2>1. CASE Head(radio) = Corrupt
    BY <1>5, <2>1 DEF PayloadSize, TypeOK, Handler, HandlerInv, ring, NoSlot
  <2>2. CASE Head(radio) # Corrupt
    BY <1>5, <2>2 DEF PayloadSize, TypeOK, Handler, HandlerInv, ring, NoSlot
  <2> QED
    BY <2>1, <2>2
<1>6. CASE ReadPayload
  <2>1. m_front \in Index
    BY DEF TypeOK
  <2>2. CASE isr.len = Empty
    BY <1>6, <2>2 DEF ReadPayload, TypeOK, Handler, HandlerInv, NoSlot
  <2>3. CASE isr.len # Empty
    <3>1. /\ isr \in Handler /\ isr' = [isr EXCEPT !.pc = "clear"]
          /\ Head(radio) = isr.len /\ UNCHANGED <<m_front, m_fill>>
      BY <1>6, <2>3 DEF ReadPayload, HandlerInv, TypeOK
    <3>2. isr.msg # NoSlot => isr.msg = m_front /\ m_fill < Size
                              /\ slots'[m_front].data = isr.len
      <4> SUFFICES ASSUME isr.msg # NoSlot
                   PROVE  isr.msg = m_front /\ m_fill < Size /\ slots'[m_front].data = isr.len
        OBVIOUS
      <4>1. isr.msg = m_front /\ m_fill < Size
        BY <1>6 DEF ReadPayload, HandlerInv
      <4>2. slots' = [slots EXCEPT ![m_front].data = isr.len]
        BY <1>6, <2>3, <3>1, <4>1 DEF ReadPayload
      <4> QED
        BY <2>1, <4>1, <4>2 DEF TypeOK, Slot
    <3>3. isr.msg = NoSlot => m_fill = Size
      BY <1>6, <2>1 DEF ReadPayload, HandlerInv, NoSlot, Index
    <3> QED
      BY <3>1, <3>2, <3>3 DEF HandlerInv, Handler
  <2> QED
    BY <2>2, <2>3
<1>7. CASE ClearRxDr
  <2>1. m_front # NoSlot
    BY DEF TypeOK, NoSlot, Index
  <2>2. CASE isr.msg = NoSlot
    BY <1>7, <2>1, <2>2 DEF ClearRxDr, TypeOK, Handler, HandlerInv, ring
  <2>3. CASE isr.msg # NoSlot
    BY <1>7, <2>1, <2>3 DEF ClearRxDr, TypeOK, Handler, HandlerInv, ring
  <2> QED
    BY <2>2, <2>3
<1>8. CASE StoreLength
  <2>1. m_front \in Index /\ m_front # NoSlot
    BY DEF TypeOK, NoSlot, Index
  <2> QED
    BY <1>8, <2>1 DEF StoreLength, TypeOK, Handler, HandlerInv, chip
<1>9. CASE pushFront \/ CountLost
  BY <1>9 DEF pushFront, CountLost, HandlerInv, Outside, NoSlot
<1>10. CASE transportReceive
  BY <1>10, MainStep DEF HandlerInv
<1>11. CASE UNCHANGED vars
  BY <1>11 DEF vars, HandlerInv, NoSlot
<1> QED
  BY <1>1, <1>2, <1>3, <1>4, <1>5, <1>6, <1>7, <1>8, <1>9, <1>10, <1>11
  DEF Next, irqHandler

(* A frame that arrives while RX_DR is set raises no edge: it is found by  *)
(* the loop that cleared the flag before it looked at the chip again.      *)
LEMMA WakePreserved ==
  ASSUME Inv, [Next]_vars
  PROVE  WakeInv'
<1> USE DEF Inv, At, GoTo
<1>1. ASSUME NEW m \in Messages, Arrive(m) PROVE WakeInv'
  <2>1. radio' # <<>>
    BY <1>1, Appended DEF Arrive, TypeOK
  <2> QED
    BY <1>1, <2>1 DEF Arrive, WakeInv
<1>2. CASE RF24_initialize
  BY <1>2 DEF RF24_initialize, WakeInv
<1>3. CASE Interrupt \/ IsDataAvailable \/ IrqReturn
  BY <1>3 DEF Interrupt, IsDataAvailable, IrqReturn, TypeOK, Handler, WakeInv, chip, Outside
<1>4. CASE ChooseBuffer
  BY <1>4 DEF ChooseBuffer, TypeOK, Handler, WakeInv, chip
<1>9. CASE StoreLength
  BY <1>9 DEF StoreLength, TypeOK, Handler, WakeInv, chip
<1>8. CASE pushFront \/ CountLost
  BY <1>8 DEF pushFront, CountLost, WakeInv, chip, Outside
<1>5. CASE PayloadSize \/ ReadPayload \/ ClearRxDr
  BY <1>5 DEF PayloadSize, ReadPayload, ClearRxDr, TypeOK, Handler, HandlerInv, WakeInv
<1>6. CASE transportReceive
  BY <1>6, MainStep DEF WakeInv
<1>7. CASE UNCHANGED vars
  BY <1>7 DEF vars, WakeInv
<1> QED
  BY <1>1, <1>2, <1>3, <1>4, <1>5, <1>6, <1>7, <1>8, <1>9 DEF Next, irqHandler

----------------------------------------------------------------------------
(* The handler changes the ring at m_front and moves m_front and m_fill    *)
(* together: neither the slot at the back nor its index changes.           *)
LEMMA ReaderUndisturbed ==
  ASSUME Inv, irqHandler, m_fill # 0
  PROVE  /\ m_fill' # 0
         /\ back(m_front', m_fill') = back(m_front, m_fill)
         /\ slots'[back(m_front, m_fill)] = slots[back(m_front, m_fill)]
<1> USE DEF Inv, At
<1> DEFINE b == back(m_front, m_fill)
<1>1. b \in Index /\ m_front \in Index /\ m_fill \in 1 .. Size
  BY BackIndex DEF TypeOK
<1>2. CASE Interrupt \/ IsDataAvailable \/ IrqReturn \/ ChooseBuffer \/ PayloadSize
           \/ ClearRxDr \/ CountLost
  BY <1>2 DEF Interrupt, IsDataAvailable, IrqReturn, ChooseBuffer, PayloadSize, ClearRxDr,
              CountLost, ring
<1>3. CASE ReadPayload \/ StoreLength
  <2>1. isr.msg = NoSlot \/ (isr.msg = m_front /\ m_fill \in 1 .. Size - 1)
    BY <1>1, <1>3, SizeAssumption DEF ReadPayload, StoreLength, HandlerInv
  <2>9. isr.msg = NoSlot \/ b # isr.msg
    BY <1>1, <2>1, BackApart
  <2>2. UNCHANGED <<m_front, m_fill>>
    BY <1>3 DEF ReadPayload, StoreLength
  <2>3. slots'[b] = slots[b]
    <3>1. CASE ReadPayload
      BY <1>1, <3>1, <2>9 DEF ReadPayload, TypeOK
    <3>2. CASE StoreLength
      <4>1. isr.msg # NoSlot
        BY <1>1, <3>2 DEF StoreLength, HandlerInv, NoSlot, Index
      <4> QED
        BY <1>1, <3>2, <4>1, <2>9 DEF StoreLength, TypeOK
    <3> QED
      BY <1>3, <3>1, <3>2
  <2> QED
    BY <2>2, <2>3
<1>4. CASE pushFront
  <2>1. m_fill \in 1 .. Size - 1
    BY <1>1, <1>4, SizeAssumption DEF pushFront, HandlerInv
  <2>2. m_front' = (m_front + 1) % Size /\ m_fill' = m_fill + 1 /\ slots' = slots
    BY <1>4, <2>1 DEF pushFront
  <2> QED
    BY <1>1, <2>1, <2>2, BackStays
<1> QED
  BY <1>2, <1>3, <1>4 DEF irqHandler

LEMMA MainPreserved ==
  ASSUME Atomic, Inv, [Next]_vars
  PROVE  MainInv'
<1> USE DEF Inv, Main, Step, Sections, Reading
<1>1. CASE (\E m \in Messages : Arrive(m)) \/ RF24_initialize
  BY <1>1 DEF Arrive, RF24_initialize, MainInv, ring
<1>2. CASE irqHandler
  <2>1. UNCHANGED main
    BY <1>2, HandlerStep
  <2>2. main.pc \notin Sections
    BY <1>2 DEF irqHandler, Interrupt, IsDataAvailable, IrqReturn, ChooseBuffer,
                PayloadSize, ReadPayload, ClearRxDr, StoreLength, pushFront, CountLost,
                At, MainInv
  <2> QED
    BY <1>2, <2>1, <2>2, ReaderUndisturbed DEF MainInv
<1>3. CASE Available \/ getBack \/ LoadFront \/ LoadFill
  BY <1>3 DEF Available, getBack, LoadFront, LoadFill, TypeOK, Reader, MainInv, Away, ring
<1>4. CASE BackOfFront \/ BackOfFill
  <2>1. main' = [main EXCEPT !.pc = "len", !.seen = 0, !.msg = back(m_front, m_fill)]
    BY <1>4 DEF BackOfFront, BackOfFill, Back, MainInv
  <2>2. UNCHANGED <<m_front, m_fill, slots, isr>> /\ main.pc # "away"
    BY <1>4 DEF BackOfFront, BackOfFill, Back, ring
  <2> QED
    BY <2>1, <2>2 DEF TypeOK, Reader, MainInv
<1>5. CASE CopyLength
  BY <1>5 DEF CopyLength, TypeOK, Reader, MainInv, ring
<1>6. CASE CopyData
  BY <1>6 DEF CopyData, TypeOK, Reader, MainInv, ring
<1>7. CASE popBack \/ PopLoad
  BY <1>7 DEF popBack, PopLoad, TypeOK, Reader, MainInv, ring
<1>8. CASE PopStore
  BY <1>8 DEF PopStore, Received, MainInv, Away
<1>9. CASE UNCHANGED vars
  BY <1>9 DEF vars, MainInv
<1> QED
  BY <1>1, <1>2, <1>3, <1>4, <1>5, <1>6, <1>7, <1>8, <1>9 DEF Next, transportReceive

----------------------------------------------------------------------------
THEOREM Invariance == ASSUME Atomic PROVE Spec => []Inv
<1>1. Inv /\ [Next]_vars => Inv'
  BY TypePreserved, HandlerPreserved, WakePreserved, MainPreserved DEF Inv
<1> QED
  BY InitInv, <1>1, PTL DEF Spec

(* Every variable keeps its range: a step of the handler between two       *)
(* critical sections of the main program cannot push m_fill or m_front     *)
(* out of the ring (CircularBuffer.h:119-167).                             *)
THEOREM TypeCorrect == ASSUME Atomic PROVE Spec => []TypeOK
<1>1. Inv => TypeOK
  BY DEF Inv
<1> QED
  BY Invariance, <1>1, PTL

(* No frame stays in the chip without an interrupt to fetch it             *)
(* (RF24_irqHandler, RF24.cpp:418-427).                                    *)
THEOREM WakeUpCorrect == ASSUME Atomic PROVE Spec => []NoFrameForgotten
<1>1. Inv => NoFrameForgotten
  BY DEF Inv, WakeInv, NoFrameForgotten
<1> QED
  BY Invariance, <1>1, PTL

(* The handler never writes the slot transportReceive copies from          *)
(* (MyTransportRF24.cpp:130-134).                                          *)
THEOREM SlotsCorrect == ASSUME Atomic PROVE Spec => []SlotsApart
<1>1. Inv => SlotsApart
  <2> SUFFICES ASSUME Inv, Reading, isr.msg # NoSlot PROVE isr.msg # main.msg
    BY DEF SlotsApart
  <2>1. main.msg = back(m_front, m_fill) /\ m_fill # 0 /\ m_front \in Index
    BY DEF Inv, MainInv, Reading, TypeOK
  <2>2. isr.msg = m_front /\ m_fill < Size
    BY DEF Inv, HandlerInv, TypeOK, Handler
  <2>3. m_fill \in 1 .. Size - 1
    BY <2>1, <2>2, SizeAssumption DEF Inv, TypeOK
  <2> QED
    BY <2>1, <2>2, <2>3, BackApart
<1> QED
  BY Invariance, <1>1, PTL

----------------------------------------------------------------------------
(* The refinement.  What the ring holds, as a sequence.                    *)
Whole == Contents \cup {Torn}
Held(sl, front, fill) == [i \in 1 .. fill |-> Read(sl[back(front, fill - (i - 1))])]

LEMMA HeldSeq ==
  ASSUME NEW sl \in [Index -> Slot], NEW front \in Index, NEW fill \in 0 .. Size
  PROVE  /\ Held(sl, front, fill) \in Seq(Whole)
         /\ Len(Held(sl, front, fill)) = fill
         /\ \A i \in 1 .. fill :
              Held(sl, front, fill)[i] = Read(sl[back(front, fill - (i - 1))])
<1>1. ASSUME NEW i \in 1 .. fill
      PROVE  Read(sl[back(front, fill - (i - 1))]) \in Whole
  <2>1. fill - (i - 1) \in 0 .. Size
    BY SizeAssumption
  <2>2. sl[back(front, fill - (i - 1))] \in Slot
    BY <2>1, BackIndex
  <2> QED
    BY <2>2 DEF Slot, Read, Whole
<1>2. Held(sl, front, fill) \in [1 .. fill -> Whole]
  BY <1>1 DEF Held
<1>3. fill \in Nat
  BY SizeAssumption
<1>4. Held(sl, front, fill) \in Seq(Whole) /\ Len(Held(sl, front, fill)) = fill
  BY <1>2, <1>3
<1> QED
  BY <1>4 DEF Held

(* Writing the free slot in front changes nothing that is held.            *)
LEMMA HeldUntouched ==
  ASSUME NEW sl \in [Index -> Slot], NEW new \in [Index -> Slot],
         NEW front \in Index, NEW fill \in 0 .. Size - 1,
         \A j \in Index \ {front} : new[j] = sl[j]
  PROVE  Held(new, front, fill) = Held(sl, front, fill)
<1>1. ASSUME NEW i \in 1 .. fill
      PROVE  new[back(front, fill - (i - 1))] = sl[back(front, fill - (i - 1))]
  <2>1. fill - (i - 1) \in 1 .. Size - 1
    BY SizeAssumption
  <2>2. fill - (i - 1) \in 0 .. Size
    BY SizeAssumption
  <2> QED
    BY <2>1, <2>2, BackIndex, BackApart
<1> QED
  BY <1>1 DEF Held

LEMMA HeldPush ==
  ASSUME NEW sl \in [Index -> Slot], NEW front \in Index, NEW fill \in 0 .. Size - 1
  PROVE  Held(sl, (front + 1) % Size, fill + 1) = Append(Held(sl, front, fill), Read(sl[front]))
<1> DEFINE old == Held(sl, front, fill)
           new == Held(sl, (front + 1) % Size, fill + 1)
<1>1. fill \in 0 .. Size /\ fill + 1 \in 0 .. Size /\ fill \in Nat
  BY SizeAssumption
<1>2. /\ old \in Seq(Whole) /\ Len(old) = fill
      /\ new \in Seq(Whole) /\ Len(new) = fill + 1
      /\ \A i \in 1 .. fill : old[i] = Read(sl[back(front, fill - (i - 1))])
      /\ \A i \in 1 .. fill + 1 :
           new[i] = Read(sl[back((front + 1) % Size, fill + 1 - (i - 1))])
  <2>1. (front + 1) % Size \in Index
    BY NextIndex
  <2>2. /\ old \in Seq(Whole) /\ Len(old) = fill
        /\ \A i \in 1 .. fill : old[i] = Read(sl[back(front, fill - (i - 1))])
    BY <1>1, HeldSeq
  <2>3. /\ new \in Seq(Whole) /\ Len(new) = fill + 1
        /\ \A i \in 1 .. fill + 1 :
             new[i] = Read(sl[back((front + 1) % Size, fill + 1 - (i - 1))])
    BY <1>1, <2>1, HeldSeq
  <2> QED
    BY <2>2, <2>3
<1>3. Read(sl[front]) \in Whole
  BY DEF Slot, Read, Whole
<1>4. /\ Append(old, Read(sl[front])) \in Seq(Whole)
      /\ Len(Append(old, Read(sl[front]))) = fill + 1
      /\ \A i \in 1 .. fill : Append(old, Read(sl[front]))[i] = old[i]
      /\ Append(old, Read(sl[front]))[fill + 1] = Read(sl[front])
  BY <1>2, <1>3, AppendProperties
<1>5. ASSUME NEW i \in 1 .. fill PROVE new[i] = old[i]
  <2>1. fill - (i - 1) \in 1 .. Size - 1 /\ fill + 1 - (i - 1) = (fill - (i - 1)) + 1
    BY SizeAssumption
  <2>2. i \in 1 .. fill + 1
    BY <1>1
  <2> QED
    BY <1>2, <2>1, <2>2, BackStays
<1>6. new[fill + 1] = Read(sl[front])
  <2>1. back((front + 1) % Size, 1) = front
    BY SizeAssumption, SMT DEF back, Index
  <2>2. fill + 1 \in 1 .. fill + 1 /\ fill + 1 - ((fill + 1) - 1) = 1
    BY <1>1
  <2> QED
    BY <1>2, <2>1, <2>2
<1>7. \A i \in 1 .. fill + 1 : new[i] = Append(old, Read(sl[front]))[i]
  BY <1>1, <1>4, <1>5, <1>6
<1> QED
  BY <1>2, <1>4, <1>7, SeqEqual

LEMMA HeldPop ==
  ASSUME NEW sl \in [Index -> Slot], NEW front \in Index, NEW fill \in 1 .. Size
  PROVE  /\ Held(sl, front, fill) # <<>>
         /\ Head(Held(sl, front, fill)) = Read(sl[back(front, fill)])
         /\ Tail(Held(sl, front, fill)) = Held(sl, front, fill - 1)
<1> DEFINE old == Held(sl, front, fill)
           new == Held(sl, front, fill - 1)
<1>1. fill \in 0 .. Size /\ fill - 1 \in 0 .. Size /\ fill \in Nat
  BY SizeAssumption
<1>2. /\ old \in Seq(Whole) /\ Len(old) = fill
      /\ new \in Seq(Whole) /\ Len(new) = fill - 1
      /\ \A i \in 1 .. fill : old[i] = Read(sl[back(front, fill - (i - 1))])
      /\ \A i \in 1 .. fill - 1 : new[i] = Read(sl[back(front, fill - 1 - (i - 1))])
  BY <1>1, HeldSeq
<1>3. old # <<>>
  BY <1>2, <1>1
<1>4. Head(old) = Read(sl[back(front, fill)])
  <2>1. 1 \in 1 .. fill /\ fill - (1 - 1) = fill
    BY <1>1
  <2>2. Head(old) = old[1]
    BY <1>2, <1>3
  <2> QED
    BY <1>2, <2>1, <2>2
<1>5. /\ Tail(old) \in Seq(Whole) /\ Len(Tail(old)) = fill - 1
      /\ \A i \in 1 .. fill - 1 : Tail(old)[i] = old[i + 1]
  BY <1>2, <1>3, HeadTailProperties
<1>6. ASSUME NEW i \in 1 .. fill - 1 PROVE Tail(old)[i] = new[i]
  <2>1. i + 1 \in 1 .. fill /\ fill - ((i + 1) - 1) = fill - 1 - (i - 1)
    BY <1>1
  <2> QED
    BY <1>2, <1>5, <2>1
<1>7. Tail(old) = new
  BY <1>2, <1>5, <1>6, SeqEqual
<1> QED
  BY <1>3, <1>4, <1>7

----------------------------------------------------------------------------
LEMMA InitRefines == Init => Fifo!AInit
<1> SUFFICES ASSUME Init PROVE Fifo!AInit
  OBVIOUS
<1>1. air = <<>>
  BY DEF Init, air, OnItsWay, Outside
<1>2. queue = <<>>
  BY DEF Init, queue
<1> QED
  BY <1>1, <1>2 DEF Init, Fifo!AInit, Read

(* One step of the handler, the main program or the radio is one step of   *)
(* the abstract queue or changes nothing the abstract queue shows.         *)
LEMMA StepRefines ==
  ASSUME Atomic, Inv, Inv', [Next]_vars
  PROVE  [Fifo!ANext]_(Fifo!avars)
<1> USE DEF At, GoTo
<1>0. /\ slots \in [Index -> Slot] /\ slots' \in [Index -> Slot]
      /\ m_front \in Index /\ m_fill \in 0 .. Size
      /\ radio \in Seq(Messages) /\ isr \in Handler
  BY DEF Inv, TypeOK
<1>1. queue = Held(slots, m_front, m_fill)
  BY DEF queue, Held
<1>2. queue' = Held(slots', m_front', m_fill')
  BY DEF queue, Held
<1>3. Len(queue) = m_fill
  BY <1>0, <1>1, HeldSeq
<1>4. ASSUME UNCHANGED <<air, slots, m_front, m_fill, lost, got>>
      PROVE  UNCHANGED Fifo!avars
  BY <1>1, <1>2, <1>4 DEF Fifo!avars, Read
<1>5. ASSUME NEW m \in Messages, Arrive(m) PROVE Fifo!Arrive(m)
  <2>1. air' = Append(air, m)
    <3>1. CASE OnItsWay
      <4>1. air = <<isr.len>> \o radio /\ air' = <<isr.len>> \o Append(radio, m)
        BY <1>5, <3>1 DEF Arrive, air, OnItsWay
      <4>2. isr.len \in Contents /\ m \in Contents /\ radio \in Seq(Contents)
        BY <1>0 DEF Handler, Contents
      <4> HIDE DEF Contents
      <4>3. <<isr.len>> \in Seq(Contents) /\ <<m>> \in Seq(Contents)
        BY <4>2
      <4>4. Append(radio, m) = radio \o <<m>>
        BY <4>2, AppendIsConcat
      <4>5. <<isr.len>> \o radio \in Seq(Contents)
        BY <4>2, <4>3, ConcatProperties
      <4>6. Append(<<isr.len>> \o radio, m) = (<<isr.len>> \o radio) \o <<m>>
        BY <4>2, <4>5, AppendIsConcat
      <4> QED
        BY <4>1, <4>2, <4>3, <4>4, <4>6, ConcatAssociative
    <3>2. CASE ~OnItsWay
      BY <1>5, <3>2 DEF Arrive, air, OnItsWay
    <3> QED
      BY <3>1, <3>2
  <2>2. UNCHANGED <<queue, lost, got>>
    BY <1>1, <1>2, <1>5 DEF Arrive, ring
  <2> QED
    BY <2>1, <2>2 DEF Fifo!Arrive, Read
<1>6. CASE RF24_initialize
  <2>1. air' = <<>>
    BY <1>6 DEF RF24_initialize, air, OnItsWay
  <2>2. UNCHANGED <<queue, lost, got>>
    BY <1>1, <1>2, <1>6 DEF RF24_initialize, ring
  <2>3. Fifo!Reset
    BY <2>1, <2>2 DEF Fifo!Reset, Read
  <2> QED
    BY <2>3 DEF Fifo!ANext
<1>7. CASE Interrupt \/ IsDataAvailable \/ IrqReturn \/ ChooseBuffer
  <2>1. ~OnItsWay /\ ~OnItsWay' /\ radio' = radio
    <3>1. CASE IrqReturn
      BY <3>1 DEF IrqReturn, chip, OnItsWay, Outside
    <3>2. CASE Interrupt \/ IsDataAvailable
      BY <1>0, <3>2 DEF Interrupt, IsDataAvailable, chip, OnItsWay, Handler
    <3>3. CASE ChooseBuffer
      BY <1>0, <3>3 DEF ChooseBuffer, chip, OnItsWay, Handler
    <3> QED
      BY <1>7, <3>1, <3>2, <3>3
  <2>2. UNCHANGED air
    BY <2>1 DEF air
  <2> QED
    BY <1>4, <1>7, <2>2 DEF Interrupt, IsDataAvailable, IrqReturn, ChooseBuffer, ring
<1>8. CASE PayloadSize
  <2>1. air = radio /\ radio # <<>>
    BY <1>8 DEF PayloadSize, air, OnItsWay, Inv, HandlerInv
  <2>2. CASE Head(radio) = Corrupt
    <3>1. isr' = [isr EXCEPT !.pc = "payload", !.len = Empty] /\ radio' = <<>>
      BY <1>8, <2>2 DEF PayloadSize
    <3>2. OnItsWay' /\ isr'.len = Empty
      BY <1>0, <3>1 DEF OnItsWay, Handler
    <3>3. air' = <<Empty>>
      BY <3>1, <3>2 DEF air
    <3>4. UNCHANGED <<queue, lost, got>>
      BY <1>1, <1>2, <1>8 DEF PayloadSize, ring
    <3>5. Fifo!Spoil
      BY <2>1, <2>2, <3>3, <3>4 DEF Fifo!Spoil, Read
    <3> QED
      BY <3>5 DEF Fifo!ANext
  <2>3. CASE Head(radio) # Corrupt
    <3>1. isr' = [isr EXCEPT !.pc = "payload", !.len = Head(radio)] /\ radio' = radio
      BY <1>8, <2>3 DEF PayloadSize
    <3>2. Head(radio) # Empty
      BY <1>0, <2>1, Nonempty, MessageAssumption
    <3>3. air' = radio
      BY <1>0, <3>1, <3>2 DEF air, OnItsWay, Handler
    <3> QED
      BY <1>4, <1>8, <2>1, <3>3 DEF PayloadSize, ring
  <2> QED
    BY <2>2, <2>3
<1>9. CASE ReadPayload
  <2>1. isr' = [isr EXCEPT !.pc = "clear"] /\ UNCHANGED <<m_front, m_fill, lost, got>>
    BY <1>9 DEF ReadPayload
  <2>2. air' = <<isr.len>> \o radio'
    BY <1>0, <2>1 DEF air, OnItsWay, Handler
  <2>3. CASE isr.len = Empty
    <3>1. UNCHANGED <<radio, slots>> /\ OnItsWay
      BY <1>9, <2>3 DEF ReadPayload, OnItsWay
    <3> QED
      BY <1>4, <2>1, <2>2, <3>1 DEF air
  <2>4. CASE isr.len # Empty
    <3>1. /\ radio # <<>> /\ Head(radio) = isr.len /\ radio' = Tail(radio)
          /\ air = radio
      BY <1>9, <2>4 DEF ReadPayload, Inv, HandlerInv, air, OnItsWay
    <3>2. air' = air
      BY <1>0, <2>2, <3>1
    <3>3. queue' = queue
      <4>1. CASE isr.msg = NoSlot
        BY <1>1, <1>2, <1>9, <2>1, <2>4, <4>1 DEF ReadPayload
      <4>2. CASE isr.msg # NoSlot
        <5>1. isr.msg = m_front /\ m_fill \in 0 .. Size - 1
          BY <1>0, <1>9, <4>2, SizeAssumption DEF ReadPayload, Inv, HandlerInv
        <5>2. \A j \in Index \ {m_front} : slots'[j] = slots[j]
          BY <1>0, <1>9, <2>4, <4>2, <5>1 DEF ReadPayload
        <5> QED
          BY <1>0, <1>1, <1>2, <2>1, <5>1, <5>2, HeldUntouched
      <4> QED
        BY <4>1, <4>2
    <3> QED
      BY <2>1, <3>2, <3>3 DEF Fifo!avars, Read
  <2> QED
    BY <2>3, <2>4
<1>10. CASE ClearRxDr
  <2>1. OnItsWay /\ OnItsWay' /\ isr'.len = isr.len /\ radio' = radio
    BY <1>0, <1>10 DEF ClearRxDr, OnItsWay, Handler
  <2>2. UNCHANGED air
    BY <2>1 DEF air
  <2> QED
    BY <1>4, <1>10, <2>2 DEF ClearRxDr, ring
<1>11. CASE StoreLength
  <2>1. OnItsWay /\ OnItsWay' /\ isr'.len = isr.len /\ radio' = radio
    BY <1>0, <1>11 DEF StoreLength, OnItsWay, Handler, chip
  <2>2. UNCHANGED air
    BY <2>1 DEF air
  <2>3. isr.msg = m_front /\ m_fill \in 0 .. Size - 1
    BY <1>0, <1>11, SizeAssumption DEF StoreLength, Inv, HandlerInv
  <2>4. \A j \in Index \ {m_front} : slots'[j] = slots[j]
    BY <1>0, <1>11, <2>3 DEF StoreLength
  <2>5. UNCHANGED <<m_front, m_fill>>
    BY <1>11 DEF StoreLength
  <2>6. queue' = queue
    BY <1>0, <1>1, <1>2, <2>3, <2>4, <2>5, HeldUntouched
  <2> QED
    BY <1>11, <2>2, <2>6 DEF StoreLength, Fifo!avars, Read
<1>12. CASE pushFront \/ CountLost
  <2>1. air = <<isr.len>> \o radio /\ air' = radio
    BY <1>12 DEF pushFront, CountLost, chip, air, OnItsWay, Outside
  <2>2. air # <<>> /\ Head(air) = isr.len /\ Tail(air) = radio
    <3>1. isr.len \in Contents /\ radio \in Seq(Contents)
      BY <1>0 DEF Handler, Contents
    <3> QED
      BY <2>1, <3>1
  <2>3. isr.len # Corrupt
    BY DEF Inv, HandlerInv
  <2>4. CASE pushFront
    <3>1. /\ isr.msg = m_front /\ m_fill \in 0 .. Size - 1
          /\ slots[m_front].len = isr.len
          /\ isr.len # Empty => slots[m_front].data = isr.len
      BY <1>0, <2>4, SizeAssumption DEF pushFront, Inv, HandlerInv, NoSlot, Index
    <3>2. Read(slots[m_front]) = isr.len
      BY <3>1 DEF Read
    <3>3. m_front' = (m_front + 1) % Size /\ m_fill' = m_fill + 1 /\ slots' = slots
      BY <2>4, <3>1 DEF pushFront
    <3>4. queue' = Append(queue, isr.len)
      BY <1>0, <1>1, <1>2, <3>1, <3>2, <3>3, HeldPush
    <3>5. Len(queue) < Size
      BY <1>3, <3>1, SizeAssumption
    <3>6. Fifo!Accept
      BY <2>1, <2>2, <2>3, <2>4, <3>4, <3>5 DEF pushFront, Fifo!Accept, Read
    <3> QED
      BY <3>6 DEF Fifo!ANext
  <2>5. CASE CountLost
    <3>1. Len(queue) = Size
      BY <1>3, <2>5 DEF CountLost, Inv, HandlerInv
    <3>2. UNCHANGED <<queue, got>>
      BY <1>1, <1>2, <2>5 DEF CountLost, ring
    <3>3. Fifo!Drop
      BY <2>1, <2>2, <2>3, <2>5, <3>1, <3>2 DEF CountLost, Fifo!Drop, Read
    <3> QED
      BY <3>3 DEF Fifo!ANext
  <2> QED
    BY <1>12, <2>4, <2>5
<1>13. CASE transportReceive
  <2>1. UNCHANGED <<air, slots, m_front, lost>>
    BY <1>13, MainStep DEF air, OnItsWay
  <2>2. CASE UNCHANGED <<m_fill, got>>
    BY <1>4, <2>1, <2>2
  <2>3. CASE PopStore
    <3>1. /\ m_fill \in 1 .. Size /\ main.msg = back(m_front, m_fill)
          /\ main.seen = m_fill /\ main.len = slots[main.msg].len
          /\ main.data = IF main.len = Empty THEN Empty ELSE slots[main.msg].data
      BY <1>0, <2>3, SizeAssumption DEF PopStore, Main, Inv, MainInv, Reading
    <3>2. m_fill' = m_fill - 1 /\ got' = [len |-> main.len, data |-> main.data]
      BY <2>3, <3>1 DEF PopStore, Received
    <3>3. Read(got') = Read(slots[back(m_front, m_fill)])
      BY <3>1, <3>2 DEF Read
    <3>4. /\ queue # <<>> /\ Head(queue) = Read(slots[back(m_front, m_fill)])
          /\ Tail(queue) = queue'
      BY <1>0, <1>1, <1>2, <2>1, <3>1, <3>2, HeldPop
    <3>5. Fifo!Deliver
      BY <2>1, <3>3, <3>4 DEF Fifo!Deliver, Read
    <3> QED
      BY <3>5 DEF Fifo!ANext
  <2>4. popBack => m_fill # 0
    BY DEF popBack, Main, Inv, MainInv
  <2> QED
    BY <1>13, <2>2, <2>3, <2>4
    DEF transportReceive, Available, getBack, LoadFront, LoadFill, BackOfFront, BackOfFill,
        Back, CopyLength, CopyData, popBack, PopLoad, ring
<1>14. CASE UNCHANGED vars
  <2>1. UNCHANGED air
    BY <1>14 DEF vars, air, OnItsWay
  <2> QED
    BY <1>4, <1>14, <2>1 DEF vars
<1>15. CASE \E m \in Messages : Arrive(m)
  BY <1>5, <1>15 DEF Fifo!ANext
<1> QED
  BY <1>6, <1>7, <1>8, <1>9, <1>10, <1>11, <1>12, <1>13, <1>14, <1>15 DEF Next, irqHandler

(* The interrupt handler, the ring and transportReceive implement a lossy  *)
(* first-in-first-out queue: whole messages, in order, lost only when the  *)
(* ring is full (MyTransportRF24.cpp:43-59, 126-134).                      *)
THEOREM FifoCorrect == ASSUME Atomic PROVE Spec => ImplementsFifo
<1>1. Inv /\ Inv' /\ [Next]_vars => [Fifo!ANext]_(Fifo!avars)
  BY StepRefines
<1> QED
  BY InitRefines, Invariance, <1>1, PTL DEF Spec, ImplementsFifo, Fifo!ASpec
=============================================================================
