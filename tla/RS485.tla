------------------------------- MODULE RS485 -------------------------------
(***************************************************************************)
(* A node on a serial line (hal/transport/MyTransportRS485.cpp).  It looks *)
(* for frames in what it hears, byte by byte, whenever its main program    *)
(* calls transportAvailable or tries to send; a frame found is announced   *)
(* by _packet_received, and its bytes stay in the only buffer until        *)
(* transportReceive copies them.  Nothing is acknowledged.                 *)
(*                                                                         *)
(* The other stations run the same code, and one frame follows another on  *)
(* the line.  Its bytes pass unheard while the node drives the line, and   *)
(* those that come when the UART is full are dropped; interference, or two *)
(* other stations that write at the same time, garble a byte.  A byte      *)
(* takes about a millisecond on the line, so that a node that reads has    *)
(* emptied its UART before the next.                                       *)
(***************************************************************************)
EXTENDS Integers, Sequences

CONSTANTS NodeId,     \* _nodeId
          Broadcast,  \* BROADCAST_ADDRESS
          Frames,     \* what the other stations send: [to, from, data]
          MaxLen,     \* MY_RS485_MAX_MESSAGE_LENGTH, the size of _data
          RxSize,     \* receive buffer of the UART
          Noise,      \* what may be heard of a garbled byte
          MaxSpoilt,  \* bound: bytes garbled or dropped, and stretches unheard
          Tries       \* timeout in transportSend

Byte == 0 .. 255
FrameType == [to : Byte, from : Byte \ {NodeId, Broadcast}, data : Seq(Byte)]

ASSUME FramesAssumption == /\ NodeId \in Byte \ {Broadcast} /\ Broadcast \in Byte /\ Noise \subseteq Byte
                           /\ Frames \subseteq FrameType
                           /\ \A f \in Frames : f.to # f.from /\ Len(f.data) <= MaxLen
ASSUME BoundsAssumption == MaxLen \in Byte /\ RxSize \in Nat /\ MaxSpoilt \in Nat /\ Tries \in Nat \ {0}

SOH == 1
STX == 2
ETX == 3
EOT == 4
ICSC_SYS_PACK == 88

VARIABLES rec,      \* reception state machine: _header, _recPhase, _recPos ...
          data,     \* _data
          packet,   \* _packet_from, _packet_len, _packet_received
          rx,       \* bytes in the UART, not read yet
          line,     \* bytes of the frame on the line that are still to come
          pc,       \* where the main program is in the transport
          timeout,  \* tries left in transportSend
          follows,  \* (history) the frame, and how much of it, read from its first byte
          torn,     \* (history) bytes were stored since the packet was announced
          spoilt    \* (history) how many there were

vars == <<rec, data, packet, rx, line, pc, timeout, follows, torn, spoilt>>
receiver == <<rec, data, packet, follows, torn>>

Sum(s) == LET cs[i \in 0 .. Len(s)] == IF i = 0 THEN 0 ELSE (cs[i - 1] + s[i]) % 256
          IN  cs[Len(s)]
Inner(f) == <<f.to, f.from, ICSC_SYS_PACK, Len(f.data)>>

(* _recCalcCS after i bytes of data.                                       *)
Calc(f, i) == Sum(Inner(f) \o SubSeq(f.data, 1, i))

Encode(f) == LET cs == Sum(Inner(f) \o f.data) IN
             <<SOH>> \o Inner(f) \o <<STX>> \o f.data \o <<ETX, cs, EOT>>

(* A byte on the line; of and at (history) say whose it is.                *)
OnLine(b, f, i) == [byte |-> b, of |-> f, at |-> i]
NoFrame == [from |-> Broadcast, to |-> Broadcast, data |-> <<>>]
Bytes(f) == [i \in DOMAIN Encode(f) |-> OnLine(Encode(f)[i], f, i)]

----------------------------------------------------------------------------
(* _serialProcess: what one byte does to the state machine                 *)
Reset(r) == [header |-> r.header, phase |-> 0, pos |-> 0, len |-> 0, sender |-> r.sender,
             command |-> 0, cs |-> 0, calc |-> 0]

HeaderComplete(h) == h[1] = SOH /\ h[6] = STX /\ h[2] # h[3]
ForMe_Anyone(to, from) == from # NodeId
ForMe(to, from) == from # NodeId /\ to \in {NodeId, Broadcast}

FindHeader(r, b) ==
  LET h == Append(Tail(r.header), b)
      s == [r EXCEPT !.header = h]
  IN IF ~HeaderComplete(h) THEN s
     ELSE IF ~ForMe(h[2], h[3]) THEN [Reset(s) EXCEPT !.sender = h[3]]
     ELSE [header |-> h, phase |-> IF h[5] = 0 THEN 2 ELSE 1, pos |-> 0, len |-> h[5],
           sender |-> h[3], command |-> h[4], cs |-> r.cs, calc |-> (h[2] + h[3] + h[4] + h[5]) % 256]

StoreData_Unsummed(r, b) ==
  [r EXCEPT !.pos = @ + 1, !.phase = IF r.pos + 1 = r.len THEN 2 ELSE 1]
StoreData_OneMore(r, b) ==
  [r EXCEPT !.pos = @ + 1, !.calc = (@ + b) % 256, !.phase = IF r.pos = r.len THEN 2 ELSE 1]
StoreData(r, b) ==
  [r EXCEPT !.pos = @ + 1, !.calc = (@ + b) % 256, !.phase = IF r.pos + 1 = r.len THEN 2 ELSE 1]

ExpectEtx(r, b) == IF b = ETX THEN [r EXCEPT !.phase = 3] ELSE Reset(r)
KeepChecksum(r, b) == [r EXCEPT !.cs = b, !.phase = 4]

Fed(r, b) == CASE r.phase = 0 -> FindHeader(r, b)
               [] r.phase = 1 -> StoreData(r, b)
               [] r.phase = 2 -> ExpectEtx(r, b)
               [] r.phase = 3 -> KeepChecksum(r, b)
               [] r.phase = 4 -> Reset(r)

Announces_Unchecked(r, b) == r.phase = 4 /\ b = EOT /\ r.command = ICSC_SYS_PACK
Announces(r, b) == r.phase = 4 /\ b = EOT /\ r.cs = r.calc /\ r.command = ICSC_SYS_PACK

(* (history) The first byte of a frame, met while looking for a header, or *)
(* the next one of the frame followed.                                     *)
Followed(x) == IF \/ x.at = 1 /\ rec.phase = 0
                  \/ x.at > 1 /\ x.at = follows.at + 1 /\ x.of = follows.of
               THEN [of |-> x.of, at |-> x.at] ELSE [of |-> NoFrame, at |-> 0]

Reading == pc \in {"available", "look", "linger"}

(* _data[_recPos++] = inch: nothing compares the length heard with the     *)
(* size of _data.  A byte behind its end lands in one of the variables     *)
(* declared there, or in memory that this module does not use.             *)
Overruns == rec.phase = 1 /\ rec.pos >= MaxLen
Behind(b) == {packet, [packet EXCEPT !.len = b], [packet EXCEPT !.from = b],
              [packet EXCEPT !.received = (b # 0)]}

(* One round of the loop in _serialProcess, which ends with a frame or     *)
(* when there is no byte left.  transportAvailable returning true, the     *)
(* main program calls transportReceive.                                    *)
Polled(received) == IF received THEN "take" ELSE "idle"

Read ==
  /\ Reading
  /\ LET b == Head(rx).byte
         stores == rec.phase = 1
         announces == Announces(rec, b)
     IN /\ rec' = Fed(rec, b)
        /\ data' = IF stores /\ ~Overruns THEN [data EXCEPT ![rec.pos] = b] ELSE data
        /\ packet' \in IF announces THEN {[from |-> rec.sender, len |-> rec.len, received |-> TRUE]}
                       ELSE IF Overruns THEN Behind(b) ELSE {packet}
        /\ torn' = (~announces /\ (torn \/ stores))
  /\ follows' = Followed(Head(rx))
  /\ rx' = Tail(rx)
  /\ pc' = IF rec.phase # 4 /\ rx' # <<>> THEN pc
           ELSE IF pc = "available" THEN Polled(packet'.received) ELSE "delay"
  /\ UNCHANGED <<line, timeout, spoilt>>

----------------------------------------------------------------------------
(* The main program: transportAvailable and transportReceive               *)
Goto(l) == pc' = l /\ UNCHANGED <<receiver, rx, line, spoilt>>

Poll == /\ pc = "idle"
        /\ Goto(IF rx # <<>> THEN "available" ELSE Polled(packet.received))
        /\ UNCHANGED timeout

Taken == [i \in 1 .. packet.len |-> data[i - 1]]

Receive == /\ pc = "take"
           /\ packet' = [packet EXCEPT !.received = FALSE]
           /\ pc' = "idle"
           /\ UNCHANGED <<rec, data, follows, torn, rx, line, timeout, spoilt>>

(* transportSend: bytes are read also during the random delay.             *)
Send == pc = "idle" /\ Goto("try") /\ timeout' = Tries
Look == pc = "try" /\ rx # <<>> /\ Goto("look") /\ UNCHANGED timeout
Linger == pc = "delay" /\ rx # <<>> /\ Goto("linger") /\ UNCHANGED timeout

Waited_Uncounted == pc = "delay" /\ Goto("try") /\ UNCHANGED timeout
Waited_NoEnd == pc = "delay" /\ Goto("try") /\ timeout' = timeout - 1
Waited == /\ pc = "delay"
          /\ timeout' = timeout - 1
          /\ Goto(IF timeout' = 0 THEN "idle" ELSE "try")

Write == pc = "try" /\ rx = <<>> /\ Goto("write") /\ UNCHANGED timeout
Written == pc = "write" /\ Goto("idle") /\ UNCHANGED timeout

----------------------------------------------------------------------------
(* The line: another station begins a frame; a byte comes.                 *)
Begin == /\ line = <<>>
         /\ \E f \in Frames : line' = Bytes(f)
         /\ UNCHANGED <<receiver, rx, pc, timeout, spoilt>>

Spoil == spoilt < MaxSpoilt /\ spoilt' = spoilt + 1

Heard == /\ line # <<>> /\ pc # "write" /\ ~Reading /\ Len(rx) < RxSize
         /\ \/ rx' = Append(rx, Head(line)) /\ UNCHANGED spoilt
            \/ \E noise \in Noise : rx' = Append(rx, OnLine(noise, NoFrame, 0)) /\ Spoil
         /\ line' = Tail(line)
         /\ UNCHANGED <<receiver, pc, timeout>>
Dropped == /\ line # <<>> /\ pc # "write" /\ ~Reading /\ Len(rx) = RxSize
           /\ line' = Tail(line)
           /\ Spoil
           /\ UNCHANGED <<receiver, rx, pc, timeout>>
Unheard == /\ line # <<>> /\ pc = "write"
           /\ \E i \in DOMAIN line : line' = SubSeq(line, i + 1, Len(line))
           /\ Spoil
           /\ UNCHANGED <<receiver, rx, pc, timeout>>

----------------------------------------------------------------------------
Init == /\ rec = [header |-> [i \in 1 .. 6 |-> 0], phase |-> 0, pos |-> 0, len |-> 0,
                  sender |-> 0, command |-> 0, cs |-> 0, calc |-> 0]
        /\ data = [i \in 0 .. MaxLen - 1 |-> 0]
        /\ packet = [from |-> 0, len |-> 0, received |-> FALSE]
        /\ rx = <<>>
        /\ line = <<>>
        /\ pc = "idle"
        /\ timeout = 0
        /\ follows = [of |-> NoFrame, at |-> 0]
        /\ torn = FALSE
        /\ spoilt = 0

transportSend == Look \/ Linger \/ Waited \/ Write \/ Written
Program == Read \/ Receive \/ transportSend
Line == Begin \/ Heard \/ Dropped \/ Unheard

Next == Poll \/ Send \/ Program \/ Line
Spec == Init /\ [][Next]_vars

(* The processor runs; the sketch polls between its sends; the random      *)
(* delay, at most 19 rounds of its loop, ends.                             *)
FairSpec == Spec /\ WF_vars(Program) /\ SF_vars(Poll) /\ SF_vars(Waited)

----------------------------------------------------------------------------
TypeOK == /\ rec \in [header : [1 .. 6 -> Byte], phase : 0 .. 4, pos : Byte, len : Byte,
                      sender : Byte, command : Byte, cs : Byte, calc : Byte]
          /\ data \in [0 .. MaxLen - 1 -> Byte]
          /\ packet \in [from : Byte, len : Byte, received : BOOLEAN]
          /\ \A s \in {rx, line} : s \in Seq([byte : Byte, of : Frames \cup {NoFrame}, at : Nat])
          /\ Len(rx) <= RxSize
          /\ pc \in {"idle", "available", "take", "try", "look", "delay", "linger", "write"}
          /\ timeout \in 0 .. Tries
          /\ follows \in [of : Frames \cup {NoFrame}, at : Nat]
          /\ torn \in BOOLEAN
          /\ spoilt \in 0 .. MaxSpoilt

Message == [from |-> packet.from, data |-> Taken]
MessageOf(f) == [from |-> f.from, data |-> f.data]
ToMe(f) == f.to \in {NodeId, Broadcast}

(* A frame for the node that arrives whole, and whose first byte finds the *)
(* node looking for a header, is announced with its last byte, whatever    *)
(* was on the line before and whichever values its bytes have              *)
(* (MyTransportRS485.cpp:136-231), but for an address or a length STX:     *)
(* such a byte may end what looks like a header that begins before it.     *)
Plain(f) == STX \notin {f.to, f.from, Len(f.data)}
Ends == follows' # follows /\ follows'.at = Len(Encode(follows'.of))
WholeFrameAnnounced ==
  [][Ends /\ ToMe(follows'.of) /\ Plain(follows'.of) =>
       packet'.received /\ Message' = MessageOf(follows'.of)]_vars

(* What transportReceive copies is a message sent to this node, if no byte *)
(* was stored since it was announced (lines 180-187, 352-361).             *)
Genuine == packet.len <= MaxLen /\ \E f \in Frames : ToMe(f) /\ Message = MessageOf(f)
UntornIsGenuine == pc = "take" /\ ~torn => Genuine

(* "If all the data is in the right format, and the calculated checksum    *)
(* matches" (line 123): every message taken is one that was sent.  Not so  *)
(* of torn ones.                                                           *)
TakenIsGenuine == pc = "take" => Genuine

(* "Read in "_recLen" number of bytes and store them in the _data array."  *)
(* (line 178): in it, and not behind its end.  Not so of garbled lengths.  *)
StoredInBuffer == ~Overruns

(* transportSend returns, however busy the line (lines 245-261), and so do *)
(* the other calls.                                                        *)
SendReturns == []<>(pc = "idle")

(* A node that lost its place finds it again: while frames for it keep     *)
(* coming, packets are announced, whatever was taken for a header in bytes *)
(* that were disturbed, and however many bytes it swallowed for it         *)
(* (lines 145-186).  That holds where what ends a header ends nothing      *)
(* else: in frames that bear STX there only (Marked).  With others it may  *)
(* take their data for headers for ever.                                   *)
Marked(f) == \A i \in DOMAIN Encode(f) : Encode(f)[i] = STX => i = 6
Comes == line = <<>> /\ line' # <<>> /\ ToMe(line'[1].of)
Found == Read /\ Announces(rec, Head(rx).byte)
HearsAgain ==
  (\A f \in Frames : Marked(f)) => ([]<><<Comes>>_vars => []<><<Found>>_vars)
=============================================================================
