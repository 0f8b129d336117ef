-------------------------- MODULE EthernetGateway --------------------------
(***************************************************************************)
(* The Ethernet gateway on Linux: controllers in slots                     *)
(* (core/MyGatewayTransportEthernet.cpp), the commands they send           *)
(* (core/MyGatewayTransport.cpp), inclusion mode                           *)
(* (core/MyInclusionMode.cpp) and the server below (EthernetServer).       *)
(*                                                                         *)
(* A step of the main loop is what it does for one slot; controllers       *)
(* connect, type, close and break off between any two.  A command is the   *)
(* last character of its line; left out is what the core, the sketch and   *)
(* the transport do with a command for them.                               *)
(***************************************************************************)
EXTENDS EthernetServer

CONSTANTS Script,   \* what each controller types: characters and ends of lines
          MY_GATEWAY_MAX_RECEIVE_LENGTH

Command == {"on", "off", "query", "other"}   \* the ends of lines, by what the line says

ASSUME GatewayAssumption ==
  /\ \A c \in Conns : Script[c] \in Seq({"x"} \cup Command)
  /\ MY_GATEWAY_MAX_RECEIVE_LENGTH \in Nat \ {0}

VARIABLES typed,            \* characters each controller has typed
          slot,             \* clients[i]._sock of the gateway
          clientsConnected,
          inputString,      \* the characters of an incomplete line
          full,             \* allSlotsOccupied
          at, turn,         \* where the main loop is, and for which slot
          inclusionMode, over    \* over: MY_INCLUSION_MODE_DURATION has passed

gateway == <<slot, clientsConnected, inputString, full>>
inclusion == <<inclusionMode, over>>
vars == <<tcp, unread, file, clients, backlog, typed, slot, clientsConnected, inputString,
          full, at, turn, inclusionMode, over>>

Slots == 1 .. max_clients
Char == Conns \X Nat

GoTo(place, i) == at' = place /\ turn' = i
NextSlot(here, after) == IF turn < max_clients THEN GoTo(here, turn + 1) ELSE GoTo(after, 1)

----------------------------------------------------------------------------
(* inclusionModeSet, inclusionProcess                                      *)
ModeSet(mode, s, late) ==
  IF mode = inclusionMode THEN UNCHANGED inclusion /\ Becomes(s)
  ELSE /\ inclusionMode' = mode
       /\ over' = IF mode THEN FALSE ELSE over
       /\ Becomes(Write(s, late))

InclusionProcess_Held ==
  /\ at = "inclusion" /\ GoTo("check", 1)
  /\ \E late \in Late : \E pressed \in BOOLEAN :
       ModeSet(pressed \/ (inclusionMode /\ ~over), server, late)
  /\ full' = TRUE
  /\ UNCHANGED <<typed, slot, clientsConnected, inputString>>
InclusionProcess ==
  /\ at = "inclusion" /\ GoTo("check", 1)
  /\ \E late \in Late : \E pressed \in BOOLEAN :
       IF inclusionMode THEN ModeSet(~over, server, late) ELSE ModeSet(pressed, server, late)
  /\ full' = TRUE
  /\ UNCHANGED <<typed, slot, clientsConnected, inputString>>

(* transportProcess and the sketch: messages for the controllers.          *)
TransportProcess ==
  /\ at = "transport"
  /\ \/ (\E late \in Late : Becomes(Write(server, late))) /\ UNCHANGED <<at, turn>>
     \/ Becomes(server) /\ GoTo("inclusion", 1)
  /\ UNCHANGED <<typed, gateway, inclusion>>

----------------------------------------------------------------------------
(* gatewayTransportAvailable: the first loop, for one slot.  A new client  *)
(* is greeted and presented to, by the sketch also (more).                 *)
BuffersWith_Kept(i) == inputString
BuffersWith(i) == [inputString EXCEPT ![i] = <<>>]
Greeted(s, late, later, more) ==
  LET presented == Write(Write(Accepted(s), late), later)
  IN  IF more THEN Write(presented, later) ELSE presented

Check ==
  /\ at = "check" /\ NextSlot("check", "reject")
  /\ \E late \in Late : \E later \in Late : \E more \in BOOLEAN :
       LET i == turn
           s == Looked(server, slot[i])
           gone == ~connected(server, slot[i])
           t == IF gone THEN Cleared(s) ELSE s
           new == gone /\ CanAccept(t)
           u == IF new THEN Greeted(t, late, later, more) ELSE t
           sock == IF new THEN Lowest(t)
                   ELSE IF gone /\ clientsConnected[i] THEN _sock ELSE slot[i]
       IN  /\ Becomes(Looked(u, sock))
           /\ slot' = [slot EXCEPT ![i] = sock]
           /\ inputString' = IF new THEN BuffersWith(i) ELSE inputString
           /\ clientsConnected' = [clientsConnected EXCEPT ![i] = connected(u, sock)]
           /\ full' = (full /\ connected(u, sock))
  /\ UNCHANGED <<typed, inclusion>>

(* No slot is free: one more client is turned away.                        *)
Reject ==
  /\ at = "reject" /\ GoTo("read", 1)
  /\ \E slow \in BOOLEAN :
       LET t == IF full THEN Cleared(server) ELSE server IN
       Becomes(IF full /\ CanAccept(t) THEN Stopped(Accepted(t), Lowest(t), slow) ELSE t)
  /\ UNCHANGED <<typed, gateway, inclusion>>

----------------------------------------------------------------------------
(* _readFromClient, for one character.                                     *)
Taken(i) == LET c == file[slot[i]] IN [server EXCEPT !.unread[c] = Tail(@)]
Reads(i) == at = "read" /\ turn = i /\ available(server, slot[i])
NextChar(i) == <<file[slot[i]], Head(unread[file[slot[i]]])>>
Room_OffByOne(i) == Len(inputString[i]) <= MY_GATEWAY_MAX_RECEIVE_LENGTH - 1
Room(i) == Len(inputString[i]) < MY_GATEWAY_MAX_RECEIVE_LENGTH - 1
Says(ch) == Script[ch[1]][ch[2]]

ReadChar(i) ==
  /\ Reads(i) /\ Room(i) /\ Says(NextChar(i)) = "x"
  /\ inputString' = [inputString EXCEPT ![i] = Append(@, NextChar(i))]
  /\ Becomes(Taken(i))
  /\ UNCHANGED <<typed, slot, clientsConnected, full, at, turn, inclusion>>

(* Thrown away, with the character that does not fit.                      *)
ReadTooLong(i) ==
  /\ Reads(i) /\ ~Room(i)
  /\ inputString' = [inputString EXCEPT ![i] = <<>>]
  /\ Becomes(Taken(i))
  /\ NextSlot("read", "transport")
  /\ UNCHANGED <<typed, slot, clientsConnected, full, inclusion>>

(* The line as a whole says what the controller meant; what else comes out *)
(* as a line may be anything, if it parses.                                *)
IsLine(line) ==
  \E c \in Conns : \E from, to \in DOMAIN Script[c] :
    /\ from < to /\ (from = 1 \/ Script[c][from - 1] \in Command)
    /\ Script[c][to] \in Command /\ \A p \in from .. to - 1 : Script[c][p] = "x"
    /\ line = [p \in 1 .. to - from + 1 |-> <<c, from + p - 1>>]
Parsed(line) == IF IsLine(line) THEN {Says(Last(line))} ELSE Command

(* gatewayTransportProcess.  acked: the sender asked for an echo.          *)
Process(command, s) ==
  \E late \in Late : \E later \in Late : \E acked \in BOOLEAN :
    LET t == IF acked THEN Write(s, late) ELSE s IN
    CASE command = "on"    -> ModeSet(TRUE, t, later)
      [] command = "off"   -> ModeSet(FALSE, t, later)
      [] command = "query" -> Becomes(Write(t, later)) /\ UNCHANGED inclusion
      [] command = "other" -> Becomes(t) /\ UNCHANGED inclusion

ReadEnd(i) ==
  LET line == Append(inputString[i], NextChar(i)) IN
  /\ Reads(i) /\ Room(i) /\ Says(NextChar(i)) \in Command
  /\ inputString' = [inputString EXCEPT ![i] = <<>>]
  /\ \/ /\ \E command \in Parsed(line) : Process(command, Taken(i))
        /\ GoTo("transport", 1)
     \/ /\ ~IsLine(line)
        /\ Becomes(Taken(i))
        /\ UNCHANGED <<inclusion, at, turn>>
  /\ UNCHANGED <<typed, slot, clientsConnected, full>>

ReadNothing_Leaves ==
  /\ at = "read" /\ ~available(server, slot[turn])
  /\ GoTo("transport", 1)
  /\ Becomes(Looked(server, slot[turn]))
  /\ UNCHANGED <<typed, gateway, inclusion>>
ReadNothing ==
  /\ at = "read" /\ ~available(server, slot[turn])
  /\ NextSlot("read", "transport")
  /\ Becomes(Looked(server, slot[turn]))
  /\ UNCHANGED <<typed, gateway, inclusion>>

----------------------------------------------------------------------------
(* The controllers, and time.                                              *)
Type(c) == /\ typed[c] < Len(Script[c])
           /\ typed' = [typed EXCEPT ![c] = @ + 1]
           /\ TypeChar(c, typed[c] + 1)
Controller(c) ==
  /\ \/ Type(c)
     \/ (Connect(c) \/ Close(c) \/ Break(c)) /\ UNCHANGED typed
  /\ UNCHANGED <<gateway, at, turn, inclusion>>

Tick == /\ inclusionMode /\ ~over /\ over' = TRUE
        /\ Becomes(server) /\ UNCHANGED <<typed, gateway, at, turn, inclusionMode>>

Init == /\ ServerInit
        /\ typed = [c \in Conns |-> 0]
        /\ slot = [i \in Slots |-> _sock]
        /\ clientsConnected = [i \in Slots |-> FALSE]
        /\ inputString = [i \in Slots |-> <<>>]
        /\ full = TRUE /\ at = "inclusion" /\ turn = 1
        /\ inclusionMode = FALSE /\ over = FALSE

MainLoop == \/ InclusionProcess \/ Check \/ Reject \/ ReadNothing \/ TransportProcess
            \/ \E i \in Slots : ReadChar(i) \/ ReadTooLong(i) \/ ReadEnd(i)
Next == MainLoop \/ Tick \/ \E c \in Conns : Controller(c)

Spec == Init /\ [][Next]_vars
(* The main loop goes round: some step of it is always enabled and what    *)
(* controllers type is finite, so that this is WF_vars(MainLoop), which    *)
(* TLC is slow to evaluate.  Time passes.                                  *)
FairSpec == Spec /\ []<><<TRUE>>_<<at, turn>> /\ WF_vars(Tick)

----------------------------------------------------------------------------
TypeOK ==
  /\ server \in Server
  /\ typed \in [Conns -> Nat] /\ \A c \in Conns : typed[c] <= Len(Script[c])
  /\ slot \in [Slots -> Files \cup {_sock}]
  /\ clientsConnected \in [Slots -> BOOLEAN]
  /\ inputString \in [Slots -> Seq(Char)]
  /\ \A i \in Slots : Len(inputString[i]) < MY_GATEWAY_MAX_RECEIVE_LENGTH
  /\ full \in BOOLEAN /\ turn \in Slots
  /\ at \in {"inclusion", "check", "reject", "read", "transport"}
  /\ inclusionMode \in BOOLEAN /\ over \in BOOLEAN
  /\ Len(clients) <= max_clients

(* The buffer of a slot holds what its controller typed last, in one piece *)
(* and without the end of a line, and nothing of a controller that held    *)
(* the slot before or of a line that was thrown away                       *)
(* (MyGatewayTransportEthernet.cpp:247, 353), unless the slots share it    *)
(* (see OneSlot).                                                          *)
HeldBy(i, c) == slot[i] # _sock /\ file[slot[i]] = c
Shared(c) == \E i, j \in Slots : i # j /\ HeldBy(i, c) /\ HeldBy(j, c)
Alive(c) == tcp[c] \in {"open", "fin"}
LastTyped(c, n) == [p \in 1 .. n |-> <<c, typed[c] - Len(unread[c]) - n + p>>]
BufferIsOwn ==
  \A i \in Slots, c \in Conns :
    HeldBy(i, c) /\ Alive(c) /\ ~Shared(c)
                 => /\ inputString[i] = LastTyped(c, Len(inputString[i]))
                    /\ \A p \in DOMAIN inputString[i] : Says(inputString[i][p]) = "x"

(* Whoever holds a slot with an open connection is written to whatever     *)
(* the gateway sends, and loses the connection by it only if it has no     *)
(* room for the message: the server's list and the slots agree, although   *)
(* connections end for the one before they do for the other                *)
(* (EthernetServer.cpp:142, 181).  Not that it gets every message: one     *)
(* that reads slowly misses the one with which it is dropped.              *)
HolderIsServed ==
  \A late \in Late, i \in Slots :
    LET f == slot[i]
        sent == Sent(server, late)
    IN  f # _sock /\ file[f] # NoConn /\ tcp[file[f]] = "open"
          => /\ f \in sent.to
             /\ sent.s.file[f] = IF file[f] \in late THEN NoConn ELSE file[f]

(* "If the server has a new client connection it will be assigned to a     *)
(* free slot." (MyGatewayTransportEthernet.cpp:346): to one.               *)
OneSlot == \A c \in Conns : ~(tcp[c] = "open" /\ Shared(c))

(* What a controller typed is read while it holds a slot, however the      *)
(* others type.                                                            *)
EverythingRead == \A c \in Conns : []<>(unread[c] = <<>> \/ ~\E i \in Slots : HeldBy(i, c))

(* Inclusion mode ends (MyInclusionMode.cpp:61), also when commands turn   *)
(* it on again while it lasts.                                             *)
InclusionEnds == []<>~inclusionMode
=============================================================================
