--------------------------- MODULE EthernetServer ---------------------------
(***************************************************************************)
(* The server of the Linux gateway (drivers/Linux/EthernetServer.cpp,      *)
(* drivers/Linux/EthernetClient.cpp) and the controllers that connect to   *)
(* it.  A client object is a copy of a file descriptor: the server's list  *)
(* and the gateway's slots hold copies of the same one, and each of them   *)
(* may find out first that the connection has ended, or close the file.    *)
(*                                                                         *)
(* The functions here make one state of the server of another; the module  *)
(* EthernetGateway says in which order they are called.  Left out:         *)
(* new_clients, which is empty whenever hasClient is called, because the   *)
(* gateway takes a client as soon as there is one.                         *)
(***************************************************************************)
EXTENDS Naturals, FiniteSets, Sequences, SequencesExt

CONSTANTS Conns,        \* connections that controllers make
          Closing, Breaking,  \* those that their controllers close, or break off
          Slow,         \* those whose controllers may read too slowly
          NoConn,       \* no connection
          MaxFile,      \* bound: file descriptors
          max_clients   \* MY_GATEWAY_MAX_CLIENTS

ASSUME ServerAssumption == /\ NoConn \notin Conns /\ Closing \cup Breaking \cup Slow \subseteq Conns
                           /\ MaxFile \in Nat /\ max_clients \in Nat \ {0}

Files == 1 .. MaxFile
_sock == 0   \* stands for -1, no socket

VARIABLES tcp,      \* what the kernel knows of a connection
          unread,   \* what came in on it and was not read
          file,     \* the connection behind a file descriptor
          clients,  \* EthernetServer::clients
          backlog   \* connections that wait to be accepted

(* A connection is open until its controller closes it ("fin": nothing     *)
(* more comes) or breaks it ("error", which the next call that looks is    *)
(* told, once; then "reset").                                              *)
Tcp == {"none", "open", "fin", "error", "reset"}

Server == [tcp : [Conns -> Tcp], unread : [Conns -> Seq(Nat)],
           file : [Files -> Conns \cup {NoConn}], clients : Seq(Files), backlog : Seq(Conns)]
server == [tcp |-> tcp, unread |-> unread, file |-> file, clients |-> clients, backlog |-> backlog]
Becomes(s) == /\ tcp' = s.tcp /\ unread' = s.unread /\ file' = s.file
              /\ clients' = s.clients /\ backlog' = s.backlog

ServerInit == /\ tcp = [c \in Conns |-> "none"] /\ unread = [c \in Conns |-> <<>>]
              /\ file = [f \in Files |-> NoConn]
              /\ clients = <<>> /\ backlog = <<>>

----------------------------------------------------------------------------
(* EthernetClient                                                          *)
Holds(s, f) == f # _sock /\ s.file[f] # NoConn
available(s, f) == Holds(s, f) /\ s.unread[s.file[f]] # <<>>

(* connected: recv(MSG_PEEK) fails on a file that was closed and for an    *)
(* error that nobody was told; at the end of a connection it returns 0.    *)
connected(s, f) == Holds(s, f) /\ (available(s, f) \/ s.tcp[s.file[f]] # "error")
Looked(s, f) == IF Holds(s, f) /\ ~connected(s, f) THEN [s EXCEPT !.tcp[s.file[f]] = "reset"] ELSE s

(* write: it does not wait, and a failure closes the file, perhaps after a *)
(* part of the message was sent.  late: the controllers that have no room  *)
(* for the message, because they read slowly, or that answer one sent      *)
(* after they closed with a reset.                                         *)
Late == SUBSET {c \in Conns : tcp[c] = "fin" \/ (tcp[c] = "open" /\ c \in Slow)}

Written(s, f, late) ==
  LET c == s.file[f]
      failed == [s EXCEPT !.tcp[c] = "reset", !.file[f] = NoConn]
  IN  CASE s.tcp[c] = "open" -> IF c \in late THEN failed ELSE s
        [] s.tcp[c] = "fin"  -> IF c \in late THEN [s EXCEPT !.tcp[c] = "reset"] ELSE s
        [] OTHER             -> failed

(* stop: the file is closed only if the connection does not end within a   *)
(* second (slow).  An error that nobody was told is still to be told.      *)
Stopped(s, f, slow) ==
  IF ~Holds(s, f) THEN s
  ELSE [s EXCEPT !.file[f] = IF slow /\ s.tcp[@] \in {"open", "fin"} THEN NoConn ELSE @,
                 !.tcp[s.file[f]] = IF @ = "error" THEN @ ELSE "reset"]

----------------------------------------------------------------------------
(* EthernetServer                                                          *)
(* clients[i] = clients.back(); clients.pop_back()                         *)
Without_LastLost(list, i) == Front(list)
Without(list, i) == Front([list EXCEPT ![i] = Last(list)])

(* write: one turn of its loop for each client on the list; i: the next,   *)
(* to: the files written to.                                               *)
WriteTurn(w, late) ==
  LET f == w.s.clients[w.i] IN
  IF connected(w.s, f)
  THEN [s |-> Written(w.s, f, late), i |-> w.i + 1, to |-> w.to \cup {f}]
  ELSE [w EXCEPT !.s = [Looked(w.s, f) EXCEPT !.clients = Without(@, w.i)]]

Sent(s, late) ==
  LET w[k \in 0 .. Len(s.clients)] ==
        IF k = 0 THEN [s |-> s, i |-> 1, to |-> {}] ELSE WriteTurn(w[k - 1], late)
  IN  w[Len(s.clients)]
Write(s, late) == Sent(s, late).s

(* _accept: with as many clients as slots, one that is dead goes.          *)
Dead(s) == {i \in DOMAIN s.clients : ~connected(s, s.clients[i])}
Cleared(s) ==
  IF Len(s.clients) # max_clients \/ Dead(s) = {} THEN s
  ELSE LET i == CHOOSE j \in Dead(s) : \A k \in Dead(s) : j <= k
       IN  [Looked(s, s.clients[i]) EXCEPT !.clients = Without(@, i)]

FreeFiles(s) == {f \in Files : s.file[f] = NoConn}
(* hasClient and available: the client, on the lowest free file; or none.  *)
CanAccept(s) == /\ Len(s.clients) # max_clients
                /\ s.backlog # <<>> /\ FreeFiles(s) # {}
Lowest(s) == CHOOSE f \in FreeFiles(s) : \A g \in FreeFiles(s) : f <= g
Accepted(s) == [s EXCEPT !.file[Lowest(s)] = Head(s.backlog),
                         !.clients = Append(@, Lowest(s)),
                         !.backlog = Tail(@)]

----------------------------------------------------------------------------
(* The controllers                                                         *)
Connect(c) == /\ tcp[c] = "none"
              /\ tcp' = [tcp EXCEPT ![c] = "open"]
              /\ backlog' = Append(backlog, c)
              /\ UNCHANGED <<unread, file, clients>>

Close(c) == /\ c \in Closing /\ tcp[c] = "open"
            /\ tcp' = [tcp EXCEPT ![c] = "fin"]
            /\ UNCHANGED <<unread, file, clients, backlog>>

Break(c) == /\ c \in Breaking /\ tcp[c] = "open"
            /\ tcp' = [tcp EXCEPT ![c] = "error"]
            /\ UNCHANGED <<unread, file, clients, backlog>>

TypeChar(c, p) == /\ tcp[c] = "open"
                  /\ unread' = [unread EXCEPT ![c] = Append(@, p)]
                  /\ UNCHANGED <<tcp, file, clients, backlog>>
=============================================================================
