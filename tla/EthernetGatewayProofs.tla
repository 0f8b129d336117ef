----------------------- MODULE EthernetGatewayProofs -----------------------
(***************************************************************************)
(* Proofs about EthernetServer and EthernetGateway, for all connections,   *)
(* numbers of slots and files, scripts and sizes of buffers: types, that   *)
(* buffers hold what their controllers typed, that lines are what they     *)
(* typed as one, and that who holds a slot is written to.                  *)
(***************************************************************************)
EXTENDS EthernetGateway, SequenceTheorems, Induction

-----------------------------------------------------------------------------
(* Sequences: an element more, an element less, one replaced.              *)
In(x, list) == \E i \in 1 .. Len(list) : list[i] = x

LEMMA Appended ==
  ASSUME NEW S, NEW list \in Seq(S), NEW x \in S
  PROVE  /\ Append(list, x) \in Seq(S) /\ Len(Append(list, x)) = Len(list) + 1
         /\ \A i \in 1 .. Len(list) : Append(list, x)[i] = list[i]
         /\ Append(list, x)[Len(list) + 1] = x
         /\ In(x, Append(list, x)) /\ \A y : In(y, list) => In(y, Append(list, x))
<1>1. /\ Append(list, x) \in Seq(S) /\ Len(Append(list, x)) = Len(list) + 1 /\ Len(list) \in Nat
      /\ \A i \in 1 .. Len(list) : Append(list, x)[i] = list[i]
      /\ Append(list, x)[Len(list) + 1] = x
  BY AppendProperties, LenProperties
<1>2. \A i \in 1 .. Len(list) : i \in 1 .. Len(list) + 1
  BY <1>1
<1>3. Len(list) + 1 \in 1 .. Len(list) + 1
  BY <1>1
<1> QED
  BY <1>1, <1>2, <1>3 DEF In

LEMMA Shortened ==
  ASSUME NEW S, NEW list \in Seq(S), list # <<>>
  PROVE  /\ Tail(list) \in Seq(S) /\ Head(list) \in S /\ Len(list) \in Nat \ {0}
         /\ Len(Tail(list)) = Len(list) - 1 /\ Head(list) = list[1]
         /\ \A i \in 1 .. Len(list) - 1 : Tail(list)[i] = list[i + 1]
<1>1. Len(list) \in Nat \ {0}
  BY EmptySeq, LenProperties
<1>2. Tail(list) \in Seq(S) /\ Len(Tail(list)) = Len(list) - 1 /\ Head(list) \in S
  BY HeadTailProperties
<1>3. \A i \in 1 .. Len(Tail(list)) : Tail(list)[i] = list[i + 1]
  BY HeadTailProperties, Zenon
<1> QED
  BY <1>1, <1>2, <1>3

LEMMA WithoutOne ==
  ASSUME NEW S, NEW list \in Seq(S), NEW i \in 1 .. Len(list)
  PROVE  /\ Without(list, i) \in Seq(S) /\ Len(Without(list, i)) = Len(list) - 1
         /\ \A k \in 1 .. Len(list) - 1 :
              Without(list, i)[k] = IF k = i THEN list[Len(list)] ELSE list[k]
         /\ \A x : In(x, list) /\ x # list[i] => In(x, Without(list, i))
<1> DEFINE n == Len(list)
           g == [list EXCEPT ![i] = list[n]]
<1>1. n \in Nat /\ n >= 1 /\ DOMAIN list = 1 .. n /\ \A k \in 1 .. n : list[k] \in S
  BY LenProperties, ElementOfSeq
<1>2. /\ g \in Seq(S) /\ Len(g) = n
      /\ \A k \in 1 .. n : g[k] = IF k = i THEN list[n] ELSE list[k]
  <2>1. g \in [1 .. n -> S] /\ \A k \in 1 .. n : g[k] = IF k = i THEN list[n] ELSE list[k]
    BY <1>1
  <2> HIDE DEF g
  <2>2. g \in Seq(S)
    BY <1>1, <2>1, SeqDef
  <2>3. DOMAIN g = 1 .. n /\ DOMAIN g = 1 .. Len(g) /\ Len(g) \in Nat
    BY <2>1, <2>2, LenProperties
  <2> QED
    BY <1>1, <2>1, <2>2, <2>3
<1>3. Without(list, i) = SubSeq(g, 1, n - 1)
  BY <1>2 DEF Without, Front, Last
<1> HIDE DEF g, n
<1>4. /\ SubSeq(g, 1, n - 1) \in Seq(S) /\ Len(SubSeq(g, 1, n - 1)) = n - 1
      /\ \A k \in 1 .. n - 1 : SubSeq(g, 1, n - 1)[k] = g[k]
  <2>1. 1 \in 1 .. Len(g) + 1 /\ n - 1 \in 0 .. Len(g) /\ 1 \in Int /\ n - 1 \in Int
        /\ \A k \in 1 .. n - 1 : k \in 1 .. n
    BY <1>1, <1>2
  <2>2. \A k \in 1 .. n - 1 : g[k] \in S
    BY <1>1, <1>2, <2>1
  <2>3. /\ SubSeq(g, 1, n - 1) \in Seq(S)
        /\ Len(SubSeq(g, 1, n - 1)) = IF 1 <= n - 1 THEN (n - 1) - 1 + 1 ELSE 0
        /\ \A k \in 1 .. (n - 1) - 1 + 1 : SubSeq(g, 1, n - 1)[k] = g[1 + k - 1]
    BY <1>2, <2>1, <2>2, SubSeqProperties
  <2>4. (n - 1) - 1 + 1 = n - 1 /\ \A k \in 1 .. n - 1 : 1 + k - 1 = k
    BY <1>1
  <2> QED
    BY <1>1, <2>3, <2>4
<1>5. ASSUME NEW k \in 1 .. n, list[k] # list[i]
      PROVE  \E j \in 1 .. n - 1 : SubSeq(g, 1, n - 1)[j] = list[k]
  <2>1. i \in 1 .. n /\ k # i
    BY <1>5 DEF n
  <2>2. CASE k = n
    <3>1. i \in 1 .. n - 1 /\ g[i] = list[n]
      BY <1>1, <1>2, <2>1, <2>2
    <3> QED
      BY <1>4, <2>2, <3>1
  <2>3. CASE k # n
    <3>1. k \in 1 .. n - 1 /\ g[k] = list[k]
      BY <1>1, <1>2, <2>1, <2>3
    <3> QED
      BY <1>4, <3>1
  <2> QED
    BY <2>2, <2>3
<1>6. \A k \in 1 .. n - 1 : SubSeq(g, 1, n - 1)[k] = IF k = i THEN list[n] ELSE list[k]
  BY <1>1, <1>2, <1>4
<1> QED
  BY <1>3, <1>4, <1>5, <1>6 DEF In, n

-----------------------------------------------------------------------------
(* What always holds of the server: a connection has one file, one that is *)
(* open is on the list, one that waits has none yet.                       *)
FilesApart(s) == \A f, g \in Files : s.file[f] # NoConn /\ s.file[f] = s.file[g] => f = g
ListComplete(s) ==
  \A f \in Files : s.file[f] # NoConn => /\ s.tcp[s.file[f]] # "none"
                                         /\ s.tcp[s.file[f]] = "open" => In(f, s.clients)
BacklogOK(s) ==
  \A i \in 1 .. Len(s.backlog) :
    /\ s.tcp[s.backlog[i]] # "none"
    /\ \A f \in Files : s.file[f] # s.backlog[i]
    /\ \A j \in 1 .. Len(s.backlog) : s.backlog[i] = s.backlog[j] => i = j
ServerOK(s) == /\ s \in Server /\ Len(s.clients) <= max_clients
               /\ FilesApart(s) /\ ListComplete(s) /\ BacklogOK(s)

(* What the objects' operations do to it, but for accept and stop:         *)
(* connections that have ended are found out, their files closed, and      *)
(* taken off the list.                                                     *)
TcpAged(s, t) ==
  \A c \in Conns : \/ t.tcp[c] = s.tcp[c]
                   \/ t.tcp[c] = "reset" /\ s.tcp[c] # "none"
FileAged(s, t) ==
  \A f \in Files : \/ t.file[f] = s.file[f]
                   \/ t.file[f] = NoConn /\ s.file[f] # NoConn /\ t.tcp[s.file[f]] = "reset"
ListAged(s, t) ==
  \A f \in Files : In(f, s.clients) /\ t.file[f] # NoConn /\ t.tcp[t.file[f]] = "open"
                     => In(f, t.clients)
Aged(s, t) == /\ t \in Server /\ t.unread = s.unread /\ t.backlog = s.backlog
              /\ Len(t.clients) <= Len(s.clients)
              /\ TcpAged(s, t) /\ FileAged(s, t) /\ ListAged(s, t)

LEMMA ServerTypes ==
  ASSUME NEW s \in Server
  PROVE  /\ s.tcp \in [Conns -> Tcp] /\ s.unread \in [Conns -> Seq(Nat)]
         /\ s.file \in [Files -> Conns \cup {NoConn}]
         /\ s.clients \in Seq(Files) /\ s.backlog \in Seq(Conns)
         /\ Len(s.clients) \in Nat /\ Len(s.backlog) \in Nat
         /\ \A i \in 1 .. Len(s.backlog) : s.backlog[i] \in Conns
         /\ \A i \in 1 .. Len(s.clients) : s.clients[i] \in Files
         /\ \A f \in Files : s.file[f] # NoConn => s.file[f] \in Conns
<1>1. /\ s.tcp \in [Conns -> Tcp] /\ s.unread \in [Conns -> Seq(Nat)]
      /\ s.file \in [Files -> Conns \cup {NoConn}]
      /\ s.clients \in Seq(Files) /\ s.backlog \in Seq(Conns)
  BY DEF Server
<1> QED
  BY <1>1, LenProperties, ElementOfSeq

LEMMA AgedSelf == ASSUME NEW s \in Server PROVE Aged(s, s)
<1>1. Len(s.clients) <= Len(s.clients)
  BY ServerTypes
<1> QED
  BY <1>1 DEF Aged, TcpAged, FileAged, ListAged

LEMMA AgedTwice ==
  ASSUME NEW s \in Server, NEW t, NEW u, Aged(s, t), Aged(t, u)
  PROVE  Aged(s, u)
<1>1. t \in Server /\ u \in Server
  BY DEF Aged
<1>2. Len(u.clients) <= Len(s.clients)
  BY <1>1, ServerTypes DEF Aged
<1>3. TcpAged(s, u)
  BY DEF Aged, TcpAged
<1>4. FileAged(s, u)
  <2> SUFFICES ASSUME NEW f \in Files
               PROVE  \/ u.file[f] = s.file[f]
                      \/ u.file[f] = NoConn /\ s.file[f] # NoConn /\ u.tcp[s.file[f]] = "reset"
    BY DEF FileAged
  <2>1. s.file[f] # NoConn => s.file[f] \in Conns
    BY ServerTypes
  <2> QED
    BY <2>1 DEF Aged, FileAged, TcpAged
<1>5. ListAged(s, u)
  <2> SUFFICES ASSUME NEW f \in Files, In(f, s.clients), u.file[f] # NoConn, u.tcp[u.file[f]] = "open"
               PROVE  In(f, u.clients)
    BY DEF ListAged
  <2>1. u.file[f] = t.file[f] /\ u.file[f] \in Conns
    BY <1>1, ServerTypes DEF Aged, FileAged
  <2>2. t.tcp[t.file[f]] = "open"
    BY <2>1 DEF Aged, TcpAged
  <2> QED
    BY <2>1, <2>2 DEF Aged, ListAged
<1> QED
  BY <1>1, <1>2, <1>3, <1>4, <1>5 DEF Aged

LEMMA AgedOK ==
  ASSUME NEW s, NEW t, ServerOK(s), Aged(s, t)
  PROVE  ServerOK(t)
<1>1. s \in Server /\ t \in Server
  BY DEF ServerOK, Aged
<1>2. Len(t.clients) <= max_clients
  BY <1>1, ServerTypes, ServerAssumption DEF ServerOK, Aged
<1>3. FilesApart(t)
  BY DEF ServerOK, Aged, FilesApart, FileAged
<1>4. ListComplete(t)
  <2> SUFFICES ASSUME NEW f \in Files, t.file[f] # NoConn
               PROVE  t.tcp[t.file[f]] # "none" /\ (t.tcp[t.file[f]] = "open" => In(f, t.clients))
    BY DEF ListComplete
  <2>1. t.file[f] = s.file[f] /\ t.file[f] \in Conns
    BY <1>1, ServerTypes DEF Aged, FileAged
  <2>2. s.tcp[s.file[f]] # "none" /\ (s.tcp[s.file[f]] = "open" => In(f, s.clients))
    BY <2>1 DEF ServerOK, ListComplete
  <2>3. t.tcp[t.file[f]] = s.tcp[s.file[f]] \/ t.tcp[t.file[f]] = "reset"
    BY <2>1 DEF Aged, TcpAged
  <2> QED
    BY <2>1, <2>2, <2>3 DEF Aged, ListAged
<1>5. BacklogOK(t)
  <2> SUFFICES ASSUME NEW i \in 1 .. Len(t.backlog)
               PROVE  /\ t.tcp[t.backlog[i]] # "none"
                      /\ \A f \in Files : t.file[f] # t.backlog[i]
                      /\ \A j \in 1 .. Len(t.backlog) : t.backlog[i] = t.backlog[j] => i = j
    BY DEF BacklogOK
  <2>1. t.backlog = s.backlog /\ s.backlog[i] \in Conns
    BY <1>1, ServerTypes DEF Aged
  <2>2. /\ s.tcp[s.backlog[i]] # "none" /\ \A f \in Files : s.file[f] # s.backlog[i]
        /\ \A j \in 1 .. Len(s.backlog) : s.backlog[i] = s.backlog[j] => i = j
    BY <2>1 DEF ServerOK, BacklogOK
  <2>3. t.tcp[s.backlog[i]] # "none"
    BY <2>1, <2>2 DEF Aged, TcpAged
  <2>4. \A f \in Files : t.file[f] # s.backlog[i]
    BY <2>1, <2>2, ServerAssumption DEF Aged, FileAged
  <2> QED
    BY <2>1, <2>2, <2>3, <2>4
<1> QED
  BY <1>1, <1>2, <1>3, <1>4, <1>5 DEF ServerOK

-----------------------------------------------------------------------------
(* The operations of client objects.                                       *)
LEMMA LookedAged ==
  ASSUME NEW s, ServerOK(s), NEW f \in Files \cup {_sock}
  PROVE  /\ Aged(s, Looked(s, f))
         /\ Looked(s, f).file = s.file /\ Looked(s, f).clients = s.clients
         /\ Holds(s, f) /\ ~connected(s, f) => Looked(s, f).tcp[s.file[f]] = "reset"
<1>1. s \in Server /\ Len(s.clients) <= Len(s.clients)
  BY ServerTypes DEF ServerOK
<1>2. CASE ~(Holds(s, f) /\ ~connected(s, f))
  BY <1>1, <1>2, AgedSelf DEF Looked
<1>3. CASE Holds(s, f) /\ ~connected(s, f)
  <2> DEFINE c == s.file[f]
             t == [s EXCEPT !.tcp[c] = "reset"]
  <2>1. c \in Conns /\ f \in Files /\ s.tcp[c] = "error"
    BY <1>1, <1>3, ServerTypes DEF Holds, connected
  <2>2. Looked(s, f) = t
    BY <1>3 DEF Looked
  <2>3. /\ t.unread = s.unread /\ t.backlog = s.backlog /\ t.clients = s.clients /\ t.file = s.file
        /\ t.tcp = [s.tcp EXCEPT ![c] = "reset"] /\ t \in Server
    <3>1. [s.tcp EXCEPT ![c] = "reset"] \in [Conns -> Tcp]
      BY <1>1, ServerTypes DEF Tcp
    <3> QED
      BY <1>1, <3>1 DEF Server
  <2> HIDE DEF t
  <2>4. s.tcp \in [Conns -> Tcp]
    BY <1>1, ServerTypes
  <2>5. TcpAged(s, t) /\ t.tcp[c] = "reset"
    BY <2>1, <2>3, <2>4 DEF TcpAged
  <2>6. FileAged(s, t) /\ ListAged(s, t)
    BY <2>3 DEF FileAged, ListAged
  <2> QED
    BY <1>1, <2>2, <2>3, <2>5, <2>6 DEF Aged
<1> QED
  BY <1>2, <1>3

LEMMA WrittenAged ==
  ASSUME NEW s, ServerOK(s), NEW f \in Files, connected(s, f), NEW late
  PROVE  Aged(s, Written(s, f, late)) /\ Written(s, f, late).clients = s.clients
<1> DEFINE c == s.file[f]
<1>1. s \in Server /\ Len(s.clients) <= Len(s.clients)
  BY ServerTypes DEF ServerOK
<1>2. /\ c # NoConn /\ c \in Conns /\ s.tcp[c] \in Tcp /\ s.tcp[c] # "none"
      /\ s.tcp \in [Conns -> Tcp] /\ s.file \in [Files -> Conns \cup {NoConn}]
  BY <1>1, ServerTypes DEF connected, Holds, ServerOK, ListComplete
<1>3. CASE Written(s, f, late) = s
  BY <1>1, <1>3, AgedSelf
<1>4. CASE s.tcp[c] = "fin" /\ Written(s, f, late) = [s EXCEPT !.tcp[c] = "reset"]
  <2> DEFINE t == [s EXCEPT !.tcp[c] = "reset"]
  <2>1. /\ t.unread = s.unread /\ t.backlog = s.backlog /\ t.clients = s.clients /\ t.file = s.file
        /\ t.tcp = [s.tcp EXCEPT ![c] = "reset"] /\ t \in Server
    <3>1. [s.tcp EXCEPT ![c] = "reset"] \in [Conns -> Tcp]
      BY <1>2 DEF Tcp
    <3> QED
      BY <1>1, <3>1 DEF Server
  <2> HIDE DEF t
  <2>2. TcpAged(s, t)
    BY <1>2, <1>4, <2>1 DEF TcpAged
  <2>3. FileAged(s, t) /\ ListAged(s, t)
    BY <2>1 DEF FileAged, ListAged
  <2> QED
    BY <1>1, <1>4, <2>1, <2>2, <2>3 DEF Aged, t
<1>5. CASE /\ s.tcp[c] # "none"
           /\ Written(s, f, late) = [s EXCEPT !.tcp[c] = "reset", !.file[f] = NoConn]
  <2> DEFINE t == [s EXCEPT !.tcp[c] = "reset", !.file[f] = NoConn]
  <2>1. /\ t.unread = s.unread /\ t.backlog = s.backlog /\ t.clients = s.clients
        /\ t.file = [s.file EXCEPT ![f] = NoConn]
        /\ t.tcp = [s.tcp EXCEPT ![c] = "reset"] /\ t \in Server
    <3>1. /\ [s.tcp EXCEPT ![c] = "reset"] \in [Conns -> Tcp]
          /\ [s.file EXCEPT ![f] = NoConn] \in [Files -> Conns \cup {NoConn}]
      BY <1>2 DEF Tcp
    <3> QED
      BY <1>1, <3>1 DEF Server
  <2> HIDE DEF t
  <2>2. TcpAged(s, t)
    BY <1>2, <1>5, <2>1 DEF TcpAged
  <2>3. FileAged(s, t) /\ ListAged(s, t)
    BY <1>2, <2>1 DEF FileAged, ListAged
  <2> QED
    BY <1>1, <1>5, <2>1, <2>2, <2>3 DEF Aged, t
<1> QED
  BY <1>2, <1>3, <1>4, <1>5 DEF Written, Tcp

(* A dead client goes off the list.                                        *)
LEMMA DropAged ==
  ASSUME NEW s, ServerOK(s), NEW i \in 1 .. Len(s.clients), ~connected(s, s.clients[i])
  PROVE  LET t == [Looked(s, s.clients[i]) EXCEPT !.clients = Without(@, i)]
         IN  Aged(s, t) /\ Len(t.clients) = Len(s.clients) - 1
<1> DEFINE f == s.clients[i]
           r == Looked(s, f)
           t == [r EXCEPT !.clients = Without(@, i)]
<1>1. s \in Server /\ f \in Files /\ s.clients \in Seq(Files) /\ Len(s.clients) \in Nat
  BY ServerTypes DEF ServerOK
<1>2. /\ Aged(s, r) /\ r.file = s.file /\ r.clients = s.clients /\ r \in Server
      /\ Holds(s, f) => r.tcp[s.file[f]] = "reset"
  BY <1>1, LookedAged DEF Aged
<1> HIDE DEF f, r
<1>3. /\ t.unread = r.unread /\ t.backlog = r.backlog /\ t.tcp = r.tcp /\ t.file = r.file
      /\ t.clients = Without(s.clients, i)
  BY <1>2 DEF Server
<1>4. /\ t.clients \in Seq(Files) /\ Len(t.clients) = Len(s.clients) - 1
      /\ \A g : In(g, s.clients) /\ g # f => In(g, t.clients)
  BY <1>1, <1>3, WithoutOne DEF f
<1>5. t \in Server
  BY <1>2, <1>4 DEF Server
<1> HIDE DEF t
<1>6. TcpAged(s, t) /\ FileAged(s, t)
  BY <1>2, <1>3 DEF Aged, TcpAged, FileAged
<1>7. ListAged(s, t)
  <2>1. t.file[f] = s.file[f] /\ (s.file[f] # NoConn => Holds(s, f))
    BY <1>1, <1>2, <1>3 DEF Holds, Files, _sock
  <2>2. ~(t.file[f] # NoConn /\ t.tcp[t.file[f]] = "open")
    BY <1>2, <1>3, <2>1
  <2> QED
    BY <1>4, <2>2 DEF ListAged
<1>8. Len(t.clients) <= Len(s.clients)
  BY <1>1, <1>4
<1> QED
  BY <1>2, <1>3, <1>4, <1>5, <1>6, <1>7, <1>8 DEF Aged, t, r, f

-----------------------------------------------------------------------------
(* EthernetServer::write: its loop, turn by turn.  G holds what is known   *)
(* after each.                                                             *)
LEMMA WriteSteps ==
  ASSUME NEW s, NEW late, Len(s.clients) \in Nat, NEW G, [s |-> s, i |-> 1, to |-> {}] \in G[0],
         \A k \in 0 .. Len(s.clients) - 1 : \A w \in G[k] : WriteTurn(w, late) \in G[k + 1]
  PROVE  Sent(s, late) \in G[Len(s.clients)]
<1> DEFINE n == Len(s.clients)
           w0 == [s |-> s, i |-> 1, to |-> {}]
           Turn(h, k) == IF k = 0 THEN w0 ELSE WriteTurn(h[k - 1], late)
           w == CHOOSE h : h = [k \in 0 .. n |-> Turn(h, k)]
<1>1. Sent(s, late) = w[n]
  BY DEF Sent
<1> HIDE DEF n, w0
<1>2. \E h : h = [k \in 0 .. n |-> Turn(h, k)]
  <2> DEFINE E == {m \in 0 .. n : \E h : \A k \in 0 .. m : h[k] = Turn(h, k)}
  <2>1. n \in Nat
    BY DEF n
  <2>2. 0 \in E
    <3> DEFINE h == [k \in {0} |-> w0]
    <3>1. \A k \in 0 .. 0 : h[k] = Turn(h, k)
      OBVIOUS
    <3> HIDE DEF h, Turn
    <3>2. 0 \in 0 .. n /\ \E g : \A k \in 0 .. 0 : g[k] = Turn(g, k)
      BY <2>1, <3>1
    <3> QED
      BY <3>2
  <2>3. ASSUME NEW m \in 0 .. n - 1, m \in E PROVE m + 1 \in E
    <3>1. PICK g : \A k \in 0 .. m : g[k] = Turn(g, k)
      BY <2>3
    <3> DEFINE h == [k \in 0 .. m + 1 |-> IF k = m + 1 THEN WriteTurn(g[m], late) ELSE g[k]]
    <3>2. ASSUME NEW k \in 0 .. m + 1 PROVE h[k] = Turn(h, k)
      <4>1. CASE k = m + 1
        <5>1. k # 0 /\ k - 1 = m /\ m # m + 1 /\ m \in 0 .. m + 1 /\ m + 1 \in 0 .. m + 1
          BY <2>1, <4>1
        <5>2. h[k] = WriteTurn(g[m], late)
          BY <4>1, <5>1
        <5>3. h[m] = g[m]
          BY <5>1
        <5> HIDE DEF h
        <5> QED
          BY <5>1, <5>2, <5>3
      <4>2. CASE k # m + 1
        <5>1. k \in 0 .. m /\ h[k] = g[k] /\ (k # 0 => h[k - 1] = g[k - 1])
          BY <4>2
        <5> HIDE DEF h
        <5> QED
          BY <3>1, <5>1
      <4> QED
        BY <4>1, <4>2
    <3> HIDE DEF h
    <3>3. m + 1 \in 0 .. n
      BY <2>1
    <3> QED
      BY <3>2, <3>3
  <2>4. n \in E
    <3> HIDE DEF E
    <3>1. 0 .. n \subseteq E
      BY <2>1, <2>2, <2>3, BoundedInduction
    <3> QED
      BY <2>1, <3>1
  <2>5. PICK g : \A k \in 0 .. n : g[k] = Turn(g, k)
    BY <2>4
  <2> DEFINE h == [k \in 0 .. n |-> g[k]]
  <2>6. \A k \in 0 .. n : h[k] = Turn(h, k)
    <3>1. \A k \in 0 .. n : h[k] = g[k] /\ (k # 0 => h[k - 1] = g[k - 1])
      BY <2>1
    <3> HIDE DEF h
    <3> QED
      BY <2>5, <3>1
  <2>7. h = [k \in 0 .. n |-> Turn(h, k)]
    <3> HIDE DEF Turn
    <3> QED
      BY <2>6
  <2> QED
    BY <2>7
<1>3. w = [k \in 0 .. n |-> Turn(w, k)]
  <2> HIDE DEF Turn
  <2> QED
    BY <1>2
<1> HIDE DEF w
<1>4. n \in Nat /\ \A k \in 0 .. n : w[k] = Turn(w, k)
  <2> HIDE DEF Turn
  <2> QED
    BY <1>3 DEF n
<1> DEFINE E == {k \in 0 .. n : w[k] \in G[k]}
<1>5. 0 \in E
  <2>1. 0 \in 0 .. n /\ w[0] = w0
    BY <1>4
  <2> QED
    BY <2>1 DEF w0
<1>6. ASSUME NEW k \in 0 .. n - 1, k \in E PROVE k + 1 \in E
  <2>1. k + 1 \in 0 .. n /\ k + 1 # 0 /\ (k + 1) - 1 = k /\ k \in 0 .. n
    BY <1>4
  <2>2. w[k + 1] = WriteTurn(w[k], late)
    BY <1>4, <2>1
  <2>3. WriteTurn(w[k], late) \in G[k + 1]
    BY <1>6 DEF n
  <2> QED
    BY <2>1, <2>2, <2>3
<1> HIDE DEF E
<1>7. 0 .. n \subseteq E
  BY <1>4, <1>5, <1>6, BoundedInduction
<1>8. w[n] \in G[n]
  BY <1>4, <1>7 DEF E
<1> QED
  BY <1>1, <1>8 DEF n

Turns == [s : Server, i : Nat, to : SUBSET Files]

(* A turn of the loop ends one turn nearer to the end of the list.         *)
LEMMA TurnAged ==
  ASSUME NEW w \in Turns, ServerOK(w.s), w.i \in 1 .. Len(w.s.clients), NEW late
  PROVE  LET r == WriteTurn(w, late)
         IN  /\ r \in Turns /\ Aged(w.s, r.s)
             /\ Len(r.s.clients) \in Nat /\ Len(r.s.clients) - r.i = Len(w.s.clients) - w.i - 1
             /\ r.i \in {w.i, w.i + 1}
<1> DEFINE r == WriteTurn(w, late)
           f == w.s.clients[w.i]
<1>1. w.s \in Server /\ Len(w.s.clients) \in Nat /\ f \in Files /\ w.i \in Nat /\ w.to \in SUBSET Files
  BY ServerTypes DEF ServerOK, Turns
<1>2. CASE connected(w.s, f)
  <2>1. r = [s |-> Written(w.s, f, late), i |-> w.i + 1, to |-> w.to \cup {f}]
    BY <1>2 DEF WriteTurn
  <2> HIDE DEF f
  <2>2. Aged(w.s, r.s) /\ r.s.clients = w.s.clients /\ r.s \in Server /\ r.i = w.i + 1
    BY <1>1, <1>2, <2>1, WrittenAged DEF Aged
  <2>3. w.to \cup {f} \in SUBSET Files /\ w.i + 1 \in Nat
    BY <1>1
  <2>4. r \in Turns
    BY <2>1, <2>2, <2>3 DEF Turns
  <2> QED
    BY <1>1, <2>2, <2>4
<1>3. CASE ~connected(w.s, f)
  <2> DEFINE t == [Looked(w.s, f) EXCEPT !.clients = Without(@, w.i)]
  <2>1. r = [w EXCEPT !.s = t]
    BY <1>3 DEF WriteTurn
  <2>2. Aged(w.s, t) /\ Len(t.clients) = Len(w.s.clients) - 1 /\ t \in Server
    BY <1>1, <1>3, DropAged DEF Aged
  <2> HIDE DEF t, f
  <2>3. r.s = t /\ r.i = w.i /\ r \in Turns
    BY <2>1, <2>2 DEF Turns
  <2>4. Len(t.clients) \in Nat
    BY <2>2, ServerTypes
  <2> QED
    BY <1>1, <2>2, <2>3, <2>4
<1> QED
  BY <1>2, <1>3

(* So that the loop ends, and all that it does is Aged.                    *)
InLoop(s, k, w) ==
  /\ w \in Turns /\ ServerOK(w.s) /\ Aged(s, w.s)
  /\ w.i \in Nat \ {0} /\ w.i + (Len(s.clients) - k) = Len(w.s.clients) + 1

LEMMA LoopBegins ==
  ASSUME NEW s, ServerOK(s)
  PROVE  InLoop(s, 0, [s |-> s, i |-> 1, to |-> {}])
<1> DEFINE w == [s |-> s, i |-> 1, to |-> {}]
<1>1. s \in Server /\ Len(s.clients) \in Nat
  BY ServerTypes DEF ServerOK
<1>2. w \in Turns /\ w.s = s /\ w.i = 1
  BY <1>1 DEF Turns
<1> HIDE DEF w
<1>3. InLoop(s, 0, w)
  BY <1>1, <1>2, AgedSelf DEF InLoop
<1> QED
  BY <1>3 DEF w

LEMMA LoopGoesOn ==
  ASSUME NEW s, ServerOK(s), NEW late, NEW k \in 0 .. Len(s.clients) - 1, NEW w, InLoop(s, k, w)
  PROVE  /\ w \in Turns /\ ServerOK(w.s) /\ w.i \in 1 .. Len(w.s.clients)
         /\ InLoop(s, k + 1, WriteTurn(w, late))
<1> DEFINE r == WriteTurn(w, late)
<1>1. /\ s \in Server /\ Len(s.clients) \in Nat
      /\ w \in Turns /\ ServerOK(w.s) /\ w.s \in Server /\ Len(w.s.clients) \in Nat
  BY ServerTypes DEF ServerOK, InLoop
<1>2. w.i \in 1 .. Len(w.s.clients)
  BY <1>1 DEF InLoop
<1>3. /\ r \in Turns /\ Aged(w.s, r.s) /\ r.i \in {w.i, w.i + 1}
      /\ Len(r.s.clients) \in Nat /\ Len(r.s.clients) - r.i = Len(w.s.clients) - w.i - 1
  BY <1>1, <1>2, TurnAged
<1> HIDE DEF r
<1>4. ServerOK(r.s) /\ Aged(s, r.s)
  BY <1>1, <1>3, AgedOK, AgedTwice DEF InLoop
<1>5. r.i \in Nat \ {0} /\ r.i + (Len(s.clients) - (k + 1)) = Len(r.s.clients) + 1
  <2> DEFINE wi == w.i  wn == Len(w.s.clients)  ri == r.i  rn == Len(r.s.clients)  n == Len(s.clients)
  <2>1. /\ n \in Nat /\ wn \in Nat /\ wi \in Nat \ {0} /\ wi + (n - k) = wn + 1
        /\ ri \in {wi, wi + 1} /\ rn \in Nat /\ rn - ri = wn - wi - 1
    BY <1>1, <1>3 DEF InLoop
  <2> HIDE DEF wi, wn, ri, rn, n
  <2>2. ri \in Nat \ {0} /\ ri + (n - (k + 1)) = rn + 1
    BY <2>1
  <2> QED
    BY <2>2 DEF ri, rn, n
<1>6. InLoop(s, k + 1, r)
  BY <1>3, <1>4, <1>5 DEF InLoop
<1> QED
  BY <1>1, <1>2, <1>6 DEF r

LEMMA WriteAged ==
  ASSUME NEW s, ServerOK(s), NEW late
  PROVE  Aged(s, Write(s, late))
<1> DEFINE n == Len(s.clients)
           G == [k \in 0 .. n |-> {w \in Turns : InLoop(s, k, w)}]
<1>1. n \in Nat
  BY ServerTypes DEF ServerOK
<1>2. [s |-> s, i |-> 1, to |-> {}] \in G[0]
  BY <1>1, LoopBegins DEF InLoop
<1>3. ASSUME NEW k \in 0 .. n - 1, NEW w \in G[k] PROVE WriteTurn(w, late) \in G[k + 1]
  <2>1. k \in 0 .. n /\ k + 1 \in 0 .. n
    BY <1>1
  <2>2. InLoop(s, k, w)
    BY <2>1
  <2>3. InLoop(s, k + 1, WriteTurn(w, late))
    BY <2>2, LoopGoesOn
  <2>4. WriteTurn(w, late) \in Turns
    BY <2>3 DEF InLoop
  <2> QED
    BY <2>1, <2>3, <2>4
<1> HIDE DEF G
<1>4. Sent(s, late) \in G[n]
  BY <1>1, <1>2, <1>3, WriteSteps
<1>5. InLoop(s, n, Sent(s, late))
  BY <1>1, <1>4 DEF G
<1> QED
  BY <1>5 DEF InLoop, Write

(* Who has an open connection is written to: until its turn comes it is    *)
(* among the rest of the list, where it may be moved to an earlier place.  *)
Waits(w, g, c) ==
  /\ w.s.file[g] = c /\ w.s.tcp[c] = "open"
  /\ \E j \in w.i .. Len(w.s.clients) : w.s.clients[j] = g
Served(w, g, c, late) ==
  /\ g \in w.to
  /\ IF c \in late THEN w.s.file[g] = NoConn ELSE w.s.file[g] = c /\ w.s.tcp[c] = "open"

(* What a turn for another client leaves alone.                            *)
LEMMA OthersTurn ==
  ASSUME NEW w \in Turns, ServerOK(w.s), w.i \in 1 .. Len(w.s.clients), NEW late,
         NEW g \in Files, g # w.s.clients[w.i]
  PROVE  LET r == WriteTurn(w, late)
         IN  /\ r.s.file[g] = w.s.file[g] /\ w.to \subseteq r.to
             /\ w.s.file[g] # NoConn => r.s.tcp[w.s.file[g]] = w.s.tcp[w.s.file[g]]
<1> DEFINE r == WriteTurn(w, late)
           f == w.s.clients[w.i]
           d == w.s.file[f]
<1>1. /\ w.s \in Server /\ f \in Files /\ g # f
      /\ w.s.file \in [Files -> Conns \cup {NoConn}] /\ w.s.tcp \in [Conns -> Tcp]
  BY ServerTypes DEF ServerOK
<1>2. w.s.file[g] # NoConn => w.s.file[g] \in Conns /\ w.s.file[g] # d
  BY <1>1, ServerTypes DEF ServerOK, FilesApart
<1>3. CASE connected(w.s, f)
  <2>1. r.s = Written(w.s, f, late) /\ r.to = w.to \cup {f}
    BY <1>3 DEF WriteTurn
  <2>2. /\ r.s.file \in {w.s.file, [w.s.file EXCEPT ![f] = NoConn]}
        /\ r.s.tcp \in {w.s.tcp, [w.s.tcp EXCEPT ![d] = "reset"]}
    BY <1>1, <2>1 DEF Written, Server
  <2> HIDE DEF r, f, d
  <2> QED
    BY <1>1, <1>2, <2>1, <2>2 DEF r
<1>4. CASE ~connected(w.s, f)
  <2>1. r.s = [Looked(w.s, f) EXCEPT !.clients = Without(@, w.i)] /\ r.to = w.to
    BY <1>4 DEF WriteTurn, Turns
  <2>2. /\ r.s.file = w.s.file
        /\ r.s.tcp \in {w.s.tcp, [w.s.tcp EXCEPT ![d] = "reset"]}
    BY <1>1, <2>1 DEF Looked, Server
  <2> HIDE DEF r, f, d
  <2> QED
    BY <1>1, <1>2, <2>1, <2>2 DEF r
<1> QED
  BY <1>3, <1>4

LEMMA TurnServes ==
  ASSUME NEW w \in Turns, ServerOK(w.s), w.i \in 1 .. Len(w.s.clients), NEW late,
         NEW g \in Files, NEW c \in Conns, Waits(w, g, c) \/ Served(w, g, c, late)
  PROVE  LET r == WriteTurn(w, late) IN Waits(r, g, c) \/ Served(r, g, c, late)
<1> DEFINE r == WriteTurn(w, late)
           f == w.s.clients[w.i]
<1>1. /\ w.s \in Server /\ f \in Files /\ w.s.clients \in Seq(Files) /\ Len(w.s.clients) \in Nat
      /\ w.s.file \in [Files -> Conns \cup {NoConn}] /\ w.s.tcp \in [Conns -> Tcp]
      /\ c # NoConn
  BY ServerTypes, ServerAssumption DEF ServerOK
<1>2. CASE f # g
  <2>1. /\ r.s.file[g] = w.s.file[g] /\ w.to \subseteq r.to
        /\ w.s.file[g] = c => r.s.tcp[c] = w.s.tcp[c]
    <3> HIDE DEF r
    <3>1. g # w.s.clients[w.i]
      BY <1>2
    <3>2. /\ WriteTurn(w, late).s.file[g] = w.s.file[g] /\ w.to \subseteq WriteTurn(w, late).to
          /\ w.s.file[g] # NoConn => WriteTurn(w, late).s.tcp[w.s.file[g]] = w.s.tcp[w.s.file[g]]
      BY <3>1, OthersTurn
    <3> QED
      BY <1>1, <3>2 DEF r
  <2>2. ASSUME Waits(w, g, c) PROVE \E j \in r.i .. Len(r.s.clients) : r.s.clients[j] = g
    <3>1. PICK j \in w.i .. Len(w.s.clients) : w.s.clients[j] = g
      BY <2>2 DEF Waits
    <3>2. j \in w.i + 1 .. Len(w.s.clients) /\ w.i \in Nat
      BY <1>1, <1>2, <3>1
    <3>3. CASE connected(w.s, f)
      <4>1. r.s = Written(w.s, f, late) /\ r.i = w.i + 1
        BY <3>3 DEF WriteTurn
      <4>2. Written(w.s, f, late).clients = w.s.clients
        BY <1>1, <3>3, WrittenAged
      <4> HIDE DEF r
      <4> QED
        BY <3>1, <3>2, <4>1, <4>2
    <3>4. CASE ~connected(w.s, f)
      <4>1. r.s = [Looked(w.s, f) EXCEPT !.clients = Without(@, w.i)] /\ r.i = w.i
        BY <3>4 DEF WriteTurn, Turns
      <4>2. Looked(w.s, f).clients = w.s.clients /\ Looked(w.s, f) \in Server
        BY <1>1, LookedAged DEF Aged
      <4>3. r.s.clients = Without(w.s.clients, w.i)
        BY <4>1, <4>2 DEF Server
      <4> HIDE DEF r
      <4>4. /\ Len(r.s.clients) = Len(w.s.clients) - 1
            /\ \A k \in 1 .. Len(w.s.clients) - 1 :
                 r.s.clients[k] = IF k = w.i THEN w.s.clients[Len(w.s.clients)] ELSE w.s.clients[k]
        <5> DEFINE l == w.s.clients
                   v == Without(l, w.i)
        <5>1. /\ Len(v) = Len(l) - 1
              /\ \A k \in 1 .. Len(l) - 1 : v[k] = IF k = w.i THEN l[Len(l)] ELSE l[k]
          <6> HIDE DEF l
          <6>1. l \in Seq(Files) /\ w.i \in 1 .. Len(l)
            BY <1>1 DEF l
          <6> QED
            BY <6>1, WithoutOne
        <5> HIDE DEF v
        <5> QED
          BY <4>3, <5>1 DEF v
      <4>5. CASE j = Len(w.s.clients)
        <5>1. w.i \in 1 .. Len(w.s.clients) - 1
          BY <1>1, <3>2, <4>5
        <5> QED
          BY <1>1, <3>1, <4>1, <4>4, <4>5, <5>1
      <4>6. CASE j # Len(w.s.clients)
        <5>1. j \in 1 .. Len(w.s.clients) - 1 /\ j # w.i /\ j \in w.i .. Len(w.s.clients) - 1
          BY <1>1, <3>2, <4>6
        <5> QED
          BY <3>1, <4>1, <4>4, <5>1
      <4> QED
        BY <4>5, <4>6
    <3> QED
      BY <3>3, <3>4
  <2> HIDE DEF r
  <2>3. Waits(w, g, c) => Waits(r, g, c)
    BY <2>1, <2>2 DEF Waits
  <2>4. Served(w, g, c, late) => Served(r, g, c, late)
    BY <2>1 DEF Served
  <2> QED
    BY <2>3, <2>4 DEF r
<1>3. CASE f = g
  <2>1. CASE w.s.file[g] = c /\ w.s.tcp[c] = "open"
    <3>1. connected(w.s, f)
      BY <1>1, <1>3, <2>1 DEF connected, Holds, Files, _sock
    <3>2. r.s = Written(w.s, f, late) /\ r.to = w.to \cup {f}
      BY <3>1 DEF WriteTurn
    <3>3. r.s = IF c \in late THEN [w.s EXCEPT !.tcp[c] = "reset", !.file[g] = NoConn] ELSE w.s
      BY <1>3, <2>1, <3>2 DEF Written
    <3>4. c \in late => r.s.file[g] = NoConn
      <4>1. c \in late => r.s.file = [w.s.file EXCEPT ![g] = NoConn]
        BY <1>1, <3>3 DEF Server
      <4> HIDE DEF r
      <4> QED
        BY <1>1, <4>1
    <3> HIDE DEF r
    <3>5. Served(r, g, c, late)
      BY <1>3, <2>1, <3>2, <3>3, <3>4 DEF Served
    <3> QED
      BY <3>5 DEF r
  <2>2. CASE ~(w.s.file[g] = c /\ w.s.tcp[c] = "open")
    <3>1. c \in late /\ g \in w.to /\ w.s.file[g] = NoConn
      BY <2>2 DEF Waits, Served
    <3>2. ~connected(w.s, f) /\ Looked(w.s, f) = w.s
      BY <1>3, <3>1 DEF connected, Holds, Looked
    <3>3. r.s = [w.s EXCEPT !.clients = Without(@, w.i)] /\ r.to = w.to
      BY <3>2 DEF WriteTurn, Turns
    <3>4. r.s.file = w.s.file
      BY <1>1, <3>3 DEF Server
    <3> HIDE DEF r
    <3>5. Served(r, g, c, late)
      BY <3>1, <3>3, <3>4 DEF Served
    <3> QED
      BY <3>5 DEF r
  <2> QED
    BY <2>1, <2>2
<1> QED
  BY <1>2, <1>3

LEMMA SentToAll ==
  ASSUME NEW s, ServerOK(s), NEW late, NEW g \in Files, s.file[g] # NoConn,
         s.tcp[s.file[g]] = "open"
  PROVE  /\ g \in Sent(s, late).to
         /\ Sent(s, late).s.file[g] = IF s.file[g] \in late THEN NoConn ELSE s.file[g]
<1> DEFINE n == Len(s.clients)
           c == s.file[g]
           w0 == [s |-> s, i |-> 1, to |-> {}]
           P(k, w) == InLoop(s, k, w) /\ (Waits(w, g, c) \/ Served(w, g, c, late))
           G == [k \in 0 .. n |-> {w \in Turns : P(k, w)}]
<1>1. n \in Nat /\ c \in Conns
  BY ServerTypes DEF ServerOK
<1>2. w0 \in G[0]
  <2>1. InLoop(s, 0, w0) /\ w0 \in Turns
    BY LoopBegins DEF InLoop
  <2>2. Waits(w0, g, c)
    BY DEF Waits, ServerOK, ListComplete, In
  <2> HIDE DEF w0
  <2> QED
    BY <1>1, <2>1, <2>2
<1> HIDE DEF c
<1>3. ASSUME NEW k \in 0 .. n - 1, NEW w \in G[k] PROVE WriteTurn(w, late) \in G[k + 1]
  <2>1. k \in 0 .. n /\ k + 1 \in 0 .. n
    BY <1>1
  <2>2. P(k, w)
    BY <2>1
  <2>3. /\ w \in Turns /\ ServerOK(w.s) /\ w.i \in 1 .. Len(w.s.clients)
        /\ InLoop(s, k + 1, WriteTurn(w, late))
    BY <2>2, LoopGoesOn
  <2>4. Waits(WriteTurn(w, late), g, c) \/ Served(WriteTurn(w, late), g, c, late)
    BY <1>1, <2>2, <2>3, TurnServes
  <2>5. WriteTurn(w, late) \in Turns
    BY <2>3 DEF InLoop
  <2> QED
    BY <2>1, <2>3, <2>4, <2>5
<1>4. Sent(s, late) \in G[n]
  <2> HIDE DEF G
  <2> QED
    BY <1>1, <1>2, <1>3, WriteSteps DEF w0
<1>5. P(n, Sent(s, late))
  BY <1>1, <1>4
<1>6. ~Waits(Sent(s, late), g, c)
  <2> DEFINE w == Sent(s, late)
  <2>1. w.i = Len(w.s.clients) + 1 /\ Len(w.s.clients) \in Nat
    <3>1. w \in Turns /\ w.s \in Server
      BY <1>5 DEF InLoop, Turns
    <3>2. w.i + (n - n) = Len(w.s.clients) + 1 /\ w.i \in Nat /\ Len(w.s.clients) \in Nat
      BY <1>5, <3>1, ServerTypes DEF InLoop
    <3> HIDE DEF w
    <3> QED
      BY <1>1, <3>2
  <2> HIDE DEF w
  <2>2. ~Waits(w, g, c)
    BY <2>1 DEF Waits
  <2> QED
    BY <2>2 DEF w
<1> QED
  BY <1>5, <1>6 DEF Served, c

-----------------------------------------------------------------------------
(* EthernetServer::_accept and what follows it.                            *)
LEMMA ClearedAged == ASSUME NEW s, ServerOK(s) PROVE Aged(s, Cleared(s))
<1>1. s \in Server /\ DOMAIN s.clients = 1 .. Len(s.clients) /\ Len(s.clients) \in Nat
  BY ServerTypes, LenProperties DEF ServerOK
<1>2. CASE Len(s.clients) # max_clients \/ Dead(s) = {}
  BY <1>1, <1>2, AgedSelf DEF Cleared
<1>3. CASE ~(Len(s.clients) # max_clients \/ Dead(s) = {})
  <2> DEFINE i == CHOOSE j \in Dead(s) : \A k \in Dead(s) : j <= k
  <2>1. Dead(s) \subseteq 1 .. Len(s.clients) /\ Dead(s) \in SUBSET Nat /\ Dead(s) # {}
    BY <1>1, <1>3 DEF Dead
  <2>2. \E j \in Dead(s) : \A k \in Dead(s) : j <= k
    BY <2>1, LeastElement
  <2>3. i \in Dead(s)
    BY <2>2
  <2> DEFINE t == [Looked(s, s.clients[i]) EXCEPT !.clients = Without(@, i)]
  <2>4. Cleared(s) = t
    BY <1>3 DEF Cleared
  <2> HIDE DEF i
  <2>5. i \in 1 .. Len(s.clients) /\ ~connected(s, s.clients[i])
    BY <2>1, <2>3 DEF Dead
  <2> QED
    BY <2>4, <2>5, DropAged
<1> QED
  BY <1>2, <1>3

LEMMA AcceptedOK ==
  ASSUME NEW s, ServerOK(s), CanAccept(s)
  PROVE  LET t == Accepted(s)
             g == Lowest(s)
         IN  /\ g \in Files /\ s.file[g] = NoConn /\ ServerOK(t)
             /\ t.unread = s.unread /\ t.tcp = s.tcp /\ Head(s.backlog) \in Conns
             /\ t.file = [s.file EXCEPT ![g] = Head(s.backlog)]
<1> DEFINE t == Accepted(s)
           g == Lowest(s)
           c == Head(s.backlog)
<1>1. /\ s \in Server /\ s.file \in [Files -> Conns \cup {NoConn}] /\ s.tcp \in [Conns -> Tcp]
      /\ s.clients \in Seq(Files) /\ s.backlog \in Seq(Conns) /\ Len(s.clients) \in Nat
      /\ s.backlog # <<>> /\ Len(s.clients) <= max_clients /\ Len(s.clients) # max_clients
  BY ServerTypes DEF ServerOK, CanAccept
<1>2. g \in Files /\ s.file[g] = NoConn
  <2>1. FreeFiles(s) \in SUBSET Nat /\ FreeFiles(s) # {}
    BY DEF FreeFiles, Files, CanAccept
  <2>2. \E f \in FreeFiles(s) : \A h \in FreeFiles(s) : f <= h
    BY <2>1, LeastElement
  <2>3. g \in FreeFiles(s)
    BY <2>2 DEF Lowest
  <2> QED
    BY <2>3 DEF FreeFiles
<1> HIDE DEF g
<1>3. /\ c \in Conns /\ c = s.backlog[1] /\ Len(s.backlog) \in Nat \ {0}
      /\ Tail(s.backlog) \in Seq(Conns) /\ Len(Tail(s.backlog)) = Len(s.backlog) - 1
      /\ \A i \in 1 .. Len(s.backlog) - 1 : Tail(s.backlog)[i] = s.backlog[i + 1]
  BY <1>1, Shortened, Zenon
<1>4. /\ Append(s.clients, g) \in Seq(Files) /\ Len(Append(s.clients, g)) = Len(s.clients) + 1
      /\ In(g, Append(s.clients, g)) /\ \A f : In(f, s.clients) => In(f, Append(s.clients, g))
  BY <1>1, <1>2, Appended, Zenon
<1> HIDE DEF c
<1>5. /\ t.unread = s.unread /\ t.tcp = s.tcp /\ t.file = [s.file EXCEPT ![g] = c]
      /\ t.clients = Append(s.clients, g) /\ t.backlog = Tail(s.backlog) /\ t \in Server
  <2>1. [s.file EXCEPT ![g] = c] \in [Files -> Conns \cup {NoConn}]
    BY <1>1, <1>2, <1>3
  <2>2. t = [s EXCEPT !.file[g] = c, !.clients = Append(@, g), !.backlog = Tail(@)]
    BY Zenon DEF Accepted, g, c
  <2> HIDE DEF t
  <2> QED
    BY <1>1, <1>3, <1>4, <2>1, <2>2 DEF Server
<1> HIDE DEF t
<1>6. /\ s.tcp[c] # "none" /\ \A f \in Files : s.file[f] # c
      /\ \A i \in 1 .. Len(s.backlog) : s.backlog[i] = c => i = 1
  <2>1. 1 \in 1 .. Len(s.backlog)
    BY <1>3
  <2> QED
    BY <1>3, <2>1 DEF ServerOK, BacklogOK
<1>7. Len(t.clients) <= max_clients
  BY <1>1, <1>4, <1>5, ServerAssumption
<1>8. \A f \in Files : t.file[f] = IF f = g THEN c ELSE s.file[f]
  BY <1>1, <1>5
<1>9. FilesApart(t)
  BY <1>6, <1>8 DEF ServerOK, FilesApart
<1>10. ListComplete(t)
  BY <1>4, <1>5, <1>6, <1>8 DEF ServerOK, ListComplete
<1>11. BacklogOK(t)
  <2> SUFFICES ASSUME NEW i \in 1 .. Len(t.backlog)
               PROVE  /\ t.tcp[t.backlog[i]] # "none"
                      /\ \A f \in Files : t.file[f] # t.backlog[i]
                      /\ \A j \in 1 .. Len(t.backlog) : t.backlog[i] = t.backlog[j] => i = j
    BY DEF BacklogOK
  <2>1. \A j \in 1 .. Len(t.backlog) : j + 1 \in 1 .. Len(s.backlog) /\ j + 1 # 1
                                       /\ t.backlog[j] = s.backlog[j + 1]
    BY <1>3, <1>5
  <2>2. \A j \in 1 .. Len(t.backlog) : i + 1 = j + 1 => i = j
    OBVIOUS
  <2>3. /\ s.tcp[s.backlog[i + 1]] # "none" /\ \A f \in Files : s.file[f] # s.backlog[i + 1]
        /\ \A j \in 1 .. Len(s.backlog) : s.backlog[i + 1] = s.backlog[j] => i + 1 = j
    BY <2>1 DEF ServerOK, BacklogOK
  <2>4. s.backlog[i + 1] # c
    BY <1>6, <2>1
  <2> QED
    BY <1>5, <1>8, <2>1, <2>2, <2>3, <2>4
<1> QED
  BY <1>2, <1>3, <1>5, <1>7, <1>9, <1>10, <1>11 DEF ServerOK, t, g, c

LEMMA GreetedAged ==
  ASSUME NEW s, ServerOK(s), CanAccept(s), NEW late, NEW later, NEW more
  PROVE  Aged(Accepted(s), Greeted(s, late, later, more))
<1> DEFINE a == Accepted(s)
           b == Write(a, late)
           c == Write(b, later)
           d == Write(c, later)
<1>1. ServerOK(a) /\ a \in Server
  BY AcceptedOK DEF ServerOK
<1> HIDE DEF a
<1>2. Aged(a, b) /\ ServerOK(b)
  BY <1>1, WriteAged, AgedOK
<1> HIDE DEF b
<1>3. Aged(b, c) /\ ServerOK(c) /\ Aged(a, c)
  <2>1. Aged(b, c)
    BY <1>2, WriteAged
  <2> HIDE DEF c
  <2> QED
    BY <1>1, <1>2, <2>1, AgedOK, AgedTwice
<1> HIDE DEF c
<1>4. Aged(a, d)
  <2>1. Aged(c, d)
    BY <1>3, WriteAged
  <2> HIDE DEF d
  <2> QED
    BY <1>1, <1>3, <2>1, AgedTwice
<1> QED
  BY <1>3, <1>4 DEF Greeted, a, b, c, d

(* A client turned away: its connection is reset.                          *)
LEMMA StoppedOK ==
  ASSUME NEW s, ServerOK(s), NEW f \in Files, s.file[f] # NoConn, NEW slow
  PROVE  LET t == Stopped(s, f, slow)
         IN  /\ ServerOK(t) /\ t.unread = s.unread /\ t.tcp[s.file[f]] \in {"error", "reset"}
             /\ \A c \in Conns : c # s.file[f] => t.tcp[c] = s.tcp[c]
             /\ t.file[f] \in {s.file[f], NoConn}
             /\ \A g \in Files : g # f => t.file[g] = s.file[g]
<1> DEFINE c == s.file[f]
           x == IF slow /\ s.tcp[c] \in {"open", "fin"} THEN NoConn ELSE c
           y == IF s.tcp[c] = "error" THEN "error" ELSE "reset"
           t == Stopped(s, f, slow)
<1>1. /\ s \in Server /\ s.file \in [Files -> Conns \cup {NoConn}] /\ s.tcp \in [Conns -> Tcp]
      /\ c \in Conns /\ Holds(s, f)
  BY ServerTypes DEF ServerOK, Holds, Files, _sock
<1>2. /\ t.unread = s.unread /\ t.tcp = [s.tcp EXCEPT ![c] = y]
      /\ t.file = [s.file EXCEPT ![f] = x]
      /\ t.clients = s.clients /\ t.backlog = s.backlog /\ t \in Server
  <2>1. /\ [s.tcp EXCEPT ![c] = y] \in [Conns -> Tcp]
        /\ [s.file EXCEPT ![f] = x] \in [Files -> Conns \cup {NoConn}]
    BY <1>1 DEF Tcp
  <2>2. t = [s EXCEPT !.file[f] = x, !.tcp[c] = y]
    BY <1>1 DEF Stopped, Server
  <2> HIDE DEF t
  <2> QED
    BY <1>1, <2>1, <2>2 DEF Server
<1> HIDE DEF t
<1>3. /\ \A g \in Files : t.file[g] = IF g = f THEN x ELSE s.file[g]
      /\ \A d \in Conns : t.tcp[d] = IF d = c THEN y ELSE s.tcp[d]
      /\ x \in {c, NoConn} /\ y \in {"error", "reset"}
  BY <1>1, <1>2
<1> HIDE DEF x, y
<1>4. FilesApart(t)
  BY <1>3 DEF ServerOK, FilesApart
<1>5. ListComplete(t)
  <2> SUFFICES ASSUME NEW g \in Files, t.file[g] # NoConn
               PROVE  t.tcp[t.file[g]] # "none" /\ (t.tcp[t.file[g]] = "open" => In(g, t.clients))
    BY DEF ListComplete
  <2>1. t.file[g] = s.file[g] /\ s.file[g] \in Conns
    BY <1>1, <1>3
  <2> QED
    BY <1>2, <1>3, <2>1 DEF ServerOK, ListComplete
<1>6. BacklogOK(t)
  <2> SUFFICES ASSUME NEW i \in 1 .. Len(s.backlog)
               PROVE  t.tcp[s.backlog[i]] # "none" /\ \A g \in Files : t.file[g] # s.backlog[i]
    BY <1>2 DEF BacklogOK, ServerOK
  <2>1. s.backlog[i] \in Conns /\ s.tcp[s.backlog[i]] # "none" /\ \A g \in Files : s.file[g] # s.backlog[i]
    BY <1>1, ServerTypes DEF ServerOK, BacklogOK
  <2> QED
    BY <1>3, <2>1, ServerAssumption
<1> QED
  BY <1>1, <1>2, <1>3, <1>4, <1>5, <1>6 DEF ServerOK, t, c

-----------------------------------------------------------------------------
(* What always holds of the server, the slots and the buffers together.    *)
Lives(s, c) == s.tcp[c] \in {"open", "fin"}
Unread(s, ty) ==
  \A c \in Conns : /\ Len(s.unread[c]) <= ty[c]
                   /\ \A p \in 1 .. Len(s.unread[c]) : s.unread[c][p] = ty[c] - Len(s.unread[c]) + p
Alone(s, sl, i, c) ==
  sl[i] # _sock /\ s.file[sl[i]] = c /\ \A j \in Slots : sl[j] # _sock /\ s.file[sl[j]] = c => j = i
Piece(b, c, n) ==
  \A p \in 1 .. Len(b) : b[p] = <<c, n - Len(b) + p>> /\ Says(b[p]) = "x"
Own(s, ty, sl, buf) ==
  \A i \in Slots, c \in Conns :
    Alone(s, sl, i, c) /\ Lives(s, c) => Piece(buf[i], c, ty[c] - Len(s.unread[c]))
Sound(s, ty, sl, buf) ==
  ServerOK(s) /\ Unread(s, ty) /\ Own(s, ty, sl, buf)

IInv == TypeOK /\ Sound(server, typed, slot, inputString)

(* A file behind which a connection lives in t held it in s, but for g.    *)
Carries(s, t, g) ==
  \A f \in Files : f # g /\ t.file[f] # NoConn /\ Lives(t, t.file[f])
                     => s.file[f] = t.file[f] /\ Lives(s, t.file[f])

LEMMA AgedCarries ==
  ASSUME NEW s \in Server, NEW t, Aged(s, t), NEW u \in Server, NEW g
  PROVE  Carries(s, t, _sock) /\ (Carries(t, u, g) => Carries(s, u, g))
<1>1. t \in Server
  BY DEF Aged
<1>2. \A f \in Files : t.file[f] # NoConn /\ Lives(t, t.file[f])
                         => s.file[f] = t.file[f] /\ Lives(s, t.file[f])
  BY <1>1, ServerTypes DEF Aged, FileAged, TcpAged, Lives
<1> QED
  BY <1>2 DEF Carries

LEMMA CarriesAged ==
  ASSUME NEW s, NEW t \in Server, NEW g, Carries(s, t, g), NEW u, Aged(t, u)
  PROVE  Carries(s, u, g)
<1>1. u \in Server
  BY DEF Aged
<1>2. \A f \in Files : u.file[f] # NoConn /\ Lives(u, u.file[f])
                         => t.file[f] = u.file[f] /\ Lives(t, u.file[f])
  BY <1>1, ServerTypes DEF Aged, FileAged, TcpAged, Lives
<1> QED
  BY <1>2 DEF Carries

(* A step that leaves alone what is unread, and every slot but i.          *)
LEMMA SoundStep ==
  ASSUME NEW s, NEW t, NEW ty, NEW sl, NEW sl2, NEW buf, NEW buf2,
         Sound(s, ty, sl, buf), ServerOK(t), t.unread = s.unread,
         sl \in [Slots -> Files \cup {_sock}], sl2 \in [Slots -> Files \cup {_sock}],
         NEW i \in Slots, \A j \in Slots : j # i => sl2[j] = sl[j] /\ buf2[j] = buf[j],
         NEW g, Carries(s, t, g),
         \/ sl2[i] = sl[i] /\ g = _sock /\ buf2[i] \in {buf[i], <<>>}
         \/ /\ Holds(s, sl[i]) => ~Lives(s, s.file[sl[i]])
            /\ \/ sl2[i] = _sock /\ g = _sock
               \/ sl2[i] = g /\ buf2[i] = <<>>
  PROVE  Sound(t, ty, sl2, buf2)
<1>1. Unread(t, ty)
  BY DEF Sound, Unread
<1>2. ASSUME NEW k \in Slots, NEW c \in Conns, Alone(t, sl2, k, c), Lives(t, c)
      PROVE  Piece(buf2[k], c, ty[c] - Len(t.unread[c]))
  <2>1. CASE buf2[k] = <<>>
    <3>1. \A p \in 1 .. Len(buf2[k]) : FALSE
      BY <2>1
    <3> QED
      BY <3>1 DEF Piece
  <2>2. CASE buf2[k] # <<>>
    <3> DEFINE f == sl2[k]
    <3>1. f \in Files /\ t.file[f] = c /\ c # NoConn
      BY <1>2, ServerAssumption DEF Alone
    <3>2. f # g
      <4>1. g = _sock => f # g
        BY <3>1 DEF Files, _sock
      <4>2. f = g /\ g # _sock => sl2[i] = g /\ buf2[i] = <<>>
        BY <3>1 DEF Files, _sock
      <4>3. f = g /\ g # _sock => k = i
        BY <1>2, <4>2 DEF Alone
      <4> QED
        BY <2>2, <4>1, <4>2, <4>3
    <3>3. s.file[f] = c /\ Lives(s, c)
      BY <1>2, <3>1, <3>2 DEF Carries
    <3>4. sl[k] = f /\ buf2[k] = buf[k]
      BY <2>2, <3>1, <3>2 DEF Files, _sock
    <3>5. Alone(s, sl, k, c)
      <4> SUFFICES ASSUME NEW j \in Slots, sl[j] # _sock, s.file[sl[j]] = c, j # k
                   PROVE  FALSE
        BY <3>1, <3>3, <3>4 DEF Alone, Files, _sock
      <4>1. sl[j] = f
        BY <3>1, <3>3 DEF Sound, ServerOK, FilesApart
      <4>2. sl2[j] # sl[j]
        BY <1>2, <3>1, <4>1 DEF Alone
      <4>3. j = i /\ Holds(s, sl[i]) /\ s.file[sl[i]] = c /\ ~Lives(s, c)
        BY <3>1, <3>3, <4>1, <4>2 DEF Holds
      <4> QED
        BY <3>3, <4>3
    <3> QED
      BY <3>3, <3>4, <3>5 DEF Sound, Own
  <2> QED
    BY <2>1, <2>2
<1> QED
  BY <1>1, <1>2 DEF Sound, Own

(* Nothing but the server changes, and it ages; a buffer may be cleared.   *)
LEMMA SoundAged ==
  ASSUME NEW s, NEW t, NEW ty, NEW sl, NEW buf, NEW buf2, Sound(s, ty, sl, buf), Aged(s, t),
         sl \in [Slots -> Files \cup {_sock}],
         NEW i \in Slots, buf2 = buf \/ buf2 = [buf EXCEPT ![i] = <<>>], buf \in [Slots -> Seq(Char)]
  PROVE  Sound(t, ty, sl, buf2)
<1>1. s \in Server /\ ServerOK(t) /\ t.unread = s.unread /\ Carries(s, t, _sock)
  BY AgedOK, AgedCarries DEF Sound, ServerOK, Aged
<1>2. buf2[i] \in {buf[i], <<>>} /\ \A j \in Slots : j # i => buf2[j] = buf[j]
  OBVIOUS
<1> QED
  BY <1>1, <1>2, SoundStep

(* A character is taken from the connection behind slot i: it goes to the  *)
(* end of the slot's buffer, or the buffer is cleared.                     *)
TakenFrom(s, f) == [s EXCEPT !.unread[s.file[f]] = Tail(@)]

LEMMA TakenSound ==
  ASSUME NEW s, NEW ty \in [Conns -> Nat], NEW sl \in [Slots -> Files \cup {_sock}],
         NEW buf \in [Slots -> Seq(Char)], NEW buf2, NEW i \in Slots,
         Sound(s, ty, sl, buf), available(s, sl[i]),
         LET ch == <<s.file[sl[i]], Head(s.unread[s.file[sl[i]]])>>
         IN  \/ buf2 = [buf EXCEPT ![i] = <<>>]
             \/ Says(ch) = "x" /\ buf2 = [buf EXCEPT ![i] = Append(@, ch)]
  PROVE  /\ Sound(TakenFrom(s, sl[i]), ty, sl, buf2)
         /\ <<s.file[sl[i]], Head(s.unread[s.file[sl[i]]])>> \in Char
<1> DEFINE c == s.file[sl[i]]
           t == TakenFrom(s, sl[i])
           ch == <<c, Head(s.unread[c])>>
<1>1. /\ s \in Server /\ sl[i] \in Files /\ c \in Conns /\ c # NoConn
      /\ s.unread \in [Conns -> Seq(Nat)] /\ s.unread[c] \in Seq(Nat) /\ s.unread[c] # <<>>
  BY ServerTypes, ServerAssumption DEF Sound, ServerOK, available, Holds
<1>2. /\ Len(s.unread[c]) \in Nat \ {0} /\ Tail(s.unread[c]) \in Seq(Nat)
      /\ Head(s.unread[c]) \in Nat /\ Head(s.unread[c]) = s.unread[c][1]
      /\ Len(Tail(s.unread[c])) = Len(s.unread[c]) - 1
      /\ \A p \in 1 .. Len(s.unread[c]) - 1 : Tail(s.unread[c])[p] = s.unread[c][p + 1]
  BY <1>1, Shortened, Zenon
<1>3. /\ t.tcp = s.tcp /\ t.file = s.file /\ t.clients = s.clients /\ t.backlog = s.backlog
      /\ t.unread = [s.unread EXCEPT ![c] = Tail(@)] /\ t \in Server
  <2>1. [s.unread EXCEPT ![c] = Tail(@)] \in [Conns -> Seq(Nat)]
    BY <1>1, <1>2
  <2> QED
    BY <1>1, <2>1 DEF Server, TakenFrom
<1>11. /\ \A d : Alone(s, sl, i, d) => d = c
       /\ \A k \in Slots : Alone(s, sl, k, c) => i = k
  BY <1>1 DEF Alone, Files, _sock
<1>12. /\ DOMAIN buf = Slots /\ \A k \in Slots : k # i => buf2[k] = buf[k]
       /\ buf2[i] = <<>> \/ (Says(ch) = "x" /\ buf2[i] = Append(buf[i], ch))
       /\ ch = <<c, Head(s.unread[c])>>
  <2>1. DOMAIN buf = Slots /\ ch = <<c, Head(s.unread[c])>>
    OBVIOUS
  <2>2. CASE buf2 = [buf EXCEPT ![i] = <<>>]
    <3>1. buf2[i] = <<>> /\ \A k \in Slots : k # i => buf2[k] = buf[k]
      BY <2>1, <2>2
    <3> QED
      BY <2>1, <3>1
  <2>3. CASE Says(ch) = "x" /\ buf2 = [buf EXCEPT ![i] = Append(@, ch)]
    <3> DEFINE a == Append(buf[i], ch)
    <3>1. buf2 = [buf EXCEPT ![i] = a]
      BY <2>3
    <3> HIDE DEF a
    <3>2. buf2[i] = a /\ \A k \in Slots : k # i => buf2[k] = buf[k]
      BY <2>1, <3>1
    <3> QED
      BY <2>1, <2>3, <3>2 DEF a
  <2> QED
    BY <2>2, <2>3
<1> HIDE DEF t, c, ch
<1>4. ServerOK(t)
  BY <1>3 DEF Sound, ServerOK, FilesApart, ListComplete, BacklogOK
<1>10. /\ t.unread[c] = Tail(s.unread[c])
       /\ \A d \in Conns : d # c => t.unread[d] = s.unread[d]
  BY <1>1, <1>3
<1>5. /\ Len(s.unread[c]) <= ty[c] /\ ty[c] \in Nat
      /\ \A p \in 1 .. Len(s.unread[c]) : s.unread[c][p] = ty[c] - Len(s.unread[c]) + p
  BY <1>1 DEF Sound, Unread
<1>6. Head(s.unread[c]) = ty[c] - Len(s.unread[c]) + 1
  <2>1. 1 \in 1 .. Len(s.unread[c])
    BY <1>2
  <2> QED
    BY <1>2, <1>5, <2>1
<1>7. Unread(t, ty)
  <2> SUFFICES ASSUME NEW d \in Conns
               PROVE  /\ Len(t.unread[d]) <= ty[d]
                      /\ \A p \in 1 .. Len(t.unread[d]) : t.unread[d][p] = ty[d] - Len(t.unread[d]) + p
    BY DEF Unread
  <2>1. CASE d # c
    BY <1>10, <2>1 DEF Sound, Unread
  <2>2. CASE d = c
    <3>1. t.unread[d] = Tail(s.unread[c])
      BY <1>10, <2>2
    <3>2. \A p \in 1 .. Len(s.unread[c]) - 1 :
            Tail(s.unread[c])[p] = ty[c] - (Len(s.unread[c]) - 1) + p
      <4> DEFINE n == Len(s.unread[c])
                 m == ty[c]
      <4>1. n \in Nat \ {0} /\ m \in Nat
        BY <1>2, <1>5
      <4>2. \A p \in 1 .. n : s.unread[c][p] = m - n + p
        BY <1>5
      <4>3. \A p \in 1 .. n - 1 : Tail(s.unread[c])[p] = s.unread[c][p + 1]
        BY <1>2
      <4> HIDE DEF n, m
      <4>4. \A p \in 1 .. n - 1 : p + 1 \in 1 .. n /\ m - n + (p + 1) = m - (n - 1) + p
        BY <4>1
      <4>5. \A p \in 1 .. n - 1 : Tail(s.unread[c])[p] = m - (n - 1) + p
        BY <4>2, <4>3, <4>4
      <4> QED
        BY <4>5 DEF n, m
    <3>3. Len(s.unread[c]) - 1 <= ty[c]
      BY <1>2, <1>5
    <3> QED
      BY <1>2, <2>2, <3>1, <3>2, <3>3
  <2> QED
    BY <2>1, <2>2
<1>8. ASSUME NEW k \in Slots, NEW d \in Conns, Alone(t, sl, k, d), Lives(t, d)
      PROVE  Piece(buf2[k], d, ty[d] - Len(t.unread[d]))
  <2>1. Alone(s, sl, k, d) /\ Lives(s, d) /\ Piece(buf[k], d, ty[d] - Len(s.unread[d]))
    <3>1. Alone(s, sl, k, d) /\ Lives(s, d)
      BY <1>3, <1>8 DEF Alone, Lives
    <3> QED
      BY <3>1 DEF Sound, Own
  <2>2. d = c <=> k = i
    BY <1>11, <2>1
  <2>3. CASE k # i
    <3>1. buf2[k] = buf[k] /\ t.unread[d] = s.unread[d]
      BY <1>10, <1>12, <2>2, <2>3
    <3> QED
      BY <2>1, <3>1
  <2>4. CASE buf2[k] = <<>>
    <3>1. \A p \in 1 .. Len(buf2[k]) : FALSE
      BY <2>4
    <3> QED
      BY <3>1 DEF Piece
  <2>5. CASE k = i /\ Says(ch) = "x" /\ buf2[i] = Append(buf[i], ch)
    <3> DEFINE b == buf[i]
               n == ty[c] - Len(s.unread[c])
    <3>1. d = c /\ b \in Seq(Char) /\ buf2[k] = Append(b, ch) /\ ch \in Char
      BY <1>1, <1>2, <1>12, <2>2, <2>5 DEF Char
    <3>3. ty[d] - Len(t.unread[d]) = n + 1 /\ n \in Nat
      <4> DEFINE m == ty[c]
                 l == Len(s.unread[c])
      <4>1. m \in Nat /\ l \in Nat \ {0} /\ l <= m /\ Len(t.unread[d]) = l - 1 /\ ty[d] = m
        BY <1>2, <1>5, <1>10, <3>1
      <4> HIDE DEF m, l
      <4>2. m - (l - 1) = m - l + 1 /\ m - l \in Nat
        BY <4>1
      <4> QED
        BY <4>1, <4>2 DEF m, l
    <3>4. ch = <<c, n + 1>> /\ Piece(b, c, n)
      BY <1>6, <1>12, <2>1, <2>5, <3>1
    <3> HIDE DEF b, n
    <3>2. /\ Len(Append(b, ch)) = Len(b) + 1 /\ Len(b) \in Nat
          /\ \A p \in 1 .. Len(b) : Append(b, ch)[p] = b[p]
          /\ Append(b, ch)[Len(b) + 1] = ch
      <4>1. ch \in Char /\ b \in Seq(Char)
        BY <3>1
      <4> QED
        BY <4>1, Appended, LenProperties
    <3> DEFINE a == Append(b, ch)
               m == n + 1
               l == Len(b) + 1
    <3>5. /\ Len(a) = l /\ l \in Nat /\ m \in Nat /\ a[l] = <<c, m>> /\ Says(a[l]) = "x"
          /\ \A p \in 1 .. l - 1 : a[p] = b[p] /\ Len(b) = l - 1 /\ n = m - 1
      BY <2>5, <3>2, <3>3, <3>4
    <3> HIDE DEF a, m, l
    <3>6. Piece(a, c, m)
      <4> SUFFICES ASSUME NEW p \in 1 .. l PROVE a[p] = <<c, m - l + p>> /\ Says(a[p]) = "x"
        BY <3>5 DEF Piece
      <4>1. CASE p = l
        <5>1. m - l + p = m
          BY <3>5, <4>1
        <5> QED
          BY <3>5, <4>1, <5>1
      <4>2. CASE p # l
        <5>1. p \in 1 .. l - 1 /\ (m - 1) - (l - 1) + p = m - l + p
          BY <3>5, <4>2
        <5>2. b[p] = <<c, (m - 1) - (l - 1) + p>> /\ Says(b[p]) = "x" /\ a[p] = b[p]
          BY <3>4, <3>5, <5>1 DEF Piece
        <5> QED
          BY <5>1, <5>2
      <4> QED
        BY <4>1, <4>2
    <3> QED
      BY <3>1, <3>3, <3>6 DEF a, m
  <2> QED
    BY <1>12, <2>3, <2>4, <2>5
<1>9. ch \in Char
  BY <1>1, <1>2, <1>12 DEF Char
<1> QED
  BY <1>4, <1>7, <1>8, <1>9 DEF Sound, Own, t, ch, c

-----------------------------------------------------------------------------
(* The inductive invariant.                                                *)
LEMMA Parts ==
  ASSUME IInv
  PROVE  /\ server \in Server /\ ServerOK(server)
         /\ typed \in [Conns -> Nat] /\ slot \in [Slots -> Files \cup {_sock}]
         /\ inputString \in [Slots -> Seq(Char)] /\ turn \in Slots
         /\ inclusionMode \in BOOLEAN /\ over \in BOOLEAN /\ clientsConnected \in [Slots -> BOOLEAN]
         /\ full \in BOOLEAN
BY DEF IInv, TypeOK, Sound

LEMMA ServerNext ==
  ASSUME NEW STATE s, s \in Server, Becomes(s)
  PROVE  server' = s
<1>1. s = [tcp |-> s.tcp, unread |-> s.unread, file |-> s.file,
           clients |-> s.clients, backlog |-> s.backlog]
  BY DEF Server
<1> QED
  BY <1>1 DEF server, Becomes

LEMMA InitInv == ASSUME Init PROVE IInv
<1>1. /\ server \in Server /\ ServerOK(server)
  <2>1. /\ tcp \in [Conns -> Tcp] /\ unread \in [Conns -> Seq(Nat)]
        /\ file \in [Files -> Conns \cup {NoConn}]
        /\ clients \in Seq(Files) /\ backlog \in Seq(Conns) /\ Len(clients) = 0 /\ Len(backlog) = 0
    BY DEF Init, ServerInit, Tcp
  <2>2. \A f \in Files : file[f] = NoConn
    BY DEF Init, ServerInit
  <2>3. Len(server.clients) <= max_clients
    BY <2>1, ServerAssumption DEF server
  <2> QED
    BY <2>1, <2>2, <2>3 DEF ServerOK, server, Server, FilesApart, ListComplete, BacklogOK
<1>2. Unread(server, typed)
  BY DEF Init, ServerInit, Unread, server
<1>3. Own(server, typed, slot, inputString)
  BY DEF Init, Own, Alone
<1>4. TypeOK
  <2>1. max_clients \in Nat /\ 1 \in Slots /\ Len(clients) <= max_clients
    BY ServerAssumption DEF Init, ServerInit, Slots
  <2>2. \A c \in Conns : typed[c] = 0 /\ Len(Script[c]) \in Nat
    BY GatewayAssumption, LenProperties DEF Init
  <2>3. inputString \in [Slots -> Seq(Char)] /\ \A i \in Slots : Len(inputString[i]) = 0
    BY DEF Init
  <2>4. MY_GATEWAY_MAX_RECEIVE_LENGTH \in Nat \ {0}
    BY GatewayAssumption
  <2>5. /\ typed \in [Conns -> Nat] /\ \A c \in Conns : typed[c] <= Len(Script[c])
        /\ \A i \in Slots : Len(inputString[i]) < MY_GATEWAY_MAX_RECEIVE_LENGTH
    <3>1. typed \in [Conns -> Nat]
      BY DEF Init
    <3> QED
      BY <2>2, <2>3, <2>4, <3>1
  <2>6. slot \in [Slots -> Files \cup {_sock}] /\ clientsConnected \in [Slots -> BOOLEAN]
    BY DEF Init
  <2> QED
    BY <1>1, <2>1, <2>3, <2>5, <2>6 DEF Init, TypeOK
<1> QED
  BY <1>1, <1>2, <1>3, <1>4 DEF IInv, Sound

(* Steps that leave the lists of the controllers' characters, the slots and *)
(* the buffers alone, or clear one.                                        *)
LEMMA QuietStep ==
  ASSUME IInv, Aged(server, server'),
         UNCHANGED <<typed, slot, clientsConnected>>, full' \in BOOLEAN, turn' \in Slots,
         inputString' = inputString,
         at' \in {"inclusion", "check", "reject", "read", "transport"},
         inclusionMode' \in BOOLEAN, over' \in BOOLEAN
  PROVE  IInv'
<1>1. Sound(server', typed', slot', inputString')
  BY Parts, SoundAged DEF IInv
<1>2. server' \in Server /\ Len(server'.clients) <= max_clients
  BY <1>1 DEF Sound, ServerOK
<1>3. Len(clients') <= max_clients
  BY <1>2 DEF server
<1> QED
  BY <1>1, <1>2, <1>3 DEF IInv, TypeOK

LEMMA ModeSetAged ==
  ASSUME NEW STATE s, ServerOK(s), NEW STATE mode, mode \in BOOLEAN, NEW late,
         inclusionMode \in BOOLEAN, over \in BOOLEAN, ModeSet(mode, s, late)
  PROVE  Aged(s, server') /\ inclusionMode' \in BOOLEAN /\ over' \in BOOLEAN
<1>1. s \in Server
  BY DEF ServerOK
<1>2. CASE mode = inclusionMode
  <2>1. server' = s
    BY <1>1, <1>2, ServerNext DEF ModeSet
  <2> QED
    BY <1>1, <1>2, <2>1, AgedSelf DEF ModeSet, inclusion
<1>3. CASE mode # inclusionMode
  <2>1. Aged(s, Write(s, late)) /\ Write(s, late) \in Server
    BY WriteAged DEF Aged
  <2>2. server' = Write(s, late)
    BY <1>3, <2>1, ServerNext DEF ModeSet
  <2> QED
    BY <1>3, <2>1, <2>2 DEF ModeSet
<1> QED
  BY <1>2, <1>3

LEMMA InclusionProcessInv == ASSUME IInv, InclusionProcess PROVE IInv'
<1>1. PICK late \in Late, pressed \in BOOLEAN :
        IF inclusionMode THEN ModeSet(~over, server, late) ELSE ModeSet(pressed, server, late)
  BY DEF InclusionProcess
<1>2. PICK mode \in BOOLEAN : ModeSet(mode, server, late)
  <2>1. over \in BOOLEAN
    BY Parts
  <2>2. (~over) \in BOOLEAN
    BY <2>1
  <2> QED
    BY <1>1, <2>2
<1>3. Aged(server, server') /\ inclusionMode' \in BOOLEAN /\ over' \in BOOLEAN
  BY <1>2, Parts, ModeSetAged
<1>4. 1 \in Slots
  BY ServerAssumption DEF Slots
<1> QED
  BY <1>3, <1>4, QuietStep DEF InclusionProcess, GoTo

LEMMA TransportProcessInv == ASSUME IInv, TransportProcess PROVE IInv'
<1>1. Aged(server, server')
  <2>1. CASE Becomes(server)
    BY <2>1, Parts, ServerNext, AgedSelf
  <2>2. ASSUME NEW late, Becomes(Write(server, late)) PROVE Aged(server, server')
    <3>1. Aged(server, Write(server, late)) /\ Write(server, late) \in Server
      BY Parts, WriteAged DEF Aged
    <3> QED
      BY <2>2, <3>1, ServerNext
  <2> QED
    BY <2>1, <2>2 DEF TransportProcess
<1>2. turn' \in Slots /\ at' \in {"inclusion", "transport"}
  BY Parts, ServerAssumption DEF TransportProcess, GoTo, Slots
<1> QED
  BY <1>1, <1>2, Parts, QuietStep DEF TransportProcess, gateway, inclusion

LEMMA TickInv == ASSUME IInv, Tick PROVE IInv'
<1>1. Aged(server, server')
  BY Parts, ServerNext, AgedSelf DEF Tick
<1>2. at \in {"inclusion", "check", "reject", "read", "transport"}
  BY DEF IInv, TypeOK
<1> QED
  BY <1>1, <1>2, Parts, QuietStep DEF Tick, gateway

LEMMA StutterInv == ASSUME IInv, UNCHANGED vars PROVE IInv'
<1>1. Aged(server, server')
  BY Parts, AgedSelf DEF vars, server
<1>2. at \in {"inclusion", "check", "reject", "read", "transport"}
  BY DEF IInv, TypeOK
<1> QED
  BY <1>1, <1>2, Parts, QuietStep DEF vars

LEMMA Turned == ASSUME turn \in Slots, NEW here, NEW after, NextSlot(here, after)
                PROVE  turn' \in Slots /\ at' \in {here, after}
BY ServerAssumption DEF NextSlot, GoTo, Slots

LEMMA ReadNothingInv == ASSUME IInv, ReadNothing PROVE IInv'
<1>1. Aged(server, Looked(server, slot[turn])) /\ Looked(server, slot[turn]) \in Server
  BY Parts, LookedAged DEF Aged
<1>2. Aged(server, server')
  BY <1>1, ServerNext DEF ReadNothing
<1>3. turn' \in Slots /\ at' \in {"read", "transport"}
  BY Parts, Turned DEF ReadNothing
<1> QED
  BY <1>2, <1>3, Parts, QuietStep DEF ReadNothing, gateway, inclusion

-----------------------------------------------------------------------------
(* The first loop of gatewayTransportAvailable.                            *)
LEMMA RejectInv == ASSUME IInv, Reject PROVE IInv'
<1> DEFINE t == IF full THEN Cleared(server) ELSE server
<1>1. Aged(server, t) /\ ServerOK(t) /\ t \in Server /\ server \in Server
  BY Parts, ClearedAged, AgedSelf, AgedOK DEF ServerOK
<1>2. PICK slow \in BOOLEAN :
        Becomes(IF full /\ CanAccept(t) THEN Stopped(Accepted(t), Lowest(t), slow) ELSE t)
  BY DEF Reject
<1> HIDE DEF t
<1>3. ServerOK(server') /\ server'.unread = server.unread /\ Carries(server, server', _sock)
  <2>1. CASE ~(full /\ CanAccept(t))
    <3>1. server' = t
      BY <1>1, <1>2, <2>1, ServerNext
    <3> QED
      BY <1>1, <3>1, AgedCarries DEF Aged
  <2>2. CASE full /\ CanAccept(t)
    <3> DEFINE a == Accepted(t)
               g == Lowest(t)
               u == Stopped(a, g, slow)
    <3>1. /\ g \in Files /\ ServerOK(a) /\ a.unread = t.unread /\ a.tcp = t.tcp
          /\ a.file[g] \in Conns /\ \A f \in Files : f # g => a.file[f] = t.file[f]
      <4>1. /\ g \in Files /\ ServerOK(a) /\ a.unread = t.unread /\ a.tcp = t.tcp
            /\ Head(t.backlog) \in Conns /\ a.file = [t.file EXCEPT ![g] = Head(t.backlog)]
        BY <1>1, <2>2, AcceptedOK
      <4>2. t.file \in [Files -> Conns \cup {NoConn}]
        BY <1>1, ServerTypes
      <4> HIDE DEF a, g
      <4> QED
        BY <4>1, <4>2
    <3> HIDE DEF a, g
    <3>2. a.file[g] # NoConn
      BY <3>1, ServerAssumption
    <3>3. /\ ServerOK(u) /\ u.unread = a.unread /\ u.tcp[a.file[g]] \in {"error", "reset"}
          /\ \A c \in Conns : c # a.file[g] => u.tcp[c] = a.tcp[c]
          /\ u.file[g] \in {a.file[g], NoConn}
          /\ \A f \in Files : f # g => u.file[f] = a.file[f]
      BY <3>1, <3>2, StoppedOK
    <3> HIDE DEF u
    <3>4. server' = u
      <4>1. u \in Server
        BY <3>3 DEF ServerOK
      <4> QED
        BY <1>2, <2>2, <4>1, ServerNext DEF u, a, g
    <3>5. Carries(t, u, _sock)
      <4> SUFFICES ASSUME NEW f \in Files, u.file[f] # NoConn, Lives(u, u.file[f])
                   PROVE  t.file[f] = u.file[f] /\ Lives(t, u.file[f])
        BY DEF Carries
      <4>1. f # g /\ u.file[f] = t.file[f] /\ u.file[f] # a.file[g]
        BY <3>1, <3>3 DEF Lives
      <4>2. u.file[f] \in Conns
        BY <1>1, <4>1, ServerTypes
      <4> QED
        BY <3>1, <3>3, <4>1, <4>2 DEF Lives
    <3>6. u \in Server
      BY <3>3 DEF ServerOK
    <3> QED
      BY <1>1, <3>1, <3>3, <3>4, <3>5, <3>6, AgedCarries DEF Aged
  <2> QED
    BY <2>1, <2>2
<1>4. 1 \in Slots
  BY ServerAssumption DEF Slots
<1>5. Sound(server', typed', slot', inputString')
  <2>1. Sound(server', typed, slot, inputString)
    BY <1>3, <1>4, Parts, SoundStep DEF IInv
  <2> QED
    BY <2>1 DEF Reject, gateway
<1>6. server' \in Server /\ Len(clients') <= max_clients
  <2>1. server' \in Server /\ Len(server'.clients) <= max_clients
    BY <1>3 DEF ServerOK
  <2> QED
    BY <2>1 DEF server
<1> QED
  BY <1>4, <1>5, <1>6 DEF IInv, TypeOK, Reject, GoTo, gateway, inclusion

LEMMA ConnectedTyped == ASSUME NEW s, NEW f PROVE connected(s, f) \in BOOLEAN
BY Zenon DEF connected, Holds

LEMMA NotConnected ==
  ASSUME NEW s, NEW f, ~connected(s, f), Holds(s, f)
  PROVE  ~Lives(s, s.file[f])
BY DEF connected, Lives

LEMMA CheckInv == ASSUME IInv, Check PROVE IInv'
<1>1. PICK late \in Late, later \in Late, more \in BOOLEAN :
        LET i == turn
            s == Looked(server, slot[i])
            gone == ~connected(server, slot[i])
            t == IF gone THEN Cleared(s) ELSE s
            new == gone /\ CanAccept(t)
            u == IF new THEN Greeted(t, late, later, more) ELSE t
            sock == IF new THEN Lowest(t)
                    ELSE IF gone /\ clientsConnected[i] THEN _sock ELSE slot[i]
        IN  /\ Becomes(Looked(u, sock))
            /\ slot' = [slot EXCEPT ![i] = sock]
            /\ inputString' = IF new THEN BuffersWith(i) ELSE inputString
            /\ clientsConnected' = [clientsConnected EXCEPT ![i] = connected(u, sock)]
            /\ full' = (full /\ connected(u, sock))
  BY DEF Check
<1> DEFINE i == turn
           s == Looked(server, slot[i])
           gone == ~connected(server, slot[i])
           t == IF gone THEN Cleared(s) ELSE s
           new == gone /\ CanAccept(t)
           u == IF new THEN Greeted(t, late, later, more) ELSE t
           sock == IF new THEN Lowest(t)
                   ELSE IF gone /\ clientsConnected[i] THEN _sock ELSE slot[i]
           v == Looked(u, sock)
           g == IF new THEN Lowest(t) ELSE _sock
<1>2. /\ Becomes(v) /\ slot' = [slot EXCEPT ![i] = sock]
      /\ clientsConnected' = [clientsConnected EXCEPT ![i] = connected(u, sock)]
      /\ full' = (full /\ connected(u, sock))
  BY <1>1
<1>3. /\ new => inputString' = [inputString EXCEPT ![i] = <<>>]
      /\ ~new => inputString' = inputString
  BY <1>1 DEF BuffersWith
<1>4. ServerOK(server) /\ server \in Server /\ slot[i] \in Files \cup {_sock} /\ i \in Slots
  BY Parts
<1> HIDE DEF i
<1>5. Aged(server, s) /\ ServerOK(s)
  BY <1>4, LookedAged, AgedOK
<1> HIDE DEF s
<1>6. Aged(server, t) /\ ServerOK(t) /\ t \in Server
  <2>1. Aged(s, t) \/ t = s
    BY <1>5, ClearedAged
  <2> HIDE DEF t
  <2> QED
    BY <1>4, <1>5, <2>1, AgedTwice, AgedOK DEF ServerOK
<1> HIDE DEF t
<1>7. gone => (Holds(server, slot[i]) => ~Lives(server, server.file[slot[i]]))
  BY NotConnected
<1> HIDE DEF gone
<1>8. /\ new => gone /\ CanAccept(t) /\ u = Greeted(t, late, later, more) /\ g = Lowest(t) /\ sock = g
      /\ ~new => u = t /\ g = _sock /\ (sock = slot[i] \/ (gone /\ sock = _sock))
  OBVIOUS
<1> HIDE DEF u, sock, g, new
<1>9. /\ ServerOK(u) /\ u \in Server /\ u.unread = server.unread /\ Carries(server, u, g)
      /\ sock \in Files \cup {_sock}
  <2>1. CASE ~new
    BY <1>4, <1>6, <1>8, <2>1, AgedCarries DEF Aged
  <2>2. CASE new
    <3> DEFINE a == Accepted(t)
    <3>1. /\ g \in Files /\ ServerOK(a) /\ a.unread = t.unread /\ a.tcp = t.tcp
          /\ Head(t.backlog) \in Conns /\ a.file = [t.file EXCEPT ![g] = Head(t.backlog)]
      BY <1>6, <1>8, <2>2, AcceptedOK
    <3>2. Aged(a, u)
      BY <1>6, <1>8, <2>2, GreetedAged
    <3> HIDE DEF a
    <3>3. Carries(t, a, g) /\ a \in Server
      BY <1>6, <3>1, ServerTypes DEF Carries, Lives, ServerOK
    <3>4. Carries(server, a, g)
      BY <1>4, <1>6, <3>3, AgedCarries
    <3>5. Carries(server, u, g)
      BY <3>2, <3>3, <3>4, CarriesAged
    <3>6. ServerOK(u) /\ u \in Server
      BY <3>1, <3>2, AgedOK DEF Aged
    <3> QED
      BY <1>6, <1>8, <2>2, <3>1, <3>2, <3>5, <3>6 DEF Aged
  <2> QED
    BY <2>1, <2>2
<1>10. ServerOK(v) /\ v \in Server /\ v.unread = server.unread /\ Carries(server, v, g)
  <2>1. Aged(u, v)
    BY <1>9, LookedAged
  <2> HIDE DEF v
  <2> QED
    BY <1>9, <2>1, AgedOK, CarriesAged DEF Aged
<1> HIDE DEF v
<1>11. server' = v
  BY <1>2, <1>10, ServerNext
<1>12. /\ slot \in [Slots -> Files \cup {_sock}] /\ slot' \in [Slots -> Files \cup {_sock}]
       /\ slot'[i] = sock /\ \A j \in Slots : j # i => slot'[j] = slot[j]
  BY <1>2, <1>4, <1>9, Parts
<1>13. /\ inputString' \in [Slots -> Seq(Char)]
       /\ \A j \in Slots : j # i => inputString'[j] = inputString[j]
       /\ \A j \in Slots : Len(inputString'[j]) < MY_GATEWAY_MAX_RECEIVE_LENGTH
       /\ new => inputString'[i] = <<>>
       /\ ~new => inputString'[i] = inputString[i]
  <2>1. /\ inputString \in [Slots -> Seq(Char)]
        /\ \A j \in Slots : Len(inputString[j]) < MY_GATEWAY_MAX_RECEIVE_LENGTH
    BY DEF IInv, TypeOK
  <2>2. CASE ~new
    BY <1>3, <2>1, <2>2
  <2>3. CASE new
    <3>1. inputString' = [inputString EXCEPT ![i] = <<>>]
      BY <1>3, <2>3
    <3>2. inputString' \in [Slots -> Seq(Char)] /\ inputString'[i] = <<>>
          /\ \A j \in Slots : j # i => inputString'[j] = inputString[j]
      BY <1>4, <2>1, <3>1
    <3>3. Len(inputString'[i]) < MY_GATEWAY_MAX_RECEIVE_LENGTH
      BY <3>2, GatewayAssumption
    <3> QED
      BY <2>1, <2>3, <3>2, <3>3
  <2> QED
    BY <2>2, <2>3
<1>14. Sound(server', typed', slot', inputString')
  <2>1. \/ slot'[i] = slot[i] /\ g = _sock /\ inputString'[i] \in {inputString[i], <<>>}
        \/ /\ Holds(server, slot[i]) => ~Lives(server, server.file[slot[i]])
           /\ \/ slot'[i] = _sock /\ g = _sock
              \/ slot'[i] = g /\ inputString'[i] = <<>>
    BY <1>7, <1>8, <1>12, <1>13
  <2>2. Sound(server, typed, slot, inputString)
    BY DEF IInv
  <2>3. Sound(v, typed, slot', inputString')
    <3>1. \A j \in Slots : j # i => slot'[j] = slot[j] /\ inputString'[j] = inputString[j]
      BY <1>12, <1>13
    <3>2. /\ ServerOK(v) /\ v.unread = server.unread /\ Carries(server, v, g)
          /\ slot \in [Slots -> Files \cup {_sock}] /\ slot' \in [Slots -> Files \cup {_sock}]
          /\ i \in Slots
      BY <1>4, <1>10, <1>12
    <3> QED
      BY <2>1, <2>2, <3>1, <3>2, SoundStep
  <2> QED
    BY <1>11, <2>3 DEF Check
<1>15. clientsConnected' \in [Slots -> BOOLEAN] /\ full' \in BOOLEAN
  <2>1. connected(u, sock) \in BOOLEAN
    BY ConnectedTyped
  <2> QED
    BY <1>2, <2>1, Parts
<1>16. server' \in Server /\ Len(clients') <= max_clients
  <2>1. server' \in Server /\ Len(server'.clients) <= max_clients
    BY <1>14 DEF Sound, ServerOK
  <2> QED
    BY <2>1 DEF server
<1>17. turn' \in Slots /\ at' \in {"check", "reject"}
  BY Parts, Turned DEF Check
<1> QED
  BY <1>12, <1>13, <1>14, <1>15, <1>16, <1>17 DEF IInv, TypeOK, Check, inclusion

-----------------------------------------------------------------------------
(* _readFromClient.                                                        *)
LEMMA ReadSound ==
  ASSUME IInv, NEW i \in Slots, Reads(i), NEW b,
         b = [inputString EXCEPT ![i] = <<>>]
         \/ (Says(NextChar(i)) = "x" /\ b = [inputString EXCEPT ![i] = Append(@, NextChar(i))])
  PROVE  Sound(Taken(i), typed, slot, b) /\ NextChar(i) \in Char
<1>1. Taken(i) = TakenFrom(server, slot[i])
  BY DEF Taken, TakenFrom, server
<1>2. NextChar(i) = <<server.file[slot[i]], Head(server.unread[server.file[slot[i]]])>>
  BY DEF NextChar, server
<1>3. /\ Sound(server, typed, slot, inputString) /\ available(server, slot[i])
      /\ typed \in [Conns -> Nat] /\ slot \in [Slots -> Files \cup {_sock}]
      /\ inputString \in [Slots -> Seq(Char)]
  BY Parts DEF IInv, Reads
<1> DEFINE ch == <<server.file[slot[i]], Head(server.unread[server.file[slot[i]]])>>
<1>4. \/ b = [inputString EXCEPT ![i] = <<>>]
      \/ Says(ch) = "x" /\ b = [inputString EXCEPT ![i] = Append(@, ch)]
  <2> HIDE DEF ch
  <2>1. NextChar(i) = ch
    BY <1>2 DEF ch
  <2> QED
    BY <2>1
<1> QED
  <2>1. Sound(TakenFrom(server, slot[i]), typed, slot, b) /\ ch \in Char
    BY <1>3, <1>4, TakenSound
  <2> QED
    BY <1>1, <1>2, <2>1

(* The other variables, after a character was read.                        *)
LEMMA ReadStep ==
  ASSUME IInv, Sound(server', typed, slot, inputString'), NEW i \in Slots,
         NEW b, b \in Seq(Char), Len(b) < MY_GATEWAY_MAX_RECEIVE_LENGTH,
         inputString' = [inputString EXCEPT ![i] = b],
         UNCHANGED <<typed, slot, clientsConnected, full>>, turn' \in Slots,
         at' \in {"read", "transport"}, inclusionMode' \in BOOLEAN, over' \in BOOLEAN
  PROVE  IInv'
<1>1. server' \in Server /\ Len(clients') <= max_clients
  <2>1. server' \in Server /\ Len(server'.clients) <= max_clients
    BY DEF Sound, ServerOK
  <2> QED
    BY <2>1 DEF server
<1>2. /\ inputString' \in [Slots -> Seq(Char)]
      /\ \A j \in Slots : Len(inputString'[j]) < MY_GATEWAY_MAX_RECEIVE_LENGTH
  BY DEF IInv, TypeOK
<1>3. Sound(server', typed', slot', inputString')
  OBVIOUS
<1> QED
  BY <1>1, <1>2, <1>3 DEF IInv, TypeOK

LEMMA TakenNext ==
  ASSUME NEW i \in Slots, NEW b, Sound(Taken(i), typed, slot, b), Becomes(Taken(i))
  PROVE  server' = Taken(i) /\ Taken(i) \in Server /\ ServerOK(Taken(i))
<1>1. Taken(i) \in Server /\ ServerOK(Taken(i))
  BY DEF Sound, ServerOK
<1> QED
  BY <1>1, ServerNext

LEMMA ReadCharInv == ASSUME IInv, NEW i \in Slots, ReadChar(i) PROVE IInv'
<1> DEFINE b == Append(inputString[i], NextChar(i))
<1>1. inputString' = [inputString EXCEPT ![i] = b] /\ Reads(i) /\ Says(NextChar(i)) = "x"
  BY DEF ReadChar
<1>2. Sound(Taken(i), typed, slot, inputString') /\ NextChar(i) \in Char
  BY <1>1, ReadSound
<1>3. server' = Taken(i)
  BY <1>2, TakenNext DEF ReadChar
<1>4. b \in Seq(Char) /\ Len(b) = Len(inputString[i]) + 1 /\ Len(inputString[i]) \in Nat
  <2>1. inputString[i] \in Seq(Char)
    BY Parts
  <2> QED
    BY <1>2, <2>1, Appended, LenProperties
<1> HIDE DEF b
<1>5. Len(b) < MY_GATEWAY_MAX_RECEIVE_LENGTH
  BY <1>4, GatewayAssumption DEF ReadChar, Room
<1>6. turn' \in Slots /\ at' \in {"read", "transport"}
  BY Parts DEF ReadChar, Reads
<1> QED
  BY <1>1, <1>2, <1>3, <1>4, <1>5, <1>6, Parts, ReadStep DEF ReadChar, inclusion

LEMMA ReadTooLongInv == ASSUME IInv, NEW i \in Slots, ReadTooLong(i) PROVE IInv'
<1>1. inputString' = [inputString EXCEPT ![i] = <<>>] /\ Reads(i)
  BY DEF ReadTooLong
<1>2. Sound(Taken(i), typed, slot, inputString')
  BY <1>1, ReadSound
<1>3. server' = Taken(i)
  BY <1>2, TakenNext DEF ReadTooLong
<1>4. <<>> \in Seq(Char) /\ Len(<<>>) < MY_GATEWAY_MAX_RECEIVE_LENGTH
  BY GatewayAssumption
<1>5. turn' \in Slots /\ at' \in {"read", "transport"}
  BY Parts, Turned DEF ReadTooLong
<1> QED
  BY <1>1, <1>2, <1>3, <1>4, <1>5, Parts, ReadStep DEF ReadTooLong, inclusion

LEMMA ProcessAged ==
  ASSUME NEW STATE s, ServerOK(s), NEW command, command \in Command,
         inclusionMode \in BOOLEAN, over \in BOOLEAN, Process(command, s)
  PROVE  Aged(s, server') /\ inclusionMode' \in BOOLEAN /\ over' \in BOOLEAN
<1>1. PICK late \in Late, later \in Late, acked \in BOOLEAN :
        LET t == IF acked THEN Write(s, late) ELSE s IN
        CASE command = "on"    -> ModeSet(TRUE, t, later)
          [] command = "off"   -> ModeSet(FALSE, t, later)
          [] command = "query" -> Becomes(Write(t, later)) /\ UNCHANGED inclusion
          [] command = "other" -> Becomes(t) /\ UNCHANGED inclusion
  BY DEF Process
<1> DEFINE t == IF acked THEN Write(s, late) ELSE s
<1>2. Aged(s, t) /\ ServerOK(t) /\ s \in Server /\ t \in Server
  <2>1. Aged(s, Write(s, late)) /\ Aged(s, s) /\ s \in Server
    BY WriteAged, AgedSelf DEF ServerOK
  <2> QED
    BY <2>1, AgedOK DEF Aged
<1>3. \/ \E mode \in BOOLEAN : ModeSet(mode, t, later)
      \/ Becomes(Write(t, later)) /\ UNCHANGED inclusion
      \/ Becomes(t) /\ UNCHANGED inclusion
  BY <1>1 DEF Command
<1> HIDE DEF t
<1>4. Aged(t, server') /\ inclusionMode' \in BOOLEAN /\ over' \in BOOLEAN
  <2>1. ASSUME NEW mode \in BOOLEAN, ModeSet(mode, t, later)
        PROVE  Aged(t, server') /\ inclusionMode' \in BOOLEAN /\ over' \in BOOLEAN
    BY <1>2, <2>1, ModeSetAged
  <2>3. CASE Becomes(Write(t, later)) /\ UNCHANGED inclusion
    <3>1. Aged(t, Write(t, later)) /\ Write(t, later) \in Server
      BY <1>2, WriteAged DEF Aged
    <3>2. server' = Write(t, later)
      BY <2>3, <3>1, ServerNext
    <3> QED
      BY <2>3, <3>1, <3>2 DEF inclusion
  <2>4. CASE Becomes(t) /\ UNCHANGED inclusion
    <3>1. server' = t
      BY <1>2, <2>4, ServerNext
    <3> QED
      BY <1>2, <2>4, <3>1, AgedSelf DEF inclusion
  <2> QED
    BY <1>3, <2>1, <2>3, <2>4
<1> QED
  BY <1>2, <1>4, AgedTwice

LEMMA ReadEndInv == ASSUME IInv, NEW i \in Slots, ReadEnd(i) PROVE IInv'
<1>1. inputString' = [inputString EXCEPT ![i] = <<>>] /\ Reads(i)
  BY DEF ReadEnd
<1>2. Sound(Taken(i), typed, slot, inputString') /\ ServerOK(Taken(i))
  <2>1. Sound(Taken(i), typed, slot, inputString')
    BY <1>1, ReadSound
  <2> QED
    BY <2>1 DEF Sound
<1>3. <<>> \in Seq(Char) /\ Len(<<>>) < MY_GATEWAY_MAX_RECEIVE_LENGTH /\ 1 \in Slots
  BY GatewayAssumption, ServerAssumption DEF Slots
<1>4. inputString' \in [Slots -> Seq(Char)]
  BY <1>1, <1>3, Parts
<1>5. CASE Becomes(Taken(i)) /\ UNCHANGED <<inclusion, at, turn>>
  <2>1. server' = Taken(i)
    BY <1>2, <1>5, TakenNext
  <2> QED
    BY <1>1, <1>2, <1>3, <1>5, <2>1, Parts, ReadStep DEF ReadEnd, Reads, inclusion
<1>6. ASSUME NEW command, command \in Command, Process(command, Taken(i)), GoTo("transport", 1)
      PROVE  IInv'
  <2>1. Aged(Taken(i), server') /\ inclusionMode' \in BOOLEAN /\ over' \in BOOLEAN
    BY <1>2, <1>6, Parts, ProcessAged
  <2>2. Sound(server', typed, slot, inputString')
    BY <1>2, <1>4, <2>1, Parts, SoundAged
  <2> QED
    BY <1>1, <1>3, <1>6, <2>1, <2>2, Parts, ReadStep DEF ReadEnd, GoTo
<1>7. ASSUME NEW line, NEW command \in Parsed(line), Says(NextChar(i)) \in Command,
             line = Append(inputString[i], NextChar(i))
      PROVE  command \in Command
  <2>1. NextChar(i) \in Char /\ inputString[i] \in Seq(Char)
    BY <1>1, ReadSound, Parts
  <2>2. Last(line) = NextChar(i)
    <3>1. Len(line) = Len(inputString[i]) + 1 /\ line[Len(inputString[i]) + 1] = NextChar(i)
      BY <1>7, <2>1, Appended
    <3> QED
      BY <3>1 DEF Last
  <2> QED
    BY <1>7, <2>2 DEF Parsed
<1> QED
  BY <1>5, <1>6, <1>7 DEF ReadEnd

-----------------------------------------------------------------------------
(* The controllers.                                                        *)
LEMMA ControllerInv == ASSUME IInv, NEW c \in Conns, Controller(c) PROVE IInv'
<1>1. /\ UNCHANGED <<slot, clientsConnected, inputString, full, at, turn, inclusionMode, over>>
      /\ UNCHANGED <<file, clients>>
  BY DEF Controller, Type, TypeChar, Connect, Close, Break, gateway, inclusion
<1>2. /\ tcp \in [Conns -> Tcp] /\ unread \in [Conns -> Seq(Nat)]
      /\ file \in [Files -> Conns \cup {NoConn}] /\ clients \in Seq(Files) /\ backlog \in Seq(Conns)
      /\ typed \in [Conns -> Nat] /\ Len(backlog) \in Nat
      /\ \A f \in Files : file[f] # NoConn => file[f] \in Conns
      /\ \A i \in 1 .. Len(backlog) : backlog[i] \in Conns
  BY Parts, ServerTypes DEF server
<1>3. /\ FilesApart(server) /\ ListComplete(server) /\ BacklogOK(server)
      /\ Unread(server, typed) /\ Own(server, typed, slot, inputString)
      /\ Len(clients) <= max_clients
  BY DEF IInv, TypeOK, Sound, ServerOK
<1>4. SUFFICES /\ server' \in Server /\ ListComplete(server') /\ BacklogOK(server')
               /\ Unread(server', typed') /\ Own(server', typed', slot, inputString)
               /\ typed' \in [Conns -> Nat] /\ \A d \in Conns : typed'[d] <= Len(Script[d])
  <2>1. FilesApart(server') /\ Len(server'.clients) <= max_clients /\ Len(clients') <= max_clients
    BY <1>1, <1>3 DEF FilesApart, server
  <2> QED
    BY <1>1, <1>4, <2>1 DEF IInv, TypeOK, Sound, ServerOK
<1>5. CASE Type(c)
  <2> DEFINE p == typed[c] + 1
  <2>1. /\ UNCHANGED <<tcp, backlog>> /\ unread' = [unread EXCEPT ![c] = Append(@, p)]
        /\ typed' = [typed EXCEPT ![c] = p] /\ typed[c] < Len(Script[c]) /\ p \in Nat
    BY <1>2, <1>5 DEF Type, TypeChar
  <2>2. /\ Append(unread[c], p) \in Seq(Nat) /\ Len(Append(unread[c], p)) = Len(unread[c]) + 1
        /\ Len(unread[c]) \in Nat /\ Append(unread[c], p)[Len(unread[c]) + 1] = p
        /\ \A k \in 1 .. Len(unread[c]) : Append(unread[c], p)[k] = unread[c][k]
    <3>1. unread[c] \in Seq(Nat) /\ p \in Nat
      BY <1>2, <2>1
    <3> HIDE DEF p
    <3> QED
      BY <3>1, Appended, LenProperties
  <2>3. /\ unread' \in [Conns -> Seq(Nat)] /\ typed' \in [Conns -> Nat]
        /\ unread'[c] = Append(unread[c], p) /\ typed'[c] = p
        /\ \A d \in Conns : d # c => unread'[d] = unread[d] /\ typed'[d] = typed[d]
    <3> DEFINE a == Append(unread[c], p)
    <3>1. unread' = [unread EXCEPT ![c] = a] /\ a \in Seq(Nat)
      BY <2>1, <2>2
    <3> HIDE DEF a
    <3>2. unread' \in [Conns -> Seq(Nat)] /\ unread'[c] = a /\ \A d \in Conns : d # c => unread'[d] = unread[d]
      BY <1>2, <3>1
    <3> QED
      BY <1>2, <2>1, <3>2 DEF a
  <2>4. \A d \in Conns : typed'[d] <= Len(Script[d])
    <3>1. Len(Script[c]) \in Nat
      BY GatewayAssumption, LenProperties
    <3> QED
      BY <1>2, <2>1, <2>3, <3>1 DEF IInv, TypeOK
  <2>5. server' \in Server
    BY <1>1, <1>2, <2>1, <2>3 DEF server, Server
  <2>6. ListComplete(server') /\ BacklogOK(server')
    BY <1>1, <1>3, <2>1 DEF server, ListComplete, BacklogOK
  <2>7. \A d \in Conns : typed'[d] - Len(unread'[d]) = typed[d] - Len(unread[d])
    <3>1. typed'[c] - Len(unread'[c]) = typed[c] - Len(unread[c])
      BY <1>2, <2>2, <2>3
    <3> QED
      BY <2>3, <3>1
  <2>8. Own(server', typed', slot, inputString)
    BY <1>1, <1>3, <2>1, <2>7 DEF server, Own, Alone, Lives
  <2>9. Unread(server', typed')
    <3> SUFFICES ASSUME NEW d \in Conns
                 PROVE  /\ Len(unread'[d]) <= typed'[d]
                        /\ \A k \in 1 .. Len(unread'[d]) : unread'[d][k] = typed'[d] - Len(unread'[d]) + k
      BY DEF Unread, server
    <3>1. CASE d # c
      <4>1. unread'[d] = unread[d] /\ typed'[d] = typed[d]
        BY <2>3, <3>1
      <4>2. /\ Len(unread[d]) <= typed[d]
            /\ \A k \in 1 .. Len(unread[d]) : unread[d][k] = typed[d] - Len(unread[d]) + k
        BY <1>3 DEF Unread, server
      <4> QED
        BY <4>1, <4>2
    <3>2. CASE d = c
      <4> DEFINE l == Len(unread[c])
                 a == Append(unread[c], p)
      <4>1. l \in Nat /\ l <= typed[c] /\ \A k \in 1 .. l : a[k] = typed[c] - l + k
        BY <1>3, <2>2 DEF Unread, server
      <4>2. Len(a) = l + 1 /\ a[l + 1] = p /\ typed[c] \in Nat
        BY <1>2, <2>2
      <4> HIDE DEF l, a
      <4>3. Len(a) <= p /\ \A k \in 1 .. l + 1 : a[k] = p - (l + 1) + k
        <5>1. Len(a) <= p
          BY <4>1, <4>2
        <5>2. ASSUME NEW k \in 1 .. l + 1 PROVE a[k] = p - (l + 1) + k
          <6>1. CASE k = l + 1
            BY <4>1, <4>2, <6>1
          <6>2. CASE k # l + 1
            <7>1. k \in 1 .. l /\ p - (l + 1) + k = typed[c] - l + k
              BY <4>1, <4>2, <6>2
            <7> QED
              BY <4>1, <7>1
          <6> QED
            BY <6>1, <6>2
        <5> QED
          BY <5>1, <5>2
      <4>4. unread'[c] = a /\ typed'[c] = p
        BY <2>3 DEF a
      <4> HIDE DEF p
      <4> QED
        BY <3>2, <4>2, <4>3, <4>4
    <3> QED
      BY <3>1, <3>2
  <2> QED
    BY <2>3, <2>4, <2>5, <2>6, <2>8, <2>9
<1>6. CASE Connect(c) /\ UNCHANGED typed
  <2>1. tcp[c] = "none" /\ tcp' = [tcp EXCEPT ![c] = "open"] /\ backlog' = Append(backlog, c) /\ unread' = unread
    BY <1>6 DEF Connect
  <2>2. /\ backlog' \in Seq(Conns) /\ Len(backlog') = Len(backlog) + 1
        /\ \A i \in 1 .. Len(backlog) : backlog'[i] = backlog[i]
        /\ backlog'[Len(backlog) + 1] = c
    <3>1. backlog \in Seq(Conns) /\ c \in Conns
      BY <1>2
    <3>2. /\ Append(backlog, c) \in Seq(Conns) /\ Len(Append(backlog, c)) = Len(backlog) + 1
          /\ \A i \in 1 .. Len(backlog) : Append(backlog, c)[i] = backlog[i]
          /\ Append(backlog, c)[Len(backlog) + 1] = c
      BY <3>1, Appended
    <3>3. backlog' = Append(backlog, c)
      BY <2>1
    <3> QED
      BY <3>2, <3>3
  <2>3. /\ tcp' \in [Conns -> Tcp] /\ tcp'[c] = "open" /\ \A d \in Conns : d # c => tcp'[d] = tcp[d]
    BY <1>2, <2>1 DEF Tcp
  <2>4. /\ \A f \in Files : file[f] # c
        /\ \A i \in 1 .. Len(backlog) : backlog[i] # c
    <3>1. c # NoConn
      BY ServerAssumption
    <3> QED
      BY <1>2, <1>3, <2>1, <3>1 DEF ListComplete, BacklogOK, server
  <2>5. server' \in Server
    BY <1>1, <1>2, <2>1, <2>2, <2>3 DEF server, Server
  <2>6. ListComplete(server')
    BY <1>1, <1>2, <1>3, <2>3, <2>4 DEF server, ListComplete
  <2>7. BacklogOK(server')
    <3> SUFFICES ASSUME NEW i \in 1 .. Len(backlog) + 1
                 PROVE  /\ tcp'[backlog'[i]] # "none" /\ \A f \in Files : file[f] # backlog'[i]
                        /\ \A j \in 1 .. Len(backlog) + 1 : backlog'[i] = backlog'[j] => i = j
      BY <1>1, <2>2 DEF BacklogOK, server
    <3>1. \A j \in 1 .. Len(backlog) + 1 : j = Len(backlog) + 1 \/ j \in 1 .. Len(backlog)
      BY <1>2
    <3>2. CASE i = Len(backlog) + 1
      BY <2>2, <2>3, <2>4, <3>1, <3>2
    <3>3. CASE i \in 1 .. Len(backlog)
      <4>1. /\ tcp[backlog[i]] # "none" /\ \A f \in Files : file[f] # backlog[i]
            /\ \A j \in 1 .. Len(backlog) : backlog[i] = backlog[j] => i = j
        BY <1>3, <3>3 DEF BacklogOK, server
      <4>2. backlog'[i] = backlog[i] /\ backlog[i] \in Conns /\ backlog[i] # c
        BY <1>2, <2>2, <2>4, <3>3
      <4>3. tcp'[backlog'[i]] # "none"
        BY <2>3, <4>1, <4>2
      <4>4. \A j \in 1 .. Len(backlog) + 1 : backlog'[i] = backlog'[j] => i = j
        BY <2>2, <3>1, <4>1, <4>2
      <4> QED
        BY <4>1, <4>2, <4>3, <4>4
    <3> QED
      BY <3>1, <3>2, <3>3
  <2>8. Own(server', typed', slot, inputString)
    <3> SUFFICES ASSUME NEW i \in Slots, NEW d \in Conns, Alone(server', slot, i, d), Lives(server', d)
                 PROVE  Piece(inputString[i], d, typed[d] - Len(unread[d]))
      BY <1>6, <2>1 DEF Own, server
    <3>1. Alone(server, slot, i, d)
      BY <1>1 DEF Alone, server
    <3>2. slot[i] \in Files /\ file[slot[i]] = d
      BY <3>1, Parts DEF Alone, server
    <3>3. Lives(server, d)
      BY <2>3, <2>4, <3>2 DEF Lives, server
    <3> QED
      BY <1>3, <3>1, <3>3 DEF Own, server
  <2>9. Unread(server', typed')
    BY <1>3, <1>6, <2>1 DEF Unread, server
  <2> QED
    BY <1>2, <1>6, <2>5, <2>6, <2>7, <2>8, <2>9 DEF IInv, TypeOK
<1>7. CASE (Close(c) \/ Break(c)) /\ UNCHANGED typed
  <2>1. /\ tcp[c] = "open" /\ UNCHANGED <<unread, backlog>>
        /\ tcp' = [tcp EXCEPT ![c] = "fin"] \/ tcp' = [tcp EXCEPT ![c] = "error"]
    BY <1>7 DEF Close, Break
  <2>2. /\ tcp' \in [Conns -> Tcp] /\ tcp'[c] \in {"fin", "error"}
        /\ \A d \in Conns : d # c => tcp'[d] = tcp[d]
    BY <1>2, <2>1 DEF Tcp
  <2>3. server' \in Server
    BY <1>1, <1>2, <2>1, <2>2 DEF server, Server
  <2>4. ListComplete(server') /\ BacklogOK(server')
    BY <1>1, <1>2, <1>3, <2>1, <2>2 DEF server, ListComplete, BacklogOK
  <2>5. Own(server', typed', slot, inputString)
    BY <1>1, <1>3, <1>7, <2>1, <2>2 DEF server, Own, Alone, Lives
  <2>6. Unread(server', typed')
    BY <1>3, <1>7, <2>1 DEF Unread, server
  <2> QED
    BY <1>2, <1>7, <2>3, <2>4, <2>5, <2>6 DEF IInv, TypeOK
<1> QED
  BY <1>5, <1>6, <1>7 DEF Controller

-----------------------------------------------------------------------------
LEMMA NextInv == ASSUME IInv, [Next]_vars PROVE IInv'
<1>1. CASE InclusionProcess
  BY <1>1, InclusionProcessInv
<1>2. CASE Check
  BY <1>2, CheckInv
<1>3. CASE Reject
  BY <1>3, RejectInv
<1>4. CASE ReadNothing
  BY <1>4, ReadNothingInv
<1>5. CASE TransportProcess
  BY <1>5, TransportProcessInv
<1>6. CASE \E i \in Slots : ReadChar(i) \/ ReadTooLong(i) \/ ReadEnd(i)
  BY <1>6, ReadCharInv, ReadTooLongInv, ReadEndInv
<1>7. CASE Tick
  BY <1>7, TickInv
<1>8. CASE \E c \in Conns : Controller(c)
  BY <1>8, ControllerInv
<1>9. CASE UNCHANGED vars
  BY <1>9, StutterInv
<1> QED
  BY <1>1, <1>2, <1>3, <1>4, <1>5, <1>6, <1>7, <1>8, <1>9 DEF Next, MainLoop

LEMMA Invariance == Spec => []IInv
BY InitInv, NextInv, PTL DEF Spec

(* Every variable of the gateway and of the server keeps its type: slots,  *)
(* files and the server's list stay within their bounds, the list has no   *)
(* more clients than the gateway has slots (EthernetServer.cpp:178), and   *)
(* no buffer overflows (MyGatewayTransportEthernet.cpp:250).               *)
THEOREM TypeCorrect == Spec => []TypeOK
<1>1. IInv => TypeOK
  BY DEF IInv
<1> QED
  BY <1>1, Invariance, PTL

(* The buffer of a slot holds what its controller typed last, in one piece *)
(* and without the end of a line, and nothing of whoever held the slot     *)
(* before or of a line that was thrown away                                *)
(* (MyGatewayTransportEthernet.cpp:247, 353).                              *)
THEOREM BufferCorrect == Spec => []BufferIsOwn
<1>1. ASSUME IInv PROVE BufferIsOwn
  <2> SUFFICES ASSUME NEW i \in Slots, NEW c \in Conns, HeldBy(i, c), Alive(c), ~Shared(c)
               PROVE  /\ inputString[i] = LastTyped(c, Len(inputString[i]))
                      /\ \A p \in DOMAIN inputString[i] : Says(inputString[i][p]) = "x"
    BY DEF BufferIsOwn
  <2>1. Alone(server, slot, i, c) /\ Lives(server, c)
    BY DEF HeldBy, Alive, Shared, Alone, Lives, server
  <2>2. Piece(inputString[i], c, typed[c] - Len(unread[c]))
    <3>1. Piece(inputString[i], c, typed[c] - Len(server.unread[c]))
      BY <1>1, <2>1 DEF IInv, Sound, Own
    <3> QED
      BY <3>1 DEF server
  <2>3. inputString[i] \in Seq(Char)
    BY <1>1, Parts
  <2> DEFINE b == inputString[i]
             n == typed[c] - Len(unread[c])
  <2>4. Piece(b, c, n) /\ b \in Seq(Char)
    BY <2>2, <2>3
  <2> HIDE DEF b, n
  <2>5. DOMAIN b = 1 .. Len(b) /\ b = [p \in 1 .. Len(b) |-> b[p]]
    BY <2>4, LenProperties
  <2>6. b = [p \in 1 .. Len(b) |-> <<c, n - Len(b) + p>>]
    BY <2>4, <2>5 DEF Piece
  <2>7. \A p \in DOMAIN b : Says(b[p]) = "x"
    BY <2>4, <2>5 DEF Piece
  <2> QED
    BY <2>6, <2>7 DEF LastTyped, b, n
<1> QED
  BY <1>1, Invariance, PTL

(* Whatever the gateway sends is written to everyone who holds a slot with *)
(* an open connection, although the server and the gateway find out at     *)
(* different times that a connection has ended, and the server's list      *)
(* changes while it is gone through (EthernetServer.cpp:132-151); and only *)
(* who has no room for the message loses the connection by it              *)
(* (EthernetClient.cpp:113-118).                                           *)
THEOREM ServedCorrect == Spec => []HolderIsServed
<1>1. ASSUME IInv PROVE HolderIsServed
  <2> SUFFICES ASSUME NEW late \in Late, NEW i \in Slots, slot[i] # _sock, file[slot[i]] # NoConn,
                      tcp[file[slot[i]]] = "open"
               PROVE  /\ slot[i] \in Sent(server, late).to
                      /\ Sent(server, late).s.file[slot[i]]
                           = IF file[slot[i]] \in late THEN NoConn ELSE file[slot[i]]
    BY DEF HolderIsServed
  <2>1. slot[i] \in Files /\ ServerOK(server)
    BY <1>1, Parts
  <2>2. server.file = file /\ server.tcp = tcp
    BY DEF server
  <2> QED
    BY <2>1, <2>2, SentToAll
<1> QED
  BY <1>1, Invariance, PTL

-----------------------------------------------------------------------------
(* Lines.                                                                  *)
(* The line that ends with the next character of slot i.                   *)
Line(i) == Append(inputString[i], NextChar(i))

(* The line is what c typed after its first n characters.                  *)
TypedAfter(line, c, n) ==
  /\ line = [p \in 1 .. Len(line) |-> <<c, n + p>>]
  /\ n + Len(line) <= typed[c]

(* What a slot takes for a line, while its controller is connected and     *)
(* alone in it, was typed by that controller in one piece; it is a line of *)
(* the controller's unless it is empty or its beginning was thrown away.   *)
LineIsOwn ==
  [][\A i \in Slots, c \in Conns :
       ReadEnd(i) /\ HeldBy(i, c) /\ Alive(c) /\ ~Shared(c) =>
         \E n \in 0 .. typed[c] :
           /\ TypedAfter(Line(i), c, n)
           /\ Len(Line(i)) > 1 /\ (n = 0 \/ Script[c][n] \in Command) => IsLine(Line(i))]_vars

(* Places in what a controller typed are counted from 1.                   *)
Placed == \A i \in Slots : \A p \in 1 .. Len(inputString[i]) : inputString[i][p][2] # 0

LEMMA NextPlace ==
  ASSUME IInv, NEW i \in Slots, Reads(i)
  PROVE  /\ file[slot[i]] \in Conns
         /\ LET c == file[slot[i]]
                k == typed[c] - Len(unread[c])
            IN  k \in Nat /\ k + 1 <= typed[c] /\ NextChar(i) = <<c, k + 1>>
<1> DEFINE c == file[slot[i]]
           k == typed[c] - Len(unread[c])
<1>1. c \in Conns /\ unread[c] # <<>> /\ unread[c] \in Seq(Nat)
  <2>1. slot[i] \in Files /\ server.file[slot[i]] # NoConn /\ server.unread[server.file[slot[i]]] # <<>>
    BY Parts DEF Reads, available, Holds
  <2>2. server.file[slot[i]] \in Conns /\ server.unread[server.file[slot[i]]] \in Seq(Nat)
    BY <2>1, Parts, ServerTypes
  <2> QED
    BY <2>1, <2>2 DEF server
<1>2. Len(unread[c]) \in Nat \ {0} /\ Head(unread[c]) = unread[c][1]
  BY <1>1, Shortened
<1>3. /\ Len(unread[c]) <= typed[c] /\ typed[c] \in Nat
      /\ \A p \in 1 .. Len(unread[c]) : unread[c][p] = typed[c] - Len(unread[c]) + p
  BY <1>1 DEF IInv, TypeOK, Sound, Unread, server
<1>4. 1 \in 1 .. Len(unread[c])
  BY <1>2
<1>5. Head(unread[c]) = k + 1
  BY <1>2, <1>3, <1>4
<1> QED
  BY <1>1, <1>2, <1>3, <1>5 DEF NextChar

LEMMA PlacedNext ==
  ASSUME IInv, Placed, [Next]_vars
  PROVE  Placed'
<1>1. ASSUME UNCHANGED inputString PROVE Placed'
  BY <1>1 DEF Placed
<1>2. ASSUME NEW i \in Slots, inputString' = [inputString EXCEPT ![i] = <<>>] PROVE Placed'
  <2>1. \A j \in Slots : inputString'[j] = IF j = i THEN <<>> ELSE inputString[j]
    BY <1>2, Parts
  <2> QED
    BY <2>1 DEF Placed
<1>3. ASSUME NEW i \in Slots, ReadChar(i) PROVE Placed'
  <2>1. /\ NextChar(i)[2] # 0 /\ NextChar(i) \in Char
        /\ inputString' = [inputString EXCEPT ![i] = Append(inputString[i], NextChar(i))]
    BY <1>3, NextPlace, ReadSound DEF ReadChar
  <2>2. /\ inputString[i] \in Seq(Char) /\ Len(inputString[i]) \in Nat
        /\ \A j \in Slots : inputString'[j] = IF j = i THEN Append(inputString[i], NextChar(i))
                                                   ELSE inputString[j]
    BY <2>1, Parts, LenProperties
  <2>3. /\ Len(Append(inputString[i], NextChar(i))) = Len(inputString[i]) + 1
        /\ \A p \in 1 .. Len(inputString[i]) : Append(inputString[i], NextChar(i))[p] = inputString[i][p]
        /\ Append(inputString[i], NextChar(i))[Len(inputString[i]) + 1] = NextChar(i)
    BY <2>1, <2>2, Appended
  <2>4. \A p \in 1 .. Len(inputString[i]) + 1 : Append(inputString[i], NextChar(i))[p][2] # 0
    BY <2>1, <2>2, <2>3 DEF Placed
  <2> DEFINE longer == Append(inputString[i], NextChar(i))
  <2>5. /\ \A p \in 1 .. Len(longer) : longer[p][2] # 0
        /\ \A j \in Slots : inputString'[j] = IF j = i THEN longer ELSE inputString[j]
    BY <2>2, <2>3, <2>4
  <2> HIDE DEF longer
  <2>6. ASSUME NEW j \in Slots
        PROVE  \A p \in 1 .. Len(inputString'[j]) : inputString'[j][p][2] # 0
    <3>1. CASE j = i
      BY <2>5, <3>1, Zenon
    <3>2. CASE j # i
      BY <2>5, <3>2 DEF Placed
    <3> QED
      BY <3>1, <3>2
  <2> QED
    BY <2>6 DEF Placed
<1>4. CASE Check
  <2>1. turn \in Slots
    BY Parts
  <2>2. UNCHANGED inputString \/ inputString' = [inputString EXCEPT ![turn] = <<>>]
    BY <1>4 DEF Check, BuffersWith
  <2> QED
    BY <1>1, <1>2, <2>1, <2>2
<1>5. CASE MainLoop
  BY <1>1, <1>2, <1>3, <1>4, <1>5
  DEF MainLoop, InclusionProcess, Reject, ReadNothing, TransportProcess, ReadTooLong, ReadEnd, gateway
<1>6. CASE Tick \/ \E c \in Conns : Controller(c)
  BY <1>1, <1>6 DEF Tick, Controller, gateway
<1>7. CASE UNCHANGED vars
  BY <1>1, <1>7 DEF vars
<1> QED
  BY <1>5, <1>6, <1>7 DEF Next

LEMMA EndOfOwnLine ==
  ASSUME IInv, Placed, NEW i \in Slots, NEW c \in Conns, ReadEnd(i), HeldBy(i, c), Alive(c), ~Shared(c)
  PROVE  \E n \in 0 .. typed[c] :
           /\ TypedAfter(Line(i), c, n)
           /\ Len(Line(i)) > 1 /\ (n = 0 \/ Script[c][n] \in Command) => IsLine(Line(i))
<1> DEFINE b == inputString[i]
           k == typed[c] - Len(unread[c])
           n == k - Len(b)
           l == Line(i)
<1>1. /\ Piece(b, c, k) /\ b \in Seq(Char) /\ Len(b) \in Nat
      /\ typed[c] \in Nat /\ typed[c] <= Len(Script[c])
  <2>1. Alone(server, slot, i, c) /\ Lives(server, c)
    BY DEF HeldBy, Alive, Shared, Alone, Lives, server
  <2>2. Piece(b, c, typed[c] - Len(server.unread[c]))
    BY <2>1 DEF IInv, Sound, Own
  <2>3. b \in Seq(Char)
    BY Parts
  <2>4. typed[c] \in Nat /\ typed[c] <= Len(Script[c])
    BY DEF IInv, TypeOK
  <2> QED
    BY <2>2, <2>3, <2>4, LenProperties DEF server
<1>2. k \in Nat /\ k + 1 <= typed[c] /\ NextChar(i) = <<c, k + 1>> /\ NextChar(i) \in Char
  <2>1. file[slot[i]] = c /\ Reads(i) /\ Says(NextChar(i)) \in Command
    BY DEF HeldBy, ReadEnd
  <2>2. k \in Nat /\ k + 1 <= typed[c] /\ NextChar(i) = <<c, k + 1>>
    BY <2>1, NextPlace
  <2> QED
    BY <2>2 DEF Char
<1> HIDE DEF b
<1>3. /\ l \in Seq(Char) /\ Len(l) = Len(b) + 1 /\ l[Len(b) + 1] = NextChar(i)
      /\ \A p \in 1 .. Len(b) : l[p] = b[p]
  BY <1>1, <1>2, Appended DEF Line, b
<1> HIDE DEF l
<1>4. n \in 0 .. typed[c]
  <2>1. CASE Len(b) = 0
    BY <1>1, <1>2, <2>1
  <2>2. CASE Len(b) # 0
    <3>1. 1 \in 1 .. Len(b) /\ b[1] = <<c, k - Len(b) + 1>>
      BY <1>1, <2>2 DEF Piece
    <3>2. b[1] \in Conns \X Nat /\ b[1][2] # 0
      BY <1>1, <3>1, ElementOfSeq DEF Char, Placed, b
    <3>3. k - Len(b) + 1 \in Nat /\ k - Len(b) + 1 # 0
      BY <3>1, <3>2
    <3> QED
      BY <1>1, <1>2, <3>3
  <2> QED
    BY <2>1, <2>2
<1>5. n + Len(b) = k /\ Len(l) = Len(b) + 1 /\ n \in Nat
  BY <1>1, <1>2, <1>3, <1>4
<1>6. /\ \A p \in 1 .. Len(b) : l[p] = <<c, n + p>> /\ Says(l[p]) = "x"
      /\ l[Len(b) + 1] = <<c, n + (Len(b) + 1)>> /\ Says(l[Len(b) + 1]) \in Command
  <2>1. Says(NextChar(i)) \in Command
    BY DEF ReadEnd
  <2>2. k - Len(b) = n /\ k + 1 = n + (Len(b) + 1)
    BY <1>1, <1>2
  <2>3. \A p \in 1 .. Len(b) : b[p] = <<c, n + p>> /\ Says(b[p]) = "x"
    BY <1>1, <2>2 DEF Piece
  <2> HIDE DEF n, k
  <2> QED
    BY <1>2, <1>3, <2>1, <2>2, <2>3
<1> HIDE DEF n, k
<1>7. ASSUME NEW p \in 1 .. Len(l) PROVE l[p] = <<c, n + p>>
  <2>1. p \in 1 .. Len(b) \/ p = Len(b) + 1
    BY <1>1, <1>5
  <2> QED
    BY <1>6, <2>1, Zenon
<1>8. l = [p \in 1 .. Len(l) |-> <<c, n + p>>]
  <2>1. DOMAIN l = 1 .. Len(l) /\ l = [p \in 1 .. Len(l) |-> l[p]]
    BY <1>3, LenProperties
  <2> QED
    BY <1>7, <2>1
<1>9. n + Len(l) <= typed[c]
  BY <1>1, <1>2, <1>5 DEF n, k
<1>10. ASSUME Len(l) > 1, n = 0 \/ Script[c][n] \in Command
       PROVE  IsLine(l)
  <2> DEFINE from == n + 1
             to == n + Len(l)
  <2>1. Script[c] \in Seq({"x"} \cup Command)
    BY GatewayAssumption
  <2>2. DOMAIN Script[c] = 1 .. Len(Script[c]) /\ Len(Script[c]) \in Nat
    BY <2>1, LenProperties
  <2>3. /\ from \in DOMAIN Script[c] /\ to \in DOMAIN Script[c] /\ from < to
        /\ from = 1 \/ Script[c][from - 1] \in Command
    BY <1>1, <1>5, <1>9, <1>10, <2>2
  <2>4. Script[c][to] \in Command
    <3>1. Says(<<c, to>>) \in Command
      BY <1>5, <1>6
    <3> QED
      BY <3>1 DEF Says
  <2>5. ASSUME NEW p \in from .. to - 1 PROVE Script[c][p] = "x"
    <3>1. p - n \in 1 .. Len(b) /\ n + (p - n) = p
      BY <1>1, <1>5
    <3>2. Says(<<c, p>>) = "x"
      BY <1>6, <3>1
    <3> QED
      BY <3>2 DEF Says
  <2>6. l = [p \in 1 .. to - from + 1 |-> <<c, from + p - 1>>]
    <3>1. to - from + 1 = Len(l) /\ \A p \in 1 .. Len(l) : from + p - 1 = n + p
      BY <1>1, <1>5
    <3> QED
      BY <1>8, <3>1
  <2> HIDE DEF from, to
  <2> QED
    BY <2>3, <2>4, <2>5, <2>6 DEF IsLine
<1>11. TypedAfter(l, c, n) /\ n \in 0 .. typed[c]
  BY <1>4, <1>8, <1>9 DEF TypedAfter, n, k
<1> QED
  BY <1>10, <1>11 DEF l

(* LineIsOwn: no connection, disconnection or reuse of a slot, no order in *)
(* which the slots are read and no line too long for the buffer makes the  *)
(* gateway take for a line what its controller did not type as one         *)
(* (MyGatewayTransportEthernet.cpp:227-257).                               *)
THEOREM LineCorrect == Spec => LineIsOwn
<1>1. Init => Placed
  BY DEF Init, Placed
<1>2. IInv /\ Placed /\ [Next]_vars => Placed'
  BY PlacedNext
<1>3. IInv /\ Placed =>
        [\A i \in Slots, c \in Conns :
           ReadEnd(i) /\ HeldBy(i, c) /\ Alive(c) /\ ~Shared(c) =>
             \E n \in 0 .. typed[c] :
               /\ TypedAfter(Line(i), c, n)
               /\ Len(Line(i)) > 1 /\ (n = 0 \/ Script[c][n] \in Command) => IsLine(Line(i))]_vars
  BY EndOfOwnLine
<1> QED
  BY <1>1, <1>2, <1>3, Invariance, PTL DEF Spec, LineIsOwn
=============================================================================
