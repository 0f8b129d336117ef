--------------------------- MODULE SigningProofs ---------------------------
(***************************************************************************)
(* Proofs about Signing, for every set of nodes, every pattern of traffic  *)
(* and every bound: types, the single use of nonces, what a call in which  *)
(* no other was nested returns, and the refinement of OneTimeNonce.        *)
(***************************************************************************)
EXTENDS Signing, SequenceTheorems, TLAPS

-----------------------------------------------------------------------------
(* Every nonce is good for one message, however often messages come again  *)
(* and however late (MySigningAtsha204Soft.cpp:195, 331), at a node that   *)
(* requires signatures of all.                                             *)
NonceOnce ==
  \A n \in Strict : \A i, j \in DOMAIN accepted[n] :
    accepted[n][i].nonce = accepted[n][j].nonce => i = j

(* A nonce accepted was generated before, and is no longer the one to      *)
(* match.                                                                  *)
NonceInv ==
  \A n \in Nodes :
    /\ verifying[n] \in 1 .. nonces \cup {NoNonce}
    /\ n \in Strict =>
         \A i \in DOMAIN accepted[n] :
           /\ accepted[n][i].nonce \in 1 .. nonces
           /\ accepted[n][i].nonce # verifying[n]

(* Only the innermost call may be undisturbed; it finds its message in     *)
(* _msgSign, with a nonce when the status says so.                         *)
Holds(c, m, status) ==
  ~c.disturbed => /\ [m EXCEPT !.nonce = NoNonce] = c.msg
                  /\ status = "ok" => m.nonce # NoNonce
CallsInv ==
  \A n \in Nodes : \A i \in DOMAIN calls[n] :
    /\ i < Len(calls[n]) => calls[n][i].disturbed
    /\ Holds(calls[n][i], msgSign[n], nonceStatus[n])

IInv == TypeOK /\ NonceOnce /\ NonceInv /\ CallsInv

-----------------------------------------------------------------------------
(* Sequences of calls: taking the innermost away, nesting one.             *)
LEMMA FrontCalls ==
  ASSUME NEW s \in Seq(Call), s # <<>>
  PROVE  /\ Front(s) \in Seq(Call) /\ Len(Front(s)) = Len(s) - 1 /\ Len(s) \in Nat \ {0}
         /\ \A i \in 1 .. Len(s) - 1 : Front(s)[i] = s[i]
<1>1. Len(s) \in Nat \ {0}
  BY EmptySeq, LenProperties
<1> QED
  BY <1>1, SubSeqProperties DEF Front

Nested(s, c) == Append([i \in DOMAIN s |-> [s[i] EXCEPT !.disturbed = TRUE]], c)

LEMMA NestedCalls ==
  ASSUME NEW s \in Seq(Call), NEW c \in Call
  PROVE  /\ Nested(s, c) \in Seq(Call) /\ Len(Nested(s, c)) = Len(s) + 1
         /\ Nested(s, c)[Len(s) + 1] = c
         /\ \A i \in 1 .. Len(s) : Nested(s, c)[i].disturbed
<1> DEFINE t == [i \in DOMAIN s |-> [s[i] EXCEPT !.disturbed = TRUE]]
<1>1. DOMAIN s = 1 .. Len(s) /\ Len(s) \in Nat
  BY LenProperties
<1>2. ASSUME NEW i \in 1 .. Len(s)
      PROVE  [s[i] EXCEPT !.disturbed = TRUE] \in Call /\ [s[i] EXCEPT !.disturbed = TRUE].disturbed
  <2>1. s[i] \in Call
    BY <1>1, ElementOfSeq
  <2> QED
    BY <2>1 DEF Call
<1>3. t \in Seq(Call) /\ Len(t) = Len(s)
  <2>1. t \in [1 .. Len(s) -> Call]
    BY <1>1, <1>2
  <2> QED
    BY <1>1, <2>1, SeqDef, LenProperties
<1>4. \A i \in 1 .. Len(s) : t[i].disturbed
  BY <1>1, <1>2
<1> HIDE DEF t
<1>5. Nested(s, c) = Append(t, c)
  BY DEF Nested, t
<1> QED
  BY <1>1, <1>3, <1>4, <1>5, AppendProperties

-----------------------------------------------------------------------------
(* The pieces of the actions.                                              *)
LEMMA DataType ==
  ASSUME NEW n \in Nodes, NEW to \in Nodes, NEW k \in 1 .. MaxCalls
  PROVE  /\ Data(n, to, k) \in Message
         /\ [Data(n, to, k) EXCEPT !.nonce = NoNonce] = Data(n, to, k)
BY DEF Data, Message

LEMMA InitInv == Init => IInv
<1> USE NodesAssumption, BoundsAssumption
<1> SUFFICES ASSUME Init PROVE IInv
  OBVIOUS
<1>1. \A n \in Nodes : Data(n, Gateway, 1) \in Message
  <2>1. 1 \in 1 .. MaxCalls
    OBVIOUS
  <2> QED
    BY <2>1, DataType
<1>2. <<>> \in Seq(Call) /\ <<>> \in Seq(Message) /\ DOMAIN <<>> = {}
  BY EmptySeq
<1>3. 0 \in 0 .. MaxCalls /\ 0 \in 0 .. MaxNonces /\ 0 \in 0 .. MaxFaults
  OBVIOUS
<1>4. TypeOK
  BY <1>1, <1>2, <1>3 DEF Init, TypeOK
<1>5. Strict \subseteq Nodes
  BY DEF Strict
<1> QED
  BY <1>2, <1>4, <1>5 DEF Init, IInv, NonceOnce, NonceInv, CallsInv

(* signerCheckTimer and the verification only ever purge the nonce.        *)
Purges(n) ==
  /\ verifying' \in [Nodes -> Nonce \cup {NoNonce}]
  /\ \A k \in Nodes : verifying'[k] \in {verifying[k], NoNonce}
  /\ ongoing' \in [Nodes -> BOOLEAN] /\ expired' \in [Nodes -> BOOLEAN]

LEMMA CheckTimerPurges ==
  ASSUME TypeOK, NEW n \in Nodes, CheckTimer(n)
  PROVE  Purges(n)
<1>1. ongoing' \in [Nodes -> BOOLEAN] /\ expired' \in [Nodes -> BOOLEAN]
  <2>1. Open(n) \in BOOLEAN
    BY Zenon DEF Open
  <2> QED
    BY <2>1, Zenon DEF CheckTimer, TypeOK
<1>2. /\ verifying' \in [Nodes -> Nonce \cup {NoNonce}]
      /\ \A k \in Nodes : verifying'[k] \in {verifying[k], NoNonce}
  BY DEF CheckTimer, TypeOK
<1> QED
  BY <1>1, <1>2 DEF Purges

LEMMA VerifyPurges ==
  ASSUME TypeOK, NEW n \in Nodes, NEW m \in Message, Verify(n, m)
  PROVE  Purges(n) /\ (ongoing[n] /\ m.nonce # NoNonce => verifying'[n] = NoNonce)
<1>1. CASE m.nonce = NoNonce
  BY <1>1, CheckTimerPurges DEF Verify
<1>2. CASE m.nonce # NoNonce
  <2>1. ongoing' \in [Nodes -> BOOLEAN] /\ expired' \in [Nodes -> BOOLEAN]
    BY <1>2, Zenon DEF Verify, TypeOK
  <2>2. /\ verifying' \in [Nodes -> Nonce \cup {NoNonce}]
        /\ \A k \in Nodes : verifying'[k] \in {verifying[k], NoNonce}
        /\ ongoing[n] => verifying'[n] = NoNonce
    BY <1>2 DEF Verify, TypeOK
  <2> QED
    BY <2>1, <2>2 DEF Purges
<1> QED
  BY <1>1, <1>2

(* What the sender's half of a step must keep.                             *)
SenderOK ==
  /\ msgSign' \in [Nodes -> Message]
  /\ nonceStatus' \in [Nodes -> {"waiting", "ok"}]
  /\ calls' \in [Nodes -> Seq(Call)]
  /\ given' \in 0 .. MaxCalls
  /\ CallsInv'

LEMMA SenderSame ==
  ASSUME IInv, UNCHANGED <<signer, given>>
  PROVE  SenderOK
BY DEF IInv, TypeOK, SenderOK, signer, CallsInv

LEMMA SendKeeps ==
  ASSUME IInv, NEW n \in Nodes, NEW to \in Nodes, NEW left,
         left \subseteq Message \cup Request \cup Response, SendMessage(n, to, left)
  PROVE  SenderOK /\ net' \subseteq Message \cup Request \cup Response
<1> USE NodesAssumption, BoundsAssumption
<1> DEFINE m == Data(n, to, given + 1)
<1>1. /\ given + 1 \in 1 .. MaxCalls /\ given' \in 0 .. MaxCalls
      /\ m \in Message /\ [m EXCEPT !.nonce = NoNonce] = m
  <2>1. given + 1 \in 1 .. MaxCalls /\ given' = given + 1
    BY DEF SendMessage, IInv, TypeOK
  <2> QED
    BY <2>1, DataType
<1>2. CASE <<to, n>> \in Requires
  <2> DEFINE c == [msg |-> m, late |-> FALSE, disturbed |-> FALSE]
  <2>1. /\ calls' = [calls EXCEPT ![n] = Nested(calls[n], c)]
        /\ msgSign' = [msgSign EXCEPT ![n] = m]
        /\ nonceStatus' = [nonceStatus EXCEPT ![n] = "waiting"]
        /\ net' = left \cup {[kind |-> "request", from |-> n, to |-> to, id |-> m.id]}
    BY <1>2 DEF SendMessage, Push, Waiting, Nested
  <2>2. c \in Call /\ calls[n] \in Seq(Call) /\ Len(calls[n]) \in Nat
    BY <1>1, LenProperties DEF Call, IInv, TypeOK
  <2>3. /\ Nested(calls[n], c) \in Seq(Call) /\ Len(Nested(calls[n], c)) = Len(calls[n]) + 1
        /\ Nested(calls[n], c)[Len(calls[n]) + 1] = c
        /\ \A i \in 1 .. Len(calls[n]) : Nested(calls[n], c)[i].disturbed
    BY <2>2, NestedCalls
  <2>4. /\ msgSign' \in [Nodes -> Message]
        /\ nonceStatus' \in [Nodes -> {"waiting", "ok"}]
        /\ calls' \in [Nodes -> Seq(Call)]
    BY <1>1, <2>1, <2>3 DEF IInv, TypeOK
  <2>5. [kind |-> "request", from |-> n, to |-> to, id |-> m.id] \in Request
    BY <1>1 DEF Data, Request
  <2>6. Holds(c, m, "waiting")
    BY <1>1 DEF Holds
  <2>7. ASSUME NEW k \in Nodes, NEW i \in DOMAIN calls'[k]
        PROVE  /\ i < Len(calls'[k]) => calls'[k][i].disturbed
               /\ Holds(calls'[k][i], msgSign'[k], nonceStatus'[k])
    <3>1. CASE k = n
      <4> HIDE DEF c, m
      <4>1. calls'[k] = Nested(calls[n], c) /\ msgSign'[k] = m /\ nonceStatus'[k] = "waiting"
        BY <2>1, <3>1 DEF IInv, TypeOK
      <4>2. i \in 1 .. Len(calls[n]) + 1
        BY <2>3, <2>7, <4>1, LenProperties
      <4>3. CASE i = Len(calls[n]) + 1
        BY <2>3, <2>6, <4>1, <4>3
      <4>4. CASE i # Len(calls[n]) + 1
        <5>1. calls'[k][i].disturbed
          BY <2>2, <2>3, <4>1, <4>2, <4>4
        <5> QED
          BY <5>1 DEF Holds
      <4> QED
        BY <4>3, <4>4
    <3>2. CASE k # n
      BY <2>1, <2>7, <3>2 DEF IInv, TypeOK, CallsInv
    <3> QED
      BY <3>1, <3>2
  <2> QED
    BY <1>1, <2>1, <2>4, <2>5, <2>7 DEF SenderOK, CallsInv
<1>3. CASE <<to, n>> \notin Requires
  BY <1>1, <1>3 DEF SendMessage, SenderOK, IInv, TypeOK, CallsInv, signer
<1> QED
  BY <1>2, <1>3

(* What the receiver's half of a step must keep.                           *)
ReceiverOK ==
  /\ verifying' \in [Nodes -> Nonce \cup {NoNonce}]
  /\ ongoing' \in [Nodes -> BOOLEAN] /\ expired' \in [Nodes -> BOOLEAN]
  /\ nonces' \in 0 .. MaxNonces
  /\ asker' \in [Nonce -> Nodes \cup {NoNonce}]
  /\ accepted' \in [Nodes -> Seq(Message)]
  /\ NonceOnce' /\ NonceInv'

LEMMA PurgedKeeps ==
  ASSUME IInv, NEW n \in Nodes, Purges(n), UNCHANGED <<nonces, asker, accepted>>
  PROVE  ReceiverOK
<1> USE NodesAssumption, BoundsAssumption
<1>1. NonceInv'
  <2> SUFFICES ASSUME NEW k \in Nodes
               PROVE  /\ verifying'[k] \in 1 .. nonces \cup {NoNonce}
                      /\ k \in Strict =>
                           \A i \in DOMAIN accepted[k] :
                             /\ accepted[k][i].nonce \in 1 .. nonces
                             /\ accepted[k][i].nonce # verifying'[k]
    BY DEF NonceInv
  <2>1. verifying'[k] \in {verifying[k], NoNonce} /\ NoNonce \notin 1 .. nonces
    BY DEF Purges, IInv, TypeOK
  <2> QED
    BY <2>1 DEF IInv, NonceInv
<1>2. NonceOnce'
  BY DEF IInv, NonceOnce
<1> QED
  BY <1>1, <1>2 DEF Purges, ReceiverOK, IInv, TypeOK

LEMMA ReceiverSame ==
  ASSUME IInv, UNCHANGED <<verifier, nonces, asker, accepted>>
  PROVE  ReceiverOK
BY DEF IInv, TypeOK, ReceiverOK, verifier, NonceOnce, NonceInv

-----------------------------------------------------------------------------
(* The actions.                                                            *)
NetOK == net' \subseteq Message \cup Request \cup Response

LEMMA RequestKeeps ==
  ASSUME IInv, NEW n \in Nodes, NEW m \in net, NEW left, left \subseteq net,
         NonceRequest(n, m, left)
  PROVE  SenderOK /\ ReceiverOK /\ NetOK
<1> USE NodesAssumption, BoundsAssumption
<1> DEFINE k == nonces + 1
<1>1. k \in Nonce /\ nonces' = k /\ nonces \in Nat /\ nonces' \in 0 .. MaxNonces
  BY DEF NonceRequest, IInv, TypeOK, Nonce
<1>2. /\ verifying' = [verifying EXCEPT ![n] = k]
      /\ ongoing' = [ongoing EXCEPT ![n] = TRUE]
      /\ expired' = [expired EXCEPT ![n] = FALSE]
      /\ UNCHANGED <<signer, given, accepted>>
  BY <1>1 DEF NonceRequest, GetNonce
<1>3. NetOK
  <2>1. m \in Request /\ net \subseteq Message \cup Request \cup Response
    BY DEF NonceRequest, IInv, TypeOK, Message, Request, Response
  <2>2. [kind |-> "response", from |-> n, to |-> m.from, nonce |-> nonces'] \in Response
    BY <1>1, <2>1 DEF Request, Response
  <2> QED
    BY <2>1, <2>2 DEF NonceRequest, NetOK
<1>4. NonceInv'
  <2> SUFFICES ASSUME NEW j \in Nodes
               PROVE  /\ verifying'[j] \in 1 .. k \cup {NoNonce}
                      /\ j \in Strict =>
                           \A i \in DOMAIN accepted[j] :
                             /\ accepted[j][i].nonce \in 1 .. k
                             /\ accepted[j][i].nonce # verifying'[j]
    BY <1>1, <1>2 DEF NonceInv
  <2>1. verifying'[j] = IF j = n THEN k ELSE verifying[j]
    BY <1>2 DEF IInv, TypeOK
  <2> QED
    BY <1>1, <2>1 DEF IInv, NonceInv
<1>5. NonceOnce'
  BY <1>2 DEF IInv, NonceOnce
<1>6. ongoing' \in [Nodes -> BOOLEAN] /\ expired' \in [Nodes -> BOOLEAN]
  BY <1>2, Zenon DEF IInv, TypeOK
<1>7. ReceiverOK
  <2>1. /\ verifying' \in [Nodes -> Nonce \cup {NoNonce}]
        /\ accepted' \in [Nodes -> Seq(Message)]
    BY <1>1, <1>2 DEF IInv, TypeOK
  <2>2. asker' \in [Nonce -> Nodes \cup {NoNonce}]
    <3>1. m.from \in Nodes /\ asker' = [asker EXCEPT ![nonces'] = m.from]
      BY DEF NonceRequest, IInv, TypeOK, Message, Request, Response
    <3> QED
      BY <3>1 DEF IInv, TypeOK
  <2> QED
    BY <1>1, <1>4, <1>5, <1>6, <2>1, <2>2 DEF ReceiverOK
<1> QED
  BY <1>2, <1>3, <1>7, SenderSame

LEMMA SignedMessage ==
  ASSUME NEW m \in Message, NEW k \in Nonce
  PROVE  /\ [m EXCEPT !.nonce = k] \in Message
         /\ [[m EXCEPT !.nonce = k] EXCEPT !.nonce = NoNonce] = [m EXCEPT !.nonce = NoNonce]
         /\ [m EXCEPT !.nonce = k].nonce = k
<1> DEFINE With(x) == [kind |-> m.kind, from |-> m.from, to |-> m.to, id |-> m.id, nonce |-> x]
<1>1. ASSUME NEW x PROVE [m EXCEPT !.nonce = x] = With(x)
  BY DEF Message
<1>2. With(k) \in Message /\ With(k).nonce = k
  BY DEF Message
<1>3. [With(k) EXCEPT !.nonce = NoNonce] = With(NoNonce)
  OBVIOUS
<1> HIDE DEF With
<1> QED
  BY <1>1, <1>2, <1>3

LEMMA ResponseKeeps ==
  ASSUME IInv, NEW n \in Nodes, NEW m \in net, NEW left, left \subseteq net,
         NonceResponse(n, m, left)
  PROVE  SenderOK /\ ReceiverOK /\ NetOK
<1> USE NodesAssumption, BoundsAssumption
<1>1. ReceiverOK
  BY CheckTimerPurges, PurgedKeeps DEF NonceResponse, IInv
<1>2. NetOK
  BY DEF NonceResponse, IInv, TypeOK, NetOK
<1>3. CASE m.from = msgSign[n].to
  <2>1. m.nonce \in Nonce /\ m.nonce # NoNonce
    BY DEF NonceResponse, IInv, TypeOK, Message, Request, Response, Nonce
  <2>2. /\ [msgSign[n] EXCEPT !.nonce = m.nonce] \in Message
        /\ [[msgSign[n] EXCEPT !.nonce = m.nonce] EXCEPT !.nonce = NoNonce]
             = [msgSign[n] EXCEPT !.nonce = NoNonce]
        /\ [msgSign[n] EXCEPT !.nonce = m.nonce].nonce = m.nonce
    <3>1. msgSign[n] \in Message
      BY DEF IInv, TypeOK
    <3> QED
      BY <2>1, <3>1, SignedMessage
  <2>3. /\ msgSign' = [msgSign EXCEPT ![n] = [msgSign[n] EXCEPT !.nonce = m.nonce]]
        /\ nonceStatus' = [nonceStatus EXCEPT ![n] = "ok"]
        /\ UNCHANGED <<calls, given>>
    BY <1>3 DEF NonceResponse, SignWith
  <2>4. CallsInv'
    <3> SUFFICES ASSUME NEW k \in Nodes, NEW i \in DOMAIN calls[k]
                 PROVE  /\ i < Len(calls[k]) => calls[k][i].disturbed
                        /\ Holds(calls[k][i], msgSign'[k], nonceStatus'[k])
      BY <2>3 DEF CallsInv
    <3>1. CASE k = n
      <4>1. /\ msgSign'[k] = [msgSign[n] EXCEPT !.nonce = m.nonce]
            /\ i < Len(calls[k]) => calls[k][i].disturbed
            /\ Holds(calls[k][i], msgSign[k], nonceStatus[k])
        BY <2>3, <3>1 DEF IInv, TypeOK, CallsInv
      <4> QED
        BY <2>1, <2>2, <3>1, <4>1 DEF Holds
    <3>2. CASE k # n
      BY <2>3, <3>2 DEF IInv, TypeOK, CallsInv
    <3> QED
      BY <3>1, <3>2
  <2> QED
    BY <1>1, <1>2, <2>2, <2>3, <2>4 DEF SenderOK, IInv, TypeOK
<1>4. CASE m.from # msgSign[n].to
  <2>1. UNCHANGED <<signer, given>>
    BY <1>4 DEF NonceResponse, signer
  <2> QED
    BY <1>1, <1>2, <2>1, SenderSame
<1> QED
  BY <1>3, <1>4

(* A message accepted matches the nonce, which is then purged.             *)
LEMMA AcceptKeeps ==
  ASSUME IInv, NEW n \in Nodes, NEW m \in Message, Accepts(n, m), UNCHANGED <<nonces, asker>>,
         accepted' = [accepted EXCEPT ![n] = Append(@, m)], Purges(n),
         n \in Strict => verifying'[n] = NoNonce
  PROVE  ReceiverOK
<1> USE NodesAssumption, BoundsAssumption
<1>1. accepted[n] \in Seq(Message) /\ Len(accepted[n]) \in Nat
  BY LenProperties DEF IInv, TypeOK
<1>2. /\ accepted'[n] = Append(accepted[n], m)
      /\ \A k \in Nodes \ {n} : accepted'[k] = accepted[k]
      /\ accepted' \in [Nodes -> Seq(Message)]
  BY <1>1, AppendProperties DEF IInv, TypeOK
<1>3. /\ DOMAIN accepted'[n] = 1 .. Len(accepted[n]) + 1
      /\ DOMAIN accepted[n] = 1 .. Len(accepted[n])
      /\ accepted'[n][Len(accepted[n]) + 1] = m
      /\ \A i \in 1 .. Len(accepted[n]) : accepted'[n][i] = accepted[n][i]
  BY <1>1, <1>2, AppendProperties, LenProperties
<1>4. n \in Strict =>
        /\ m.nonce = verifying[n] /\ m.nonce \in 1 .. nonces
        /\ \A i \in 1 .. Len(accepted[n]) : accepted[n][i].nonce # m.nonce
  <2>1. m.from \in Nodes
    BY DEF Message
  <2>2. n \in Strict => <<n, m.from>> \in Requires
    BY <2>1 DEF Strict
  <2> QED
    BY <1>3, <2>2 DEF Accepts, Verified, IInv, NonceInv
<1>5. NonceOnce'
  <2> SUFFICES ASSUME NEW k \in Strict, NEW i \in DOMAIN accepted'[k], NEW j \in DOMAIN accepted'[k],
                      accepted'[k][i].nonce = accepted'[k][j].nonce
               PROVE  i = j
    BY DEF NonceOnce
  <2>1. CASE k = n
    <3>1. /\ i \in 1 .. Len(accepted[n]) + 1 /\ j \in 1 .. Len(accepted[n]) + 1
          /\ accepted'[n][i].nonce = accepted'[n][j].nonce /\ n \in Strict
      BY <1>3, <2>1
    <3>2. ASSUME NEW a \in 1 .. Len(accepted[n]), NEW b \in 1 .. Len(accepted[n]),
                 accepted[n][a].nonce = accepted[n][b].nonce
          PROVE  a = b
      BY <1>3, <3>1, <3>2 DEF IInv, NonceOnce
    <3>3. CASE i = Len(accepted[n]) + 1
      BY <1>1, <1>3, <1>4, <3>1, <3>3
    <3>4. CASE j = Len(accepted[n]) + 1
      BY <1>1, <1>3, <1>4, <3>1, <3>4
    <3>5. CASE i \in 1 .. Len(accepted[n]) /\ j \in 1 .. Len(accepted[n])
      BY <1>3, <3>1, <3>2, <3>5
    <3> QED
      BY <1>1, <3>1, <3>3, <3>4, <3>5
  <2>2. CASE k # n
    BY <1>2, <2>2 DEF IInv, NonceOnce
  <2> QED
    BY <2>1, <2>2
<1>6. NonceInv'
  <2> SUFFICES ASSUME NEW k \in Nodes
               PROVE  /\ verifying'[k] \in 1 .. nonces \cup {NoNonce}
                      /\ k \in Strict =>
                           \A i \in DOMAIN accepted'[k] :
                             /\ accepted'[k][i].nonce \in 1 .. nonces
                             /\ accepted'[k][i].nonce # verifying'[k]
    BY DEF NonceInv
  <2>1. verifying'[k] \in {verifying[k], NoNonce} /\ NoNonce \notin 1 .. nonces
    BY DEF Purges, IInv, TypeOK
  <2>2. CASE k = n
    <3>1. ASSUME NEW i \in DOMAIN accepted'[n], n \in Strict
          PROVE  accepted'[n][i].nonce \in 1 .. nonces
      <4>1. CASE i = Len(accepted[n]) + 1
        BY <1>3, <1>4, <3>1, <4>1
      <4>2. CASE i # Len(accepted[n]) + 1
        <5>1. i \in 1 .. Len(accepted[n])
          BY <1>1, <1>3, <4>2
        <5> QED
          BY <1>3, <3>1, <5>1 DEF IInv, NonceInv
      <4> QED
        BY <4>1, <4>2
    <3> QED
      BY <2>1, <2>2, <3>1 DEF IInv, NonceInv
  <2>3. CASE k # n
    BY <1>2, <2>1, <2>3 DEF IInv, NonceInv
  <2> QED
    BY <2>2, <2>3
<1> QED
  BY <1>2, <1>5, <1>6 DEF Purges, ReceiverOK, IInv, TypeOK

LEMMA DataKeeps ==
  ASSUME IInv, NEW n \in Nodes, NEW m \in net, NEW left, left \subseteq net,
         DataMessage(n, m, left)
  PROVE  SenderOK /\ ReceiverOK /\ NetOK
<1> USE NodesAssumption, BoundsAssumption
<1>1. m \in Message /\ left \subseteq Message \cup Request \cup Response /\ m.from \in Nodes
  BY DEF DataMessage, IInv, TypeOK, Message, Request, Response
<1>2. SenderOK /\ NetOK
  <2>1. CASE net' = left /\ UNCHANGED <<signer, given>>
    BY <1>1, <2>1, SenderSame DEF NetOK
  <2>2. CASE SendMessage(n, m.from, left)
    BY <1>1, <2>2, SendKeeps DEF NetOK
  <2> QED
    BY <2>1, <2>2 DEF DataMessage
<1>3. Purges(n) /\ (n \in Strict /\ Accepts(n, m) => verifying'[n] = NoNonce)
  <2>1. CASE <<n, m.from>> \in Requires
    <3>1. Verify(n, m)
      BY <2>1 DEF DataMessage
    <3>2. Accepts(n, m) => ongoing[n] /\ m.nonce # NoNonce
      BY <2>1 DEF Accepts, Verified, Open
    <3> QED
      BY <1>1, <3>1, <3>2, VerifyPurges DEF IInv
  <2>2. CASE <<n, m.from>> \notin Requires
    <3>1. n \notin Strict
      BY <1>1, <2>2 DEF Strict
    <3> QED
      BY <2>2, <3>1, CheckTimerPurges DEF DataMessage, IInv
  <2> QED
    BY <2>1, <2>2
<1>4. UNCHANGED <<nonces, asker>>
  BY DEF DataMessage
<1>5. CASE Accepts(n, m)
  <2>1. accepted' = [accepted EXCEPT ![n] = Append(@, m)]
    BY <1>5 DEF DataMessage
  <2> QED
    BY <1>1, <1>2, <1>3, <1>4, <1>5, <2>1, AcceptKeeps
<1>6. CASE ~Accepts(n, m)
  <2>1. accepted' = accepted
    BY <1>6 DEF DataMessage
  <2> QED
    BY <1>2, <1>3, <1>4, <2>1, PurgedKeeps
<1> QED
  BY <1>5, <1>6

LEMMA ReturnKeeps ==
  ASSUME IInv, NEW n \in Nodes, Return(n)
  PROVE  /\ SenderOK /\ ReceiverOK /\ NetOK
         /\ Signed(n) /\ ~Last(calls[n]).disturbed => IsGiven(n)
         /\ \A k \in Nodes : k # n => calls'[k] = calls[k]
<1> USE NodesAssumption, BoundsAssumption
<1>1. /\ calls[n] \in Seq(Call) /\ calls[n] # <<>>
      /\ calls' = [calls EXCEPT ![n] = Front(calls[n])]
      /\ UNCHANGED <<msgSign, nonceStatus, verifier, given, nonces, asker, accepted>>
  BY DEF Return, IInv, TypeOK
<1>2. /\ Front(calls[n]) \in Seq(Call) /\ Len(Front(calls[n])) = Len(calls[n]) - 1
      /\ Len(calls[n]) \in Nat \ {0}
      /\ \A i \in 1 .. Len(calls[n]) - 1 : Front(calls[n])[i] = calls[n][i]
  BY <1>1, FrontCalls
<1>3. DOMAIN calls[n] = 1 .. Len(calls[n]) /\ DOMAIN Front(calls[n]) = 1 .. Len(calls[n]) - 1
  BY <1>1, <1>2, LenProperties
<1>4. NetOK
  BY DEF Return, IInv, TypeOK, NetOK
<1>5. CallsInv'
  <2> SUFFICES ASSUME NEW k \in Nodes, NEW i \in DOMAIN calls'[k]
               PROVE  /\ i < Len(calls'[k]) => calls'[k][i].disturbed
                      /\ Holds(calls'[k][i], msgSign[k], nonceStatus[k])
    BY <1>1 DEF CallsInv
  <2>1. CASE k = n
    <3>1. calls'[k] = Front(calls[n])
      BY <1>1, <2>1 DEF IInv, TypeOK
    <3>2. /\ i \in 1 .. Len(calls[n]) - 1 /\ calls'[k][i] = calls[n][i]
      BY <1>2, <1>3, <3>1
    <3>3. i \in DOMAIN calls[n] /\ i < Len(calls[n])
      BY <1>2, <1>3, <3>2
    <3> QED
      BY <2>1, <3>2, <3>3 DEF IInv, CallsInv
  <2>2. CASE k # n
    BY <1>1, <2>2 DEF IInv, TypeOK, CallsInv
  <2> QED
    BY <2>1, <2>2
<1>6. SenderOK
  BY <1>1, <1>2, <1>5 DEF SenderOK, IInv, TypeOK
<1>7. ASSUME Signed(n), ~Last(calls[n]).disturbed
      PROVE  IsGiven(n)
  <2>1. nonceStatus[n] = "ok" /\ Len(calls[n]) \in DOMAIN calls[n]
    BY <1>2, <1>3, <1>7 DEF Return, Ended, Signed
  <2>2. Holds(Last(calls[n]), msgSign[n], "ok")
    BY <2>1 DEF IInv, CallsInv, Last
  <2> QED
    BY <1>7, <2>2 DEF Holds, IsGiven
<1> QED
  BY <1>1, <1>4, <1>6, <1>7, ReceiverSame DEF IInv, TypeOK

LEMMA LateCall ==
  ASSUME NEW c \in Call
  PROVE  LET d == [c EXCEPT !.late = TRUE]
         IN  d \in Call /\ d.msg = c.msg /\ d.disturbed = c.disturbed
<1>1. ASSUME NEW M, NEW B, NEW x \in [msg : M, late : B, disturbed : B], NEW b \in B
      PROVE  LET d == [x EXCEPT !.late = b]
             IN  /\ d \in [msg : M, late : B, disturbed : B]
                 /\ d.msg = x.msg /\ d.disturbed = x.disturbed
  BY <1>1
<1> QED
  BY <1>1, Zenon DEF Call

LEMMA LateKeeps ==
  ASSUME IInv, NEW n \in Nodes, Late(n)
  PROVE  SenderOK /\ ReceiverOK /\ NetOK
<1> USE NodesAssumption, BoundsAssumption
<1>1. PICK i \in DOMAIN calls[n] : calls' = [calls EXCEPT ![n][i].late = TRUE]
  BY DEF Late
<1>2. UNCHANGED <<msgSign, nonceStatus, verifier, net, given, nonces, asker, accepted>>
  BY DEF Late
<1>3. calls[n] \in Seq(Call) /\ calls[n][i] \in Call
  BY ElementOfSeq, LenProperties DEF IInv, TypeOK
<1> DEFINE c == [calls[n][i] EXCEPT !.late = TRUE]
<1>4. c \in Call /\ c.msg = calls[n][i].msg /\ c.disturbed = calls[n][i].disturbed
  BY <1>3, LateCall
<1>5. calls'[n] = [calls[n] EXCEPT ![i] = c] /\ \A k \in Nodes \ {n} : calls'[k] = calls[k]
  BY <1>1 DEF IInv, TypeOK
<1> HIDE DEF c
<1>6. calls'[n] \in Seq(Call) /\ Len(calls'[n]) = Len(calls[n])
  BY <1>3, <1>4, <1>5, ExceptSeq
<1>7. calls' \in [Nodes -> Seq(Call)]
  <2>1. calls' = [k \in Nodes |-> calls'[k]]
    BY <1>1 DEF IInv, TypeOK
  <2>2. \A k \in Nodes : calls'[k] \in Seq(Call)
    BY <1>5, <1>6 DEF IInv, TypeOK
  <2> QED
    BY <2>1, <2>2
<1>8. CallsInv'
  <2> SUFFICES ASSUME NEW k \in Nodes, NEW j \in DOMAIN calls'[k]
               PROVE  /\ j < Len(calls'[k]) => calls'[k][j].disturbed
                      /\ Holds(calls'[k][j], msgSign[k], nonceStatus[k])
    BY <1>2 DEF CallsInv
  <2>1. CASE k = n
    <3>1. j \in DOMAIN calls[n]
      BY <1>5, <2>1
    <3>2. /\ calls'[n][j].msg = calls[n][j].msg
          /\ calls'[n][j].disturbed = calls[n][j].disturbed
      BY <1>4, <1>5, <3>1
    <3>3. /\ j < Len(calls[n]) => calls[n][j].disturbed
          /\ Holds(calls[n][j], msgSign[n], nonceStatus[n])
      BY <3>1 DEF IInv, CallsInv
    <3> QED
      BY <1>6, <2>1, <3>2, <3>3 DEF Holds
  <2>2. CASE k # n
    BY <1>5, <2>2 DEF IInv, CallsInv
  <2> QED
    BY <2>1, <2>2
<1>9. SenderOK
  BY <1>2, <1>7, <1>8 DEF SenderOK, IInv, TypeOK
<1> QED
  BY <1>2, <1>9, ReceiverSame DEF NetOK, IInv, TypeOK

-----------------------------------------------------------------------------
LEMMA NextInv ==
  ASSUME IInv, [Next]_vars
  PROVE  /\ IInv'
         /\ \A n \in Nodes : Signed(n) /\ ~Last(calls[n]).disturbed => IsGiven(n)
<1> USE NodesAssumption, BoundsAssumption
<1> DEFINE Given == \A n \in Nodes : Signed(n) /\ ~Last(calls[n]).disturbed => IsGiven(n)
           Kept == SenderOK /\ ReceiverOK /\ NetOK /\ faults' \in 0 .. MaxFaults
<1>1. /\ faults \in 0 .. MaxFaults /\ faults + 1 \in Nat
      /\ \A n \in Nodes : calls[n] \in Seq(Call)
  BY DEF IInv, TypeOK
<1>2. ASSUME NEW n \in Nodes, \/ calls'[n] = calls[n]
                              \/ Len(calls'[n]) \in Nat /\ Len(calls'[n]) >= Len(calls[n])
      PROVE  ~Signed(n)
  BY <1>2, <1>1, LenProperties DEF Signed
<1>3. ASSUME NEW n \in Nodes, NEW to \in Nodes, NEW left, SendMessage(n, to, left)
      PROVE  Given
  <2>1. \A k \in Nodes : calls'[k] = calls[k] \/ Len(calls'[k]) = Len(calls[k]) + 1
    <3>1. CASE UNCHANGED signer
      BY <3>1 DEF signer
    <3>2. CASE <<to, n>> \in Requires
      <4> DEFINE c == [msg |-> Data(n, to, given + 1), late |-> FALSE, disturbed |-> FALSE]
      <4>1. calls' = [calls EXCEPT ![n] = Nested(calls[n], c)]
        BY <1>3, <3>2 DEF SendMessage, Push, Nested
      <4>2. c \in Call
        <5>1. given + 1 \in 1 .. MaxCalls
          BY <1>3 DEF SendMessage, IInv, TypeOK
        <5> QED
          BY <5>1, DataType DEF Call
      <4> HIDE DEF c
      <4>3. Len(Nested(calls[n], c)) = Len(calls[n]) + 1
        BY <1>1, <4>2, NestedCalls
      <4>4. \A k \in Nodes : calls'[k] = IF k = n THEN Nested(calls[n], c) ELSE calls[k]
        BY <4>1 DEF IInv, TypeOK
      <4> QED
        BY <4>3, <4>4
    <3> QED
      BY <1>3, <3>1, <3>2 DEF SendMessage
  <2> QED
    BY <1>1, <1>2, <2>1, LenProperties
<1>4. ASSUME UNCHANGED calls PROVE Given
  BY <1>2, <1>4
<1>5. ASSUME NEW n \in Nodes, Return(n) PROVE Kept /\ Given
  <2>1. Kept
    BY <1>1, <1>5, ReturnKeeps DEF Return
  <2>2. Given
    BY <1>2, <1>5, ReturnKeeps
  <2> QED
    BY <2>1, <2>2
<1>6. ASSUME NEW n \in Nodes, Late(n) PROVE Kept /\ Given
  <2>1. Kept
    BY <1>1, <1>6, LateKeeps DEF Late
  <2>2. \A k \in Nodes : Len(calls'[k]) = Len(calls[k])
    <3>1. PICK i \in DOMAIN calls[n] : calls' = [calls EXCEPT ![n][i].late = TRUE]
      BY <1>6 DEF Late
    <3>2. calls'[n] = [calls[n] EXCEPT ![i] = [calls[n][i] EXCEPT !.late = TRUE]]
      BY <3>1 DEF IInv, TypeOK
    <3>3. DOMAIN calls'[n] = DOMAIN calls[n] /\ calls'[n] \in Seq(Call)
      BY <2>1, <3>2 DEF SenderOK
    <3>4. Len(calls'[n]) = Len(calls[n])
      BY <1>1, <3>3, LenProperties
    <3> QED
      BY <3>1, <3>4 DEF IInv, TypeOK
  <2> QED
    BY <1>1, <1>2, <2>1, <2>2, LenProperties
<1>7. ASSUME NEW n \in Nodes, Expire(n) PROVE Kept /\ Given
  <2>1. /\ SenderOK /\ NetOK /\ Given
    BY <1>4, <1>7, SenderSame DEF Expire, signer, NetOK, IInv, TypeOK
  <2>2. expired' \in [Nodes -> BOOLEAN]
    BY <1>7, Zenon DEF Expire, IInv, TypeOK
  <2>3. ReceiverOK
    BY <1>7, <2>2 DEF Expire, ReceiverOK, IInv, TypeOK, NonceOnce, NonceInv
  <2> QED
    BY <1>1, <1>7, <2>1, <2>3 DEF Expire
<1>8. ASSUME NEW n \in Nodes, NEW to \in Nodes, Send(n, to) PROVE Kept /\ Given
  <2>1. SenderOK /\ NetOK /\ Given
    BY <1>3, <1>8, SendKeeps DEF Send, NetOK, IInv, TypeOK
  <2> QED
    BY <1>1, <1>8, <2>1, ReceiverSame DEF Send
<1>9. ASSUME NEW m \in net, NEW left, left \subseteq net, Process(m.to, m, left)
      PROVE  SenderOK /\ ReceiverOK /\ NetOK /\ Given
  <2>1. m.to \in Nodes /\ m.from \in Nodes
    BY DEF IInv, TypeOK, Message, Request, Response
  <2>2. CASE NonceRequest(m.to, m, left)
    <3>1. UNCHANGED calls
      BY <2>2 DEF NonceRequest, signer
    <3>2. Given
      BY <1>4, <3>1
    <3>3. SenderOK /\ ReceiverOK /\ NetOK
      BY <1>9, <2>1, <2>2, RequestKeeps
    <3> QED
      BY <3>2, <3>3
  <2>3. CASE NonceResponse(m.to, m, left)
    BY <1>4, <1>9, <2>1, <2>3, ResponseKeeps DEF NonceResponse
  <2>4. CASE DataMessage(m.to, m, left)
    <3>1. Given
      BY <1>3, <1>4, <2>1, <2>4 DEF DataMessage, signer
    <3> QED
      BY <1>9, <2>1, <2>4, <3>1, DataKeeps
  <2> QED
    BY <1>9, <2>2, <2>3, <2>4 DEF Process
<1>10. ASSUME NEW m \in net, Deliver(m) PROVE Kept /\ Given
  BY <1>1, <1>9, <1>10 DEF Deliver
<1>11. ASSUME NEW m \in net, Repeat(m) PROVE Kept /\ Given
  <2>1. SenderOK /\ ReceiverOK /\ NetOK /\ Given
    BY <1>9, <1>11 DEF Repeat
  <2>2. faults' \in 0 .. MaxFaults
    BY <1>1, <1>11 DEF Repeat, Fault
  <2> QED
    BY <2>1, <2>2
<1>12. ASSUME NEW m \in net, Lose(m) PROVE Kept /\ Given
  <2>1. SenderOK /\ ReceiverOK
    BY <1>12, SenderSame, ReceiverSame DEF Lose
  <2>2. NetOK /\ Given /\ faults' \in 0 .. MaxFaults
    BY <1>1, <1>4, <1>12 DEF Lose, Fault, signer, NetOK, IInv, TypeOK
  <2> QED
    BY <2>1, <2>2
<1>13. ASSUME UNCHANGED vars PROVE Kept /\ Given
  <2>1. SenderOK /\ ReceiverOK
    BY <1>13, SenderSame, ReceiverSame DEF vars, signer, verifier
  <2>2. NetOK /\ Given /\ faults' \in 0 .. MaxFaults
    BY <1>1, <1>4, <1>13 DEF vars, NetOK, IInv, TypeOK
  <2> QED
    BY <2>1, <2>2
<1> HIDE DEF Kept, Given
<1>14. Kept /\ Given
  <2>1. ASSUME NEW n \in Nodes,
               Return(n) \/ Late(n) \/ Expire(n) \/ \E to \in Nodes : Send(n, to)
        PROVE  Kept /\ Given
    BY <1>5, <1>6, <1>7, <1>8, <2>1
  <2>2. ASSUME NEW m \in net, Deliver(m) \/ Repeat(m) \/ Lose(m)
        PROVE  Kept /\ Given
    BY <1>10, <1>11, <1>12, <2>2
  <2>3. CASE Next
    BY <2>1, <2>2, <2>3, Zenon DEF Next
  <2> QED
    BY <1>13, <2>3
<1> QED
  BY <1>14 DEF Kept, Given, SenderOK, ReceiverOK, NetOK, IInv, TypeOK

(* IInv is inductive.                                                      *)
LEMMA Invariance == Spec => []IInv
<1>1. IInv /\ [Next]_vars => IInv'
  BY NextInv
<1> QED
  BY <1>1, InitInv, PTL DEF Spec

(* TypeOK: every variable of the signer and the verifier keeps its range   *)
(* (core/MySigning.cpp, core/MySigningAtsha204Soft.cpp).                   *)
THEOREM TypeCorrect == Spec => []TypeOK
<1>1. IInv => TypeOK
  BY DEF IInv
<1> QED
  BY <1>1, Invariance, PTL

(* NonceOnce: a nonce is good for one message (MySigningAtsha204Soft.cpp:  *)
(* 195, 331), for any number of nodes, messages, losses and repetitions.   *)
THEOREM NonceOnceCorrect == Spec => []NonceOnce
<1>1. IInv => NonceOnce
  BY DEF IInv
<1> QED
  BY <1>1, Invariance, PTL

(* UndisturbedIsGiven: signerSignMsg (MySigning.cpp:206-230) returns the   *)
(* message it was given, signed, when no call was nested in it.            *)
THEOREM UndisturbedCorrect == Spec => UndisturbedIsGiven
<1>1. IInv /\ [Next]_vars =>
        [\A n \in Nodes : Signed(n) /\ ~Last(calls[n]).disturbed => IsGiven(n)]_vars
  BY NextInv
<1> QED
  BY <1>1, Invariance, PTL DEF Spec, UndisturbedIsGiven

-----------------------------------------------------------------------------
(* Sessions and signatures.  A nonce, in a response or as the signature of *)
(* a message, belongs to the node that asked for it.                       *)
Bearer(m) == IF m.kind = "response" THEN m.to ELSE m.from
Bound(m, a, k) == m.kind # "request" /\ m.nonce # NoNonce =>
                    m.nonce \in 1 .. k /\ a[m.nonce] = Bearer(m)
AskerInv == /\ \A m \in net : Bound(m, asker, nonces)
            /\ \A n \in Nodes : msgSign[n].from = n /\ Bound(msgSign[n], asker, nonces)
SessionInv == \A n \in Nodes : ongoing[n] => verifying[n] # NoNonce

AInv == IInv /\ AskerInv /\ SessionInv

(* Who asked for a nonce is never forgotten.                               *)
Grown == /\ nonces' \in Nat /\ nonces <= nonces'
         /\ \A k \in 1 .. nonces : asker'[k] = asker[k]

LEMMA SameGrown ==
  ASSUME IInv, UNCHANGED <<nonces, asker>>
  PROVE  Grown
BY BoundsAssumption DEF Grown, IInv, TypeOK

LEMMA GrownKeeps ==
  ASSUME IInv, Grown, NEW m, Bound(m, asker, nonces)
  PROVE  Bound(m, asker', nonces')
<1>1. nonces \in Nat
  BY BoundsAssumption DEF IInv, TypeOK
<1>2. \A k \in 1 .. nonces : k \in 1 .. nonces' /\ asker'[k] = asker[k]
  BY <1>1 DEF Grown
<1> QED
  BY <1>2 DEF Bound

LEMMA GrownLeft ==
  ASSUME IInv, AskerInv, Grown, NEW left, left \subseteq net
  PROVE  \A m \in left : Bound(m, asker', nonces')
<1> SUFFICES ASSUME NEW m \in left PROVE Bound(m, asker', nonces')
  OBVIOUS
<1>1. Bound(m, asker, nonces)
  BY DEF AskerInv
<1> QED
  BY <1>1, GrownKeeps

LEMMA GrownSigner ==
  ASSUME IInv, AskerInv, Grown, NEW n \in Nodes
  PROVE  msgSign[n].from = n /\ Bound(msgSign[n], asker', nonces')
<1>1. msgSign[n].from = n /\ Bound(msgSign[n], asker, nonces)
  BY DEF AskerInv
<1> QED
  BY <1>1, GrownKeeps

LEMMA SendBound ==
  ASSUME IInv, AskerInv, Grown, NEW n \in Nodes, NEW to \in Nodes, NEW left, left \subseteq net,
         SendMessage(n, to, left)
  PROVE  AskerInv'
<1> DEFINE m == Data(n, to, given + 1)
           q == [kind |-> "request", from |-> n, to |-> to, id |-> m.id]
<1>1. m.from = n /\ Bound(m, asker', nonces') /\ Bound(q, asker', nonces')
  BY DEF Data, Bound
<1>2. net' \subseteq left \cup {m, q}
  BY DEF SendMessage
<1>3. \A k \in Nodes : msgSign'[k] \in {msgSign[k], IF k = n THEN m ELSE msgSign[k]}
  BY DEF SendMessage, Waiting, signer, IInv, TypeOK
<1> HIDE DEF m, q
<1>4. \A x \in net' : Bound(x, asker', nonces')
  BY <1>1, <1>2, GrownLeft
<1>5. \A k \in Nodes : msgSign'[k].from = k /\ Bound(msgSign'[k], asker', nonces')
  BY <1>1, <1>3, GrownSigner
<1> QED
  BY <1>4, <1>5 DEF AskerInv

LEMMA SameSigner ==
  ASSUME IInv, AskerInv, Grown, UNCHANGED msgSign, net' \subseteq net
  PROVE  AskerInv'
<1>1. \A x \in net' : Bound(x, asker', nonces')
  BY GrownLeft
<1>2. \A k \in Nodes : msgSign'[k].from = k /\ Bound(msgSign'[k], asker', nonces')
  BY GrownSigner
<1> QED
  BY <1>1, <1>2 DEF AskerInv

(* A new nonce is the asker's.                                             *)
LEMMA RequestBound ==
  ASSUME AInv, NEW n \in Nodes, NEW m \in net, NEW left, left \subseteq net,
         NonceRequest(n, m, left)
  PROVE  AskerInv' /\ SessionInv'
<1> USE BoundsAssumption
<1> DEFINE r == [kind |-> "response", from |-> n, to |-> m.from, nonce |-> nonces']
<1>1. /\ nonces \in Nat /\ nonces' = nonces + 1 /\ nonces' \in Nonce
      /\ asker' = [asker EXCEPT ![nonces'] = m.from]
      /\ net' = left \cup {r} /\ UNCHANGED msgSign
      /\ verifying' = [verifying EXCEPT ![n] = nonces'] /\ ongoing' = [ongoing EXCEPT ![n] = TRUE]
  BY DEF NonceRequest, GetNonce, signer, AInv, IInv, TypeOK, Nonce
<1>2. asker'[nonces'] = m.from /\ \A k \in 1 .. nonces : asker'[k] = asker[k]
  BY <1>1 DEF AInv, IInv, TypeOK, Nonce
<1>3. Grown
  BY <1>1, <1>2 DEF Grown
<1>4. Bound(r, asker', nonces')
  BY <1>1, <1>2 DEF Bound, Bearer
<1> HIDE DEF r
<1>5. \A x \in net' : Bound(x, asker', nonces')
  BY <1>1, <1>3, <1>4, GrownLeft DEF AInv
<1>6. \A k \in Nodes : msgSign'[k].from = k /\ Bound(msgSign'[k], asker', nonces')
  BY <1>1, <1>3, GrownSigner DEF AInv
<1>7. SessionInv'
  <2> SUFFICES ASSUME NEW k \in Nodes, ongoing'[k] PROVE verifying'[k] # NoNonce
    BY DEF SessionInv
  <2>1. CASE k = n
    BY <1>1, <2>1 DEF AInv, IInv, TypeOK, Nonce
  <2>2. CASE k # n
    <3>1. ongoing[k] /\ verifying'[k] = verifying[k]
      BY <1>1, <2>2, Zenon DEF AInv, IInv, TypeOK
    <3> QED
      BY <3>1 DEF AInv, SessionInv
  <2> QED
    BY <2>1, <2>2
<1> QED
  BY <1>5, <1>6, <1>7 DEF AskerInv

(* The message signed with it is from the asker.                           *)
LEMMA ResponseBound ==
  ASSUME AInv, NEW m \in net, NEW left, left \subseteq net,
         NonceResponse(m.to, m, left)
  PROVE  AskerInv'
<1>1. /\ m \in Response /\ m.kind = "response" /\ m.to \in Nodes /\ m.nonce # NoNonce
      /\ Bound(m, asker, nonces)
  <2>1. m.kind = "response" /\ m \in Message \cup Request \cup Response /\ Bound(m, asker, nonces)
    BY DEF NonceResponse, AInv, AskerInv, IInv, TypeOK
  <2>2. m \in Response
    BY <2>1 DEF Message, Request
  <2>3. m.to \in Nodes /\ m.nonce \in 1 .. MaxNonces
    BY <2>2 DEF Response, Nonce
  <2> QED
    BY <2>1, <2>2, <2>3, BoundsAssumption
<1>2. Grown /\ net' = left
  BY SameGrown DEF NonceResponse, AInv
<1>3. CASE m.from = msgSign[m.to].to
  <2> DEFINE s == [msgSign[m.to] EXCEPT !.nonce = m.nonce]
  <2>1. msgSign' = [msgSign EXCEPT ![m.to] = s]
    BY <1>3 DEF NonceResponse, SignWith
  <2>2. msgSign[m.to] \in Message /\ msgSign[m.to].from = m.to
    BY <1>1 DEF AInv, IInv, TypeOK, AskerInv
  <2>3. s.kind = "data" /\ s.from = m.to /\ s.nonce = m.nonce
    BY <2>2 DEF Message
  <2> HIDE DEF s
  <2>4. Bound(s, asker', nonces')
    <3>1. m.nonce \in 1 .. nonces /\ asker[m.nonce] = m.to
      BY <1>1, Zenon DEF Bound, Bearer
    <3>2. UNCHANGED <<nonces, asker>>
      BY DEF NonceResponse
    <3> QED
      BY <2>3, <3>1, <3>2 DEF Bound, Bearer
  <2>5. \A k \in Nodes : msgSign'[k] = IF k = m.to THEN s ELSE msgSign[k]
    BY <2>1 DEF AInv, IInv, TypeOK
  <2>6. \A k \in Nodes : msgSign'[k].from = k /\ Bound(msgSign'[k], asker', nonces')
    BY <1>2, <2>3, <2>4, <2>5, GrownSigner DEF AInv
  <2>7. \A x \in net' : Bound(x, asker', nonces')
    BY <1>2, GrownLeft DEF AInv
  <2> QED
    BY <2>6, <2>7 DEF AskerInv
<1>4. CASE m.from # msgSign[m.to].to
  <2>1. UNCHANGED msgSign
    BY <1>4 DEF NonceResponse
  <2> QED
    BY <1>2, <2>1, SameSigner DEF AInv
<1> QED
  BY <1>3, <1>4

(* A session ended has no nonce, and the others are as they were.          *)
LEMMA CheckTimerSession ==
  ASSUME AInv, NEW n \in Nodes, CheckTimer(n)
  PROVE  /\ SessionInv'
         /\ \A k \in Nodes : Open(k)' = Open(k) /\ (Open(k) => verifying'[k] = verifying[k])
<1>1. ASSUME NEW k \in Nodes
      PROVE  /\ ongoing'[k] = (IF k = n THEN Open(n) ELSE ongoing[k])
             /\ expired'[k] = expired[k]
  BY Zenon DEF CheckTimer, AInv, IInv, TypeOK
<1>2. ASSUME NEW k \in Nodes
      PROVE  verifying'[k] = IF k = n /\ ongoing[n] /\ ~Open(n) THEN NoNonce ELSE verifying[k]
  BY DEF CheckTimer, AInv, IInv, TypeOK
<1>3. \A k \in Nodes : Open(k)' = Open(k) /\ (Open(k) => verifying'[k] = verifying[k])
  <2> SUFFICES ASSUME NEW k \in Nodes
               PROVE  Open(k)' = Open(k) /\ (Open(k) => verifying'[k] = verifying[k])
    OBVIOUS
  <2>1. CASE k = n
    BY <1>1, <1>2, <2>1, Zenon DEF Open
  <2>2. CASE k # n
    BY <1>1, <1>2, <2>2, Zenon DEF Open
  <2> QED
    BY <2>1, <2>2
<1>4. SessionInv'
  <2> SUFFICES ASSUME NEW k \in Nodes, ongoing'[k] PROVE verifying'[k] # NoNonce
    BY DEF SessionInv
  <2>1. ongoing[k] /\ verifying'[k] = verifying[k]
    <3>1. CASE k = n
      BY <1>1, <1>2, <3>1, Zenon DEF Open
    <3>2. CASE k # n
      BY <1>1, <1>2, <3>2, Zenon
    <3> QED
      BY <3>1, <3>2
  <2> QED
    BY <2>1 DEF AInv, SessionInv
<1> QED
  BY <1>3, <1>4

LEMMA VerifySession ==
  ASSUME AInv, NEW n \in Nodes, NEW m, m.nonce # NoNonce, Verify(n, m)
  PROVE  /\ SessionInv' /\ ~Open(n)'
         /\ \A k \in Nodes \ {n} : Open(k)' = Open(k) /\ verifying'[k] = verifying[k]
<1>1. ASSUME NEW k \in Nodes
      PROVE  /\ ongoing'[k] = (IF k = n THEN FALSE ELSE ongoing[k])
             /\ expired'[k] = expired[k]
  BY Zenon DEF Verify, AInv, IInv, TypeOK
<1>2. ASSUME NEW k \in Nodes, k # n
      PROVE  verifying'[k] = verifying[k]
  BY <1>2 DEF Verify, AInv, IInv, TypeOK
<1>3. SessionInv'
  <2> SUFFICES ASSUME NEW k \in Nodes, ongoing'[k] PROVE verifying'[k] # NoNonce
    BY DEF SessionInv
  <2>1. k # n /\ ongoing[k]
    BY <1>1, Zenon
  <2> QED
    BY <1>2, <2>1 DEF AInv, SessionInv
<1>4. ~Open(n)'
  BY <1>1, Zenon DEF Open
<1>5. ASSUME NEW k \in Nodes \ {n} PROVE Open(k)' = Open(k) /\ verifying'[k] = verifying[k]
  BY <1>1, <1>2, <1>5, Zenon DEF Open
<1> QED
  BY <1>3, <1>4, <1>5

(* The state as OneTimeNonce sees it.                                      *)
LEMMA SameSession ==
  ASSUME AInv, Grown, NEW k \in Nodes, Open(k)' = Open(k), Open(k) => verifying'[k] = verifying[k]
  PROVE  Sessions'[k] = Sessions[k]
<1>1. ASSUME Open(k) PROVE verifying[k] \in 1 .. nonces
  BY <1>1 DEF Open, AInv, SessionInv, IInv, NonceInv
<1>2. ASSUME Open(k) PROVE asker'[verifying'[k]] = asker[verifying[k]]
  <2>1. verifying'[k] = verifying[k]
    BY <1>2
  <2>2. verifying[k] \in 1 .. nonces
    BY <1>1, <1>2
  <2> QED
    BY <2>1, <2>2 DEF Grown
<1> QED
  BY <1>2 DEF Sessions

LEMMA SessionEnds ==
  ASSUME AInv, Grown, NEW n \in Nodes, ~Open(n)',
         \A k \in Nodes \ {n} : Open(k)' = Open(k) /\ verifying'[k] = verifying[k]
  PROVE  Sessions' = [Sessions EXCEPT ![n] = {}]
<1>1. Sessions'[n] = {}
  BY DEF Sessions
<1>2. \A k \in Nodes \ {n} : Sessions'[k] = Sessions[k]
  BY SameSession
<1>3. DOMAIN Sessions = Nodes /\ DOMAIN Sessions' = Nodes /\ Sessions' = [k \in Nodes |-> Sessions'[k]]
  BY DEF Sessions
<1>4. [Sessions EXCEPT ![n] = {}] = [k \in Nodes |-> IF k = n THEN {} ELSE Sessions[k]]
  BY <1>3
<1> HIDE DEF Sessions
<1> QED
  BY <1>1, <1>2, <1>3, <1>4

Entry(m) == [nonce |-> m.nonce, peer |-> m.from]
Entries(s) == [i \in DOMAIN s |-> Entry(s[i])]

LEMMA EntriesAppend ==
  ASSUME NEW s \in Seq(Message), NEW m \in Message
  PROVE  Entries(Append(s, m)) = Append(Entries(s), Entry(m))
<1>1. /\ Append(s, m) \in Seq(Message) /\ Len(Append(s, m)) = Len(s) + 1 /\ Len(s) \in Nat
      /\ DOMAIN Append(s, m) = 1 .. Len(s) + 1 /\ DOMAIN s = 1 .. Len(s)
      /\ Append(s, m)[Len(s) + 1] = m
      /\ \A i \in 1 .. Len(s) : Append(s, m)[i] = s[i]
  BY AppendProperties, LenProperties
<1> DEFINE E == {Entry(x) : x \in Message}
<1>2. Entries(s) \in [1 .. Len(s) -> E]
  BY <1>1, ElementOfSeq DEF Entries
<1>3. Entries(s) \in Seq(E) /\ Len(Entries(s)) = Len(s)
  BY <1>1, <1>2, SeqDef, LenProperties
<1>4. Entry(m) \in E
  OBVIOUS
<1> HIDE DEF E
<1>5. /\ Append(Entries(s), Entry(m)) \in Seq(E)
      /\ DOMAIN Append(Entries(s), Entry(m)) = 1 .. Len(s) + 1
      /\ Append(Entries(s), Entry(m))[Len(s) + 1] = Entry(m)
      /\ \A i \in 1 .. Len(s) : Append(Entries(s), Entry(m))[i] = Entries(s)[i]
  BY <1>1, <1>3, <1>4, AppendProperties, LenProperties
<1>6. Entries(Append(s, m)) = [i \in 1 .. Len(s) + 1 |-> Entry(Append(s, m)[i])]
  BY <1>1 DEF Entries
<1>7. ASSUME NEW i \in 1 .. Len(s) + 1
      PROVE  Entry(Append(s, m)[i]) = Append(Entries(s), Entry(m))[i]
  <2>1. CASE i = Len(s) + 1
    BY <1>1, <1>5, <2>1
  <2>2. CASE i \in 1 .. Len(s)
    <3>1. Entries(s)[i] = Entry(s[i])
      BY <1>1, <2>2 DEF Entries
    <3> QED
      BY <1>1, <1>5, <2>2, <3>1
  <2>3. i = Len(s) + 1 \/ i \in 1 .. Len(s)
    BY <1>1
  <2> QED
    BY <2>1, <2>2, <2>3, Zenon
<1>8. Append(Entries(s), Entry(m)) = [i \in 1 .. Len(s) + 1 |-> Append(Entries(s), Entry(m))[i]]
  BY <1>5, <1>1, LenProperties, SeqDef
<1> QED
  BY <1>6, <1>7, <1>8

LEMMA LogIs == Log = [n \in Nodes |-> IF n \in Strict THEN Entries(accepted[n]) ELSE <<>>]
BY DEF Log, Entries, Entry

LEMMA LogSame == UNCHANGED accepted => UNCHANGED Log
BY DEF Log

LEMMA LogAppend ==
  ASSUME AInv, NEW n \in Nodes, NEW m \in Message, accepted' = [accepted EXCEPT ![n] = Append(@, m)]
  PROVE  /\ n \in Strict => Log' = [Log EXCEPT ![n] = Append(@, Entry(m))]
         /\ n \notin Strict => Log' = Log
<1>1. Log' = [k \in Nodes |-> IF k \in Strict THEN Entries(accepted'[k]) ELSE <<>>]
  BY DEF Log, Entries, Entry
<1>2. accepted[n] \in Seq(Message) /\ \A k \in Nodes : accepted'[k] = IF k = n THEN Append(accepted[n], m) ELSE accepted[k]
  BY DEF AInv, IInv, TypeOK
<1>3. Entries(Append(accepted[n], m)) = Append(Entries(accepted[n]), Entry(m))
  BY <1>2, EntriesAppend
<1>4. CASE n \in Strict
  <2>1. Log' = [k \in Nodes |-> IF k = n THEN Append(Entries(accepted[n]), Entry(m)) ELSE Log[k]]
    <3> SUFFICES ASSUME NEW k \in Nodes
                 PROVE  (IF k \in Strict THEN Entries(accepted'[k]) ELSE <<>>)
                          = IF k = n THEN Append(Entries(accepted[n]), Entry(m)) ELSE Log[k]
      BY <1>1
    <3>1. CASE k = n
      BY <1>2, <1>3, <1>4, <3>1
    <3>2. CASE k # n
      BY <1>2, <3>2, LogIs
    <3> QED
      BY <3>1, <3>2
  <2>2. Log[n] = Entries(accepted[n]) /\ DOMAIN Log = Nodes
    BY <1>4, LogIs
  <2>3. [Log EXCEPT ![n] = Append(@, Entry(m))]
          = [k \in Nodes |-> IF k = n THEN Append(Log[n], Entry(m)) ELSE Log[k]]
    BY <2>2
  <2> QED
    BY <1>4, <2>1, <2>2, <2>3
<1>5. CASE n \notin Strict
  BY <1>1, <1>2, <1>5, LogIs
<1> QED
  BY <1>4, <1>5

-----------------------------------------------------------------------------
(* Each action is a step of OneTimeNonce, or none.                         *)
Implements == Auth!ANext \/ UNCHANGED Auth!avars

LEMMA StaysTheSame ==
  ASSUME UNCHANGED <<verifier, nonces, asker, accepted>>
  PROVE  Implements /\ (SessionInv => SessionInv')
<1>1. UNCHANGED <<Sessions, nonces, Log>>
  BY DEF Sessions, Log, Open, verifier
<1> QED
  BY <1>1 DEF Implements, Auth!avars, SessionInv, verifier

LEMMA TimerStutters ==
  ASSUME AInv, NEW n \in Nodes, CheckTimer(n), UNCHANGED <<nonces, asker>>, UNCHANGED Log
  PROVE  Implements
<1>1. \A k \in Nodes : Sessions'[k] = Sessions[k]
  BY CheckTimerSession, SameGrown, SameSession DEF AInv
<1>2. Sessions' = [k \in Nodes |-> Sessions'[k]] /\ Sessions = [k \in Nodes |-> Sessions[k]]
  BY DEF Sessions
<1>3. Sessions' = Sessions
  BY <1>1, <1>2
<1> QED
  BY <1>3 DEF Implements, Auth!avars

LEMMA RequestImplements ==
  ASSUME AInv, NEW n \in Nodes, NEW m \in net, NEW left, NonceRequest(n, m, left)
  PROVE  Implements
<1> USE BoundsAssumption
<1>1. /\ nonces \in Nat /\ nonces' = nonces + 1 /\ nonces' \in Nonce
      /\ asker' = [asker EXCEPT ![nonces'] = m.from] /\ m.from \in Nodes
      /\ verifying' = [verifying EXCEPT ![n] = nonces']
      /\ ongoing' = [ongoing EXCEPT ![n] = TRUE] /\ expired' = [expired EXCEPT ![n] = FALSE]
      /\ UNCHANGED accepted
  BY DEF NonceRequest, GetNonce, AInv, IInv, TypeOK, Nonce, Message, Request, Response
<1>2. asker'[nonces'] = m.from /\ \A k \in 1 .. nonces : asker'[k] = asker[k]
  BY <1>1 DEF AInv, IInv, TypeOK, Nonce
<1>3. Grown
  BY <1>1, <1>2 DEF Grown
<1>4. Open(n)' /\ verifying'[n] = nonces'
  <2>1. ongoing'[n] /\ ~expired'[n]
    BY <1>1, Zenon DEF AInv, IInv, TypeOK
  <2>2. verifying'[n] = nonces'
    BY <1>1 DEF AInv, IInv, TypeOK
  <2> QED
    BY <2>1, <2>2 DEF Open
<1>5. Sessions'[n] = {[nonce |-> nonces', peer |-> m.from]}
  BY <1>2, <1>4 DEF Sessions
<1>6. ASSUME NEW k \in Nodes \ {n} PROVE Sessions'[k] = Sessions[k]
  <2>1. ongoing'[k] = ongoing[k] /\ expired'[k] = expired[k] /\ verifying'[k] = verifying[k]
    BY <1>1, <1>6, Zenon DEF AInv, IInv, TypeOK
  <2> QED
    BY <1>3, <2>1, SameSession DEF Open
<1>7. Sessions' = [k \in Nodes |-> Sessions'[k]] /\ DOMAIN Sessions = Nodes
  BY DEF Sessions
<1> HIDE DEF Sessions
<1>8. Sessions' = [Sessions EXCEPT ![n] = {[nonce |-> nonces', peer |-> m.from]}]
  BY <1>5, <1>6, <1>7
<1>9. Auth!Issue(n, m.from)
  BY <1>1, <1>8, LogSame DEF Auth!Issue
<1> QED
  BY <1>1, <1>9 DEF Implements, Auth!ANext

LEMMA DataImplements ==
  ASSUME AInv, NEW n \in Nodes, NEW m \in net, NEW left, DataMessage(n, m, left)
  PROVE  Implements /\ SessionInv'
<1>1. /\ m \in Message /\ m.from \in Nodes /\ UNCHANGED <<nonces, asker>> /\ m.kind = "data"
      /\ Bound(m, asker, nonces)
  BY DEF DataMessage, AInv, AskerInv, IInv, TypeOK, Message, Request, Response
<1>2. CASE <<n, m.from>> \notin Requires
  <2>1. CheckTimer(n)
    BY <1>2 DEF DataMessage
  <2>2. n \notin Strict
    BY <1>1, <1>2 DEF Strict
  <2>3. UNCHANGED Log
    BY <1>1, <2>2, LogAppend, LogSame DEF DataMessage
  <2> QED
    BY <1>1, <2>1, <2>3, TimerStutters, CheckTimerSession
<1>3. CASE <<n, m.from>> \in Requires /\ m.nonce = NoNonce
  <2>1. CheckTimer(n) /\ UNCHANGED accepted
    BY <1>3 DEF DataMessage, Verify, Accepts
  <2> QED
    BY <1>1, <2>1, LogSame, TimerStutters, CheckTimerSession
<1>4. CASE <<n, m.from>> \in Requires /\ m.nonce # NoNonce
  <2>1. Verify(n, m)
    BY <1>4 DEF DataMessage
  <2>2. SessionInv' /\ Sessions' = [Sessions EXCEPT ![n] = {}]
    <3>1. Grown
      BY <1>1, SameGrown DEF AInv
    <3>2. /\ SessionInv' /\ ~Open(n)'
          /\ \A k \in Nodes \ {n} : Open(k)' = Open(k) /\ verifying'[k] = verifying[k]
      BY <1>4, <2>1, VerifySession
    <3> QED
      BY <3>1, <3>2, SessionEnds
  <2>3. CASE Verified(n, m)
    <3>1. Sessions[n] = {Entry(m)}
      <4>1. Open(n) /\ m.nonce = verifying[n] /\ asker[m.nonce] = m.from
        BY <1>1, <1>4, <2>3 DEF Verified, Bound, Bearer
      <4> QED
        BY <4>1 DEF Sessions, Entry
    <3>2. accepted' = [accepted EXCEPT ![n] = Append(@, m)]
      BY <1>4, <2>3 DEF DataMessage, Accepts
    <3>3. CASE n \in Strict
      <4>1. Log' = [Log EXCEPT ![n] = Append(@, Entry(m))]
        BY <1>1, <3>2, <3>3, LogAppend
      <4>2. Auth!Accept(n)
        BY <1>1, <2>2, <3>1, <4>1 DEF Auth!Accept
      <4> QED
        BY <2>2, <4>2 DEF Implements, Auth!ANext
    <3>4. CASE n \notin Strict
      <4>1. Log' = Log
        BY <1>1, <3>2, <3>4, LogAppend
      <4>2. Auth!End(n)
        BY <1>1, <2>2, <4>1 DEF Auth!End
      <4> QED
        BY <2>2, <4>2 DEF Implements, Auth!ANext
    <3> QED
      BY <3>3, <3>4
  <2>4. CASE ~Verified(n, m)
    <3>1. UNCHANGED accepted
      BY <1>4, <2>4 DEF DataMessage, Accepts
    <3>2. Auth!End(n)
      BY <1>1, <2>2, <3>1, LogSame DEF Auth!End
    <3> QED
      BY <2>2, <3>2 DEF Implements, Auth!ANext
  <2> QED
    BY <2>3, <2>4
<1> QED
  BY <1>2, <1>3, <1>4

LEMMA ExpireImplements ==
  ASSUME AInv, NEW n \in Nodes, Expire(n)
  PROVE  Implements /\ SessionInv'
<1>1. /\ expired' = [expired EXCEPT ![n] = TRUE]
      /\ UNCHANGED <<verifying, ongoing, nonces, asker, accepted>>
  BY DEF Expire
<1>2. \A k \in Nodes : expired'[k] = IF k = n THEN TRUE ELSE expired[k]
  BY <1>1, Zenon DEF AInv, IInv, TypeOK
<1>3. ~Open(n)' /\ \A k \in Nodes \ {n} : Open(k)' = Open(k) /\ verifying'[k] = verifying[k]
  BY <1>1, <1>2, Zenon DEF Open
<1>4. Grown
  BY <1>1, SameGrown DEF AInv
<1>5. Sessions' = [Sessions EXCEPT ![n] = {}]
  BY <1>3, <1>4, SessionEnds
<1>6. Auth!End(n)
  BY <1>1, <1>5, LogSame DEF Auth!End
<1>7. SessionInv'
  BY <1>1 DEF AInv, SessionInv
<1> QED
  BY <1>6, <1>7 DEF Implements, Auth!ANext

LEMMA ProcessImplements ==
  ASSUME AInv, NEW m \in net, NEW left, left \subseteq net, Process(m.to, m, left)
  PROVE  Implements /\ SessionInv' /\ AskerInv'
<1>1. m.to \in Nodes /\ m.from \in Nodes
  BY DEF AInv, IInv, TypeOK, Message, Request, Response
<1>2. CASE NonceRequest(m.to, m, left)
  BY <1>1, <1>2, RequestImplements, RequestBound
<1>3. CASE NonceResponse(m.to, m, left)
  <2>1. CheckTimer(m.to) /\ UNCHANGED <<nonces, asker, accepted>>
    BY <1>3 DEF NonceResponse
  <2> QED
    BY <1>1, <1>3, <2>1, ResponseBound, CheckTimerSession, TimerStutters, LogSame
<1>4. CASE DataMessage(m.to, m, left)
  <2>1. Grown
    BY <1>4, SameGrown DEF DataMessage, AInv
  <2>2. CASE net' = left /\ UNCHANGED <<signer, given>>
    BY <1>1, <1>4, <2>1, <2>2, DataImplements, SameSigner DEF AInv, signer
  <2>3. CASE SendMessage(m.to, m.from, left)
    BY <1>1, <1>4, <2>1, <2>3, DataImplements, SendBound DEF AInv
  <2> QED
    BY <1>4, <2>2, <2>3 DEF DataMessage
<1> QED
  BY <1>2, <1>3, <1>4 DEF Process

LEMMA ReturnBound ==
  ASSUME AInv, NEW n \in Nodes, Return(n)
  PROVE  AskerInv'
<1>1. UNCHANGED <<msgSign, nonces, asker>> /\ net' \subseteq net \cup {msgSign[n]}
  BY DEF Return
<1>2. Grown
  BY <1>1, SameGrown DEF AInv
<1>3. \A x \in net' : Bound(x, asker', nonces')
  BY <1>1, <1>2, GrownLeft, GrownSigner DEF AInv
<1>4. \A k \in Nodes : msgSign'[k].from = k /\ Bound(msgSign'[k], asker', nonces')
  BY <1>1, <1>2, GrownSigner DEF AInv
<1> QED
  BY <1>3, <1>4 DEF AskerInv

LEMMA InitAuth == Init => AInv /\ Auth!AInit
<1> SUFFICES ASSUME Init PROVE AInv /\ Auth!AInit
  OBVIOUS
<1>1. AskerInv
  BY DEF Init, AskerInv, Data, Bound
<1>2. SessionInv
  BY Zenon DEF Init, SessionInv
<1>3. \A n \in Nodes : ~Open(n)
  BY Zenon DEF Init, Open
<1>4. Sessions = [n \in Nodes |-> {}]
  BY <1>3 DEF Sessions
<1>5. Log = [n \in Nodes |-> <<>>]
  BY DEF Log, Init
<1>6. nonces = 0
  BY DEF Init
<1> QED
  BY <1>1, <1>2, <1>4, <1>5, <1>6, InitInv DEF AInv, Auth!AInit

LEMMA NextAuth ==
  ASSUME AInv, [Next]_vars
  PROVE  AInv' /\ Implements
<1> DEFINE Kept == Implements /\ SessionInv' /\ AskerInv'
<1>1. ASSUME UNCHANGED <<verifier, nonces, asker, accepted>>, AskerInv'
      PROVE  Kept
  BY <1>1, StaysTheSame DEF AInv
<1>2. ASSUME UNCHANGED <<msgSign, verifier, nonces, asker, accepted>>, net' \subseteq net
      PROVE  Kept
  <2>1. Grown
    BY <1>2, SameGrown DEF AInv
  <2>2. AskerInv'
    BY <1>2, <2>1, SameSigner DEF AInv
  <2> QED
    BY <1>1, <1>2, <2>2
<1>3. ASSUME NEW n \in Nodes, Return(n) PROVE Kept
  BY <1>1, <1>3, ReturnBound DEF Return
<1>4. ASSUME NEW n \in Nodes, Late(n) PROVE Kept
  BY <1>2, <1>4 DEF Late
<1>5. ASSUME NEW n \in Nodes, Expire(n) PROVE Kept
  <2>1. Grown /\ UNCHANGED msgSign /\ net' \subseteq net
    BY <1>5, SameGrown DEF Expire, AInv, signer
  <2> QED
    BY <1>5, <2>1, ExpireImplements, SameSigner DEF AInv
<1>6. ASSUME NEW n \in Nodes, NEW to \in Nodes, Send(n, to) PROVE Kept
  <2>1. Grown
    BY <1>6, SameGrown DEF Send, AInv
  <2>2. AskerInv'
    BY <1>6, <2>1, SendBound DEF Send, AInv
  <2> QED
    BY <1>1, <1>6, <2>2 DEF Send
<1>7. ASSUME NEW m \in net, Deliver(m) \/ Repeat(m) PROVE Kept
  BY <1>7, ProcessImplements DEF Deliver, Repeat
<1>8. ASSUME NEW m \in net, Lose(m) PROVE Kept
  BY <1>2, <1>8 DEF Lose, signer
<1>9. ASSUME UNCHANGED vars PROVE Kept
  <2>1. UNCHANGED <<msgSign, verifier, nonces, asker, accepted>> /\ net' \subseteq net
    BY <1>9, Zenon DEF vars, verifier
  <2> QED
    BY <1>2, <2>1
<1>10. IInv'
  BY NextInv DEF AInv
<1> HIDE DEF Kept
<1>11. Kept
  BY <1>3, <1>4, <1>5, <1>6, <1>7, <1>8, <1>9, Zenon DEF Next
<1> QED
  BY <1>10, <1>11 DEF Kept, AInv

(* ImplementsOneTimeNonce: whoever asks a node for nonces, and whatever is *)
(* lost, repeated, late or out of order, what a node that requires         *)
(* signatures of all accepts is from the peer it issued its last nonce to, *)
(* signed with that nonce, in its time and once (core/MySigning.cpp:       *)
(* 485-538, core/MySigningAtsha204Soft.cpp:84-134, 186-204, 331).          *)
THEOREM OneTimeNonceCorrect == Spec => ImplementsOneTimeNonce
<1>1. Init => AInv /\ Auth!AInit
  BY InitAuth
<1>2. AInv /\ [Next]_vars => AInv' /\ [Auth!ANext]_Auth!avars
  BY NextAuth DEF Implements
<1> QED
  BY <1>1, <1>2, PTL DEF Spec, ImplementsOneTimeNonce, Auth!ASpec
=============================================================================
