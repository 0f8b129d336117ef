------------------------------ MODULE Signing ------------------------------
(***************************************************************************)
(* Nodes that sign what they send (core/MySigning.cpp with the software    *)
(* backend, core/MySigningAtsha204Soft.cpp).  To sign a message a node     *)
(* asks the destination for a nonce and, inside the call that sends the    *)
(* message, runs the main loop until the nonce is there or                 *)
(* MY_VERIFICATION_TIMEOUT_MS have passed.  The main loop handles any      *)
(* message; the sketch may answer one with a message that is to be signed  *)
(* too, in a call nested in the one that waits.  The destination keeps one *)
(* nonce, which a signed message must match.                               *)
(*                                                                         *)
(* A signature is the nonce it was made with.  Messages are lost,          *)
(* repeated, late and out of order.  Left out: the tables of who requires  *)
(* signatures of whom, whitelists and the node lock.  The tables are       *)
(* constant here: a node built with MY_SIGNING_REQUEST_SIGNATURES requires *)
(* them of all; a gateway so built, unless it has                          *)
(* MY_SIGNING_GW_REQUEST_SIGNATURES_FROM_ALL, of those that require them   *)
(* of it.                                                                  *)
(***************************************************************************)
EXTENDS Naturals, FiniteSets, Sequences, SequencesExt

CONSTANTS Nodes,
          Gateway,    \* GATEWAY_ADDRESS
          Requires,   \* <<n, s>>: n requires of s that it signs
          Talks,      \* who sends to whom, unasked
          NoNonce,    \* a purged nonce; no signature
          MaxCalls,   \* bound: messages the sketches send
          MaxNonces,  \* bound: nonces generated
          MaxFaults,  \* bound: messages lost or repeated
          MaxDepth    \* bound: calls of send in progress in a node

ASSUME NodesAssumption == /\ Requires \subseteq Nodes \X Nodes /\ Gateway \in Nodes
                          /\ \A t \in Talks : t \in Nodes \X Nodes /\ t[1] # t[2]
ASSUME BoundsAssumption == /\ MaxCalls \in Nat \ {0} /\ MaxNonces \in Nat /\ MaxFaults \in Nat /\ MaxDepth \in Nat
                           /\ NoNonce \notin Nat

VARIABLES msgSign,      \* _msgSign
          nonceStatus,  \* _signingNonceStatus
          calls,        \* calls of signerSignMsg in progress, the innermost last
          verifying,    \* _signing_verifying_nonce
          ongoing,      \* _signing_verification_ongoing
          expired,      \* the session is older than MY_VERIFICATION_TIMEOUT_MS
          net,          \* messages on their way
          given,        \* (history) number of messages the sketches sent
          nonces,       \* (history) number of nonces generated
          asker,        \* (history) who asked for each
          faults,       \* (history) messages lost or repeated
          accepted      \* (history) the messages each node accepted, in order

signer == <<msgSign, nonceStatus, calls>>
verifier == <<verifying, ongoing, expired>>
vars == <<msgSign, nonceStatus, calls, verifying, ongoing, expired, net,
          given, nonces, asker, faults, accepted>>

Nonce == 1 .. MaxNonces
Message == [kind : {"data"}, from : Nodes, to : Nodes, id : 1 .. MaxCalls, nonce : Nonce \cup {NoNonce}]
Request == [kind : {"request"}, from : Nodes, to : Nodes, id : 1 .. MaxCalls]
Response == [kind : {"response"}, from : Nodes, to : Nodes, nonce : Nonce]

(* A call: the message to sign; late, when more than the timeout passed;   *)
(* disturbed (history), when a call was nested in it.                      *)
Call == [msg : Message, late : BOOLEAN, disturbed : BOOLEAN]

Data(n, to, id) == [kind |-> "data", from |-> n, to |-> to, id |-> id, nonce |-> NoNonce]

----------------------------------------------------------------------------
(* transportSendWrite: a message for a node that requires it is signed     *)
(* first, for which the destination is asked for a nonce.           *)
Push(n, m) ==
  calls' = [calls EXCEPT ![n] = Append([i \in DOMAIN @ |-> [@[i] EXCEPT !.disturbed = TRUE]],
                                       [msg |-> m, late |-> FALSE, disturbed |-> FALSE])]

(* left: what of net is left.                                              *)
Waiting_StatusKept(n, m) == msgSign' = [msgSign EXCEPT ![n] = m] /\ UNCHANGED nonceStatus
Waiting(n, m) == /\ msgSign' = [msgSign EXCEPT ![n] = m]
                 /\ nonceStatus' = [nonceStatus EXCEPT ![n] = "waiting"]

SendMessage(n, to, left) ==
  LET m == Data(n, to, given + 1) IN
  /\ given < MaxCalls /\ given' = given + 1
  /\ IF <<to, n>> \in Requires
     THEN /\ Len(calls[n]) < MaxDepth
          /\ Push(n, m)
          /\ Waiting(n, m)
          /\ net' = left \cup {[kind |-> "request", from |-> n, to |-> to, id |-> m.id]}
     ELSE net' = left \cup {m} /\ UNCHANGED signer

(* The sketch sends.  A nonce request that cannot be transmitted, at which *)
(* the call gives up at once, counts as one that is lost.                  *)
Send(n, to) == /\ calls[n] = <<>> /\ <<n, to>> \in Talks
               /\ SendMessage(n, to, net)
               /\ UNCHANGED <<verifier, nonces, asker, faults, accepted>>

(* The end of signerSignMsg, when the loop ends: the message signed is     *)
(* transmitted, or the call fails.                                         *)
Ended_Patient(n) == nonceStatus[n] = "ok"
Ended(n) == Last(calls[n]).late \/ nonceStatus[n] = "ok"

Return(n) ==
  /\ calls[n] # <<>> /\ Ended(n)
  /\ net' = IF Last(calls[n]).late THEN net ELSE net \cup {msgSign[n]}
  /\ calls' = [calls EXCEPT ![n] = Front(@)]
  /\ UNCHANGED <<msgSign, nonceStatus, verifier, given, nonces, asker, faults, accepted>>

(* Time passes: the outer of two calls has waited longer.                  *)
Late(n) == \E i \in DOMAIN calls[n] :
             /\ ~calls[n][i].late /\ \A j \in 1 .. i - 1 : calls[n][j].late
             /\ calls' = [calls EXCEPT ![n][i].late = TRUE]
             /\ UNCHANGED <<msgSign, nonceStatus, verifier, net, given, nonces, asker, faults, accepted>>

Expire(n) == /\ ongoing[n] /\ ~expired[n]
             /\ expired' = [expired EXCEPT ![n] = TRUE]
             /\ UNCHANGED <<signer, verifying, ongoing, net, given, nonces, asker, faults, accepted>>

----------------------------------------------------------------------------
(* transportProcessMessage                                                 *)
(* signerCheckTimer: a session too old is ended, and its nonce purged.     *)
Open(n) == ongoing[n] /\ ~expired[n]
CheckTimer(n) == /\ ongoing' = [ongoing EXCEPT ![n] = Open(n)]
                 /\ verifying' = [verifying EXCEPT ![n] = IF ongoing[n] /\ ~Open(n) THEN NoNonce ELSE @]
                 /\ UNCHANGED expired

GetNonce_Closed(n, k) == /\ verifying' = [verifying EXCEPT ![n] = k]
                         /\ expired' = [expired EXCEPT ![n] = FALSE]
                         /\ UNCHANGED ongoing
GetNonce(n, k) == /\ verifying' = [verifying EXCEPT ![n] = k]
                  /\ ongoing' = [ongoing EXCEPT ![n] = TRUE]
                  /\ expired' = [expired EXCEPT ![n] = FALSE]

NonceRequest(n, m, left) ==
  /\ m.kind = "request"
  /\ nonces < MaxNonces /\ nonces' = nonces + 1
  /\ asker' = [asker EXCEPT ![nonces'] = m.from]
  /\ GetNonce(n, nonces')
  /\ net' = left \cup {[kind |-> "response", from |-> n, to |-> m.from, nonce |-> nonces']}
  /\ UNCHANGED <<signer, given, accepted>>

SignWith_Answer(n, m) == msgSign' = [msgSign EXCEPT ![n] = m]
SignWith(n, m) == msgSign' = [msgSign EXCEPT ![n].nonce = m.nonce]

NonceResponse(n, m, left) ==
  /\ m.kind = "response"
  /\ CheckTimer(n)
  /\ IF m.from = msgSign[n].to
     THEN /\ SignWith(n, m)
          /\ nonceStatus' = [nonceStatus EXCEPT ![n] = "ok"]
     ELSE UNCHANGED <<msgSign, nonceStatus>>
  /\ net' = left
  /\ UNCHANGED <<calls, given, nonces, asker, accepted>>

(* signerVerifyMsg: the first signed message ends the session.             *)
Verified_Late(n, m) == ongoing[n] /\ m.nonce = verifying[n]
Verified(n, m) == Open(n) /\ m.nonce = verifying[n]
Verify(n, m) ==
  IF m.nonce = NoNonce THEN CheckTimer(n)
  ELSE /\ ongoing' = [ongoing EXCEPT ![n] = FALSE]
       /\ verifying' = [verifying EXCEPT ![n] = IF ongoing[n] THEN NoNonce ELSE @]
       /\ UNCHANGED expired

Accepts(n, m) == <<n, m.from>> \in Requires => m.nonce # NoNonce /\ Verified(n, m)

(* The sketch may answer a message in its receive function.                *)
DataMessage(n, m, left) ==
  /\ m.kind = "data"
  /\ IF <<n, m.from>> \in Requires THEN Verify(n, m) ELSE CheckTimer(n)
  /\ accepted' = IF Accepts(n, m) THEN [accepted EXCEPT ![n] = Append(@, m)] ELSE accepted
  /\ \/ net' = left /\ UNCHANGED <<signer, given>>
     \/ Accepts(n, m) /\ SendMessage(n, m.from, left)
  /\ UNCHANGED <<nonces, asker>>

Process(n, m, left) ==
  NonceRequest(n, m, left) \/ NonceResponse(n, m, left) \/ DataMessage(n, m, left)

Fault == faults < MaxFaults /\ faults' = faults + 1

Deliver(m) == Process(m.to, m, net \ {m}) /\ UNCHANGED faults
Repeat(m) == Process(m.to, m, net) /\ Fault
Lose(m) == net' = net \ {m} /\ Fault /\ UNCHANGED <<signer, verifier, given, nonces, asker, accepted>>

----------------------------------------------------------------------------
Init == /\ msgSign = [n \in Nodes |-> Data(n, Gateway, 1)]
        /\ nonceStatus = [n \in Nodes |-> "waiting"]
        /\ calls = [n \in Nodes |-> <<>>]
        /\ verifying = [n \in Nodes |-> NoNonce]
        /\ ongoing = [n \in Nodes |-> FALSE]
        /\ expired = [n \in Nodes |-> FALSE]
        /\ net = {}
        /\ given = 0 /\ nonces = 0 /\ faults = 0
        /\ asker = [k \in Nonce |-> NoNonce]
        /\ accepted = [n \in Nodes |-> <<>>]

Next == \/ \E n \in Nodes : Return(n) \/ Late(n) \/ Expire(n) \/ \E to \in Nodes : Send(n, to)
        \/ \E m \in net : Deliver(m) \/ Repeat(m) \/ Lose(m)

Spec == Init /\ [][Next]_vars
(* A call ends with the nonce or, at the latest, with its time; messages   *)
(* not lost arrive.                                                        *)
FairSpec == Spec /\ WF_vars(\E m \in net : Deliver(m))
                 /\ \A n \in Nodes : WF_vars(Return(n) \/ Late(n))

----------------------------------------------------------------------------
TypeOK == /\ msgSign \in [Nodes -> Message]
          /\ nonceStatus \in [Nodes -> {"waiting", "ok"}]
          /\ calls \in [Nodes -> Seq(Call)]
          /\ verifying \in [Nodes -> Nonce \cup {NoNonce}]
          /\ ongoing \in [Nodes -> BOOLEAN] /\ expired \in [Nodes -> BOOLEAN]
          /\ net \subseteq Message \cup Request \cup Response
          /\ given \in 0 .. MaxCalls /\ nonces \in 0 .. MaxNonces /\ faults \in 0 .. MaxFaults
          /\ asker \in [Nonce -> Nodes \cup {NoNonce}]
          /\ accepted \in [Nodes -> Seq(Message)]

(* A node that requires signatures of all accepts a message only from the  *)
(* peer to which it issued its last nonce, in time, with that nonce and    *)
(* once, as OneTimeNonce says (MySigningAtsha204Soft.cpp:84-134, 186-204,  *)
(* 331).                                                                   *)
Strict == {n \in Nodes : \A s \in Nodes : <<n, s>> \in Requires}
Sessions == [n \in Nodes |-> IF Open(n) THEN {[nonce |-> verifying[n], peer |-> asker[verifying[n]]]}
                                        ELSE {}]
Log == [n \in Nodes |->
         IF n \in Strict
         THEN [i \in DOMAIN accepted[n] |-> [nonce |-> accepted[n][i].nonce, peer |-> accepted[n][i].from]]
         ELSE <<>>]
Auth == INSTANCE OneTimeNonce WITH session <- Sessions, issued <- nonces, log <- Log
ImplementsOneTimeNonce == Auth!ASpec

(* "process() received a nonce and signerProcessInternal successfully      *)
(* signed the message" (MySigning.cpp:219): signerSignMsg returns true     *)
(* with the message it was given, signed.                                  *)
Signed(n) == /\ calls'[n] # calls[n] /\ Len(calls'[n]) < Len(calls[n])
             /\ ~Last(calls[n]).late
IsGiven(n) == [msgSign[n] EXCEPT !.nonce = NoNonce] = Last(calls[n]).msg /\ msgSign[n].nonce # NoNonce
SignedIsGiven == [][\A n \in Nodes : Signed(n) => IsGiven(n)]_vars

(* That is so when no call was nested in the one that returns.             *)
UndisturbedIsGiven ==
  [][\A n \in Nodes : Signed(n) /\ ~Last(calls[n]).disturbed => IsGiven(n)]_vars

(* Every call of signerSignMsg returns, although calls nest.               *)
SignReturns == \A n \in Nodes : []<>(calls[n] = <<>>)

(* While nothing is lost, repeated or late and one message at a time is    *)
(* signed, every message given is accepted.                                *)
SignedInNet == {m \in net : m.kind = "data" /\ <<m.to, m.from>> \in Requires}
Underway == {c \in Nodes \X (1 .. MaxDepth) : c[2] <= Len(calls[c[1]])} \cup SignedInNet
Calm == /\ faults = 0 /\ Cardinality(Underway) <= 1
        /\ \A n \in Nodes : ~expired[n] /\ \A i \in DOMAIN calls[n] : ~calls[n][i].late
IsAccepted(id) == \E n \in Nodes : \E i \in DOMAIN accepted[n] : accepted[n][i].id = id
CalmIsAccepted == []Calm => \A id \in 1 .. MaxCalls : (given >= id) ~> IsAccepted(id)
=============================================================================
