---------------------------- MODULE OneTimeNonce ----------------------------
(***************************************************************************)
(* What the verifying half of a signing backend promises to a node that    *)
(* requires signatures of all.  The node has at most one session: a nonce  *)
(* issued to one peer.  A new request replaces it, and it may end at any   *)
(* time.  What the node accepts comes from the peer of the session, is     *)
(* signed with the nonce of the session, and ends the session.             *)
(***************************************************************************)
EXTENDS Naturals, Sequences

CONSTANT Nodes

VARIABLES session,  \* per node, the set of its sessions
          issued,   \* how many nonces were issued
          log       \* per node, for each message accepted the session it ended

avars == <<session, issued, log>>

AInit == /\ session = [n \in Nodes |-> {}]
         /\ issued = 0
         /\ log = [n \in Nodes |-> <<>>]

Issue(n, p) == /\ issued' = issued + 1
               /\ session' = [session EXCEPT ![n] = {[nonce |-> issued', peer |-> p]}]
               /\ UNCHANGED log

End(n) == /\ session' = [session EXCEPT ![n] = {}]
          /\ UNCHANGED <<issued, log>>

Accept(n) == /\ \E s \in session[n] : log' = [log EXCEPT ![n] = Append(@, s)]
             /\ session' = [session EXCEPT ![n] = {}]
             /\ UNCHANGED issued

ANext == \E n \in Nodes : End(n) \/ Accept(n) \/ \E p \in Nodes : Issue(n, p)

ASpec == AInit /\ [][ANext]_avars
=============================================================================
