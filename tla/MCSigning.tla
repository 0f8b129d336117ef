----------------------------- MODULE MCSigning -----------------------------
(* Two nodes that sign what they send to a gateway, which commands one of  *)
(* them without a signature; a node may answer while it waits for a nonce. *)
EXTENDS Signing
CONSTANTS gw, n1, n2

Required == {gw} \X {gw, n1, n2}
Pairs == {<<n1, gw>>, <<n2, gw>>, <<gw, n1>>}
=============================================================================
