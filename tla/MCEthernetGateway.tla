------------------------- MODULE MCEthernetGateway -------------------------
(* Two slots and three connections: one only listens, and may read too     *)
(* slowly; one sends more than fits the buffer, and may break off; one     *)
(* sends a command that fits.                                              *)
EXTENDS EthernetGateway

Typed == [c \in Conns |-> CASE c = 1 -> <<>>
                            [] c = 2 -> <<"x", "x", "x">>
                            [] c = 3 -> <<"x", "on">>]
=============================================================================
