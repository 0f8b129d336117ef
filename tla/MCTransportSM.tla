--------------------------- MODULE MCTransportSM ---------------------------
(* TransportSM with small constants: the gateway (0), one or two other     *)
(* nodes, short counters, timeouts of one tick.                            *)
EXTENDS TransportSM

OneNeighbour  == {0, 7}
TwoNeighbours == {0, 7, 8}

=============================================================================
