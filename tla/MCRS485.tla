------------------------------ MODULE MCRS485 ------------------------------
(* A node on a line where frames for it, for all and for others follow     *)
(* each other; addresses and data are control characters, and the data for *)
(* others is a header for this node when the byte after it is garbled.     *)
EXTENDS RS485

Traffic == {[to |-> 1, from |-> 3, data |-> <<7>>], [to |-> 255, from |-> 3, data |-> <<7>>],
            [to |-> 4, from |-> 3, data |-> <<1, 1, 3, 88, 5>>]}
=============================================================================
