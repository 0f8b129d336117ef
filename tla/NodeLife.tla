------------------------------ MODULE NodeLife ------------------------------
(***************************************************************************)
(* What the transport state machine of a node promises to its neighbours   *)
(* and to the layers above: the life of a node as its flags tell it.  A    *)
(* node is down; or it searches a parent, and takes a nearer one or the    *)
(* preferred one; or it is joining, with its parent chosen; or it is       *)
(* attached.  A parent chosen is kept until a new search, and an ID, once  *)
(* known, is kept for ever.                                                *)
(***************************************************************************)
EXTENDS Integers

CONSTANTS Neighbours,  \* nodes that may be the parent
          OwnIds,      \* IDs the node may get
          Distances,   \* hops to the gateway, NoDistance among them
          NoNode,      \* no parent, no ID
          NoDistance,
          FirstChoice, \* the parent that is preferred, or NoNode
          Static       \* the parent is that one and no other

VARIABLES phase, parent, id, distance

avars == <<phase, parent, id, distance>>

AInit == phase = "down" /\ parent = NoNode /\ id = NoNode /\ distance = NoDistance

KnowsId == id # NoNode
GetsId == ~KnowsId /\ id' \in OwnIds

(* A search begins with no candidate; a static parent needs none.          *)
Begins == IF Static THEN phase' = "joining" /\ parent' = FirstChoice /\ distance' = 1
                    ELSE phase' = "searching" /\ parent' = NoNode /\ distance' = NoDistance

(* The radio starts.  A configured ID is taken at the first start.         *)
Start == phase = "down" /\ Begins /\ (GetsId \/ UNCHANGED id)

(* A search without a candidate begins again, and so does a node whose way *)
(* to the gateway failed; an attached node stays with its static parent.   *)
SearchAgain == /\ \/ phase = "searching" /\ parent = NoNode
                  \/ phase = "joining"
                  \/ phase = "attached" /\ ~Static
               /\ Begins
               /\ UNCHANGED id

(* A better candidate; the preferred one is not displaced.                 *)
Choose == /\ phase = "searching"
          /\ parent = NoNode \/ parent # FirstChoice
          /\ parent' \in Neighbours /\ distance' \in Distances
          /\ parent' = FirstChoice \/ distance' < distance
          /\ UNCHANGED <<phase, id>>

Found == /\ phase = "searching" /\ parent # NoNode
         /\ phase' = "joining"
         /\ UNCHANGED <<parent, id, distance>>

LearnId == phase # "attached" /\ GetsId /\ UNCHANGED <<phase, parent, distance>>

Attach == /\ phase = "joining" /\ KnowsId
          /\ phase' = "attached"
          /\ distance' \in Distances \ {NoDistance}
          /\ UNCHANGED <<parent, id>>

(* A ping made for a child came back.                                      *)
Measure == /\ phase # "down"
           /\ distance' \in Distances \ {NoDistance}
           /\ UNCHANGED <<phase, parent, id>>

(* A failure, or a restart.                                                *)
Fail == /\ phase' = "down" /\ parent' = NoNode /\ distance' = NoDistance
        /\ UNCHANGED id

ANext == \/ Start \/ SearchAgain \/ Choose \/ Found \/ LearnId
         \/ Attach \/ Measure \/ Fail

ASpec == AInit /\ [][ANext]_avars
=============================================================================
