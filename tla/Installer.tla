----------------------------- MODULE Installer -----------------------------
(***************************************************************************)
(* What the update and the boot loader promise together, with the image    *)
(* area between them, wherever power cuts the installation short: the      *)
(* order of its steps, not that it is done as a whole.  A firmware that is *)
(* recorded may never be signed, for power is lost between the two.        *)
(* A firmware is recorded only when the area holds the whole of it, signed *)
(* only when recorded, and installed only by a boot that finds its         *)
(* signature; whatever is written to the area withdraws the signature.     *)
(***************************************************************************)
CONSTANTS Firmwares,
          None       \* no signature

VARIABLES running,   \* the firmware the processor runs
          recorded,  \* the firmware the node takes itself to run after a boot
          area,      \* the firmwares of which the area holds every block
          signed     \* the firmware the next boot installs, or None

avars == <<running, recorded, area, signed>>

AInit == /\ running \in Firmwares /\ recorded = running
         /\ area \subseteq Firmwares /\ signed = None

Write == /\ signed' = None
         /\ area' \subseteq Firmwares
         /\ UNCHANGED <<running, recorded>>

Record == /\ signed = None
          /\ recorded' \in area
          /\ UNCHANGED <<running, area, signed>>

Sign == /\ recorded \in area
        /\ signed' = recorded
        /\ UNCHANGED <<running, recorded, area>>

Boot == /\ running' = IF signed = None THEN running ELSE signed
        /\ signed' = None
        /\ UNCHANGED <<recorded, area>>

ANext == Write \/ Record \/ Sign \/ Boot

ASpec == AInit /\ [][ANext]_avars
=============================================================================
