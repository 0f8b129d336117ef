------------------------ MODULE FirmwareUpdateProofs ------------------------
(***************************************************************************)
(* Proofs about FirmwareUpdate, for every set of firmwares, their sizes    *)
(* and the number of retries: its invariants, the refinement of Installer, *)
(* and that an update gets on.                                             *)
(***************************************************************************)
EXTENDS FirmwareUpdate, TLAPS

(* The end of an update is only reached with a whole image of the          *)
(* configured firmware in the flash, and goes through its writes in order. *)
EndInv ==
  /\ step # "run" => ~ongoing /\ Holds(flash, config)
  /\ step \in {"stored", "signed"} => eeprom = config
  /\ signature # None => step = "signed" /\ signature = config

(* Requests and retries left add up.                                       *)
CountInv == ongoing => asked + retry = Retry + 1

Inv == TypeOK /\ CountInv /\ EndInv /\ BlocksInOrder /\ RunsWholeFirmware

LEMMA InitInv == Init => Inv
<1> USE FirmwareAssumption, RetryAssumption
<1> SUFFICES ASSUME Init PROVE Inv
  OBVIOUS
<1>1. flash \in [Numbers -> Reply \cup {None}]
  BY DEF Init, Erased
<1>2. 0 \in 0 .. MaxBlocks /\ 0 \in 0 .. Retry + 1 /\ {} \subseteq Reply
  OBVIOUS
<1>3. TypeOK
  BY <1>1, <1>2 DEF Init, TypeOK
<1> QED
  BY <1>3 DEF Init, Inv, CountInv, EndInv, BlocksInOrder, RunsWholeFirmware

(* A block of the configured firmware is a block of the flash.             *)
LEMMA BlockNumbers ==
  ASSUME NEW f \in Firmwares
  PROVE  Blocks[f] \in 1 .. MaxBlocks /\ 0 .. Blocks[f] - 1 \subseteq Numbers
BY FirmwareAssumption DEF Numbers

(* What a reset does from any state of the invariant.                      *)
LEMMA RestartPreserves ==
  ASSUME Inv, Restart
  PROVE  Inv' /\ (program' # program => eeprom' = program')
<1> USE FirmwareAssumption, RetryAssumption
<1>1. program' \in {program, eeprom} /\ (program' # program => eeprom' = program')
  <2>1. CASE signature = None
    BY <2>1 DEF Restart
  <2>2. CASE signature # None
    <3>1. signature = eeprom /\ Holds(flash, signature)
      BY <2>2 DEF Inv, EndInv
    <3> QED
      BY <2>2, <3>1 DEF Restart
  <2> QED
    BY <2>1, <2>2
<1>2. TypeOK'
  <2>1. 0 \in 0 .. MaxBlocks /\ 0 \in 0 .. Retry + 1
    OBVIOUS
  <2> QED
    BY <1>1, <2>1 DEF Restart, Inv, TypeOK
<1>3. CountInv' /\ EndInv' /\ BlocksInOrder'
  BY DEF Restart, CountInv, EndInv, BlocksInOrder
<1>4. RunsWholeFirmware'
  BY <1>1 DEF Inv, TypeOK, RunsWholeFirmware
<1> QED
  BY <1>1, <1>2, <1>3, <1>4 DEF Inv

(* Saving a block: the last one ends the update, and if the CRC is right   *)
(* the flash holds the configured firmware.                                *)
LEMMA SavePreserves ==
  ASSUME Inv, NEW r \in replies, SaveBlock(r)
  PROVE  Inv'
<1> USE FirmwareAssumption, RetryAssumption DEF Inv
<1>1. /\ step = "run" /\ ongoing /\ block \in 1 .. Blocks[config]
      /\ block - 1 \in Numbers /\ config \in Firmwares
  BY BlockNumbers DEF SaveBlock, Expected, BlocksInOrder, TypeOK
<1>2. r \in Reply /\ \E f \in Firmwares : r = Data(f, block - 1)
  <2>1. r \in Reply /\ r.block = block - 1
    BY DEF SaveBlock, Expected, TypeOK
  <2> QED
    BY <2>1 DEF Reply, Data
<1>3. /\ flash' \in [Numbers -> Reply \cup {None}]
      /\ \E f \in Firmwares : flash'[block - 1] = Data(f, block - 1)
      /\ \A b \in Numbers \ {block - 1} : flash'[b] = flash[b]
  BY <1>1, <1>2 DEF SaveBlock, TypeOK
<1>4. block' = block - 1 /\ UNCHANGED <<config, eeprom, signature, program, replies>>
  BY DEF SaveBlock
<1>5. TypeOK' /\ CountInv'
  <2>1. /\ block' \in 0 .. MaxBlocks /\ retry' \in 0 .. Retry + 1
        /\ asked' \in 0 .. Retry + 1 /\ asked' + retry' = Retry + 1
    BY <1>1, <1>4, BlockNumbers DEF SaveBlock, ResetRetries
  <2> QED
    BY <1>1, <1>3, <1>4, <2>1 DEF SaveBlock, ResetRetries, TypeOK, CountInv
<1>6. signature = None
  BY <1>1 DEF EndInv
<1>7. EndInv'
  BY <1>1, <1>4, <1>6 DEF SaveBlock, CrcOk, EndInv
<1>8. BlocksInOrder'
  <2> SUFFICES ASSUME ongoing'
               PROVE  /\ block - 1 \in 1 .. Blocks[config]
                      /\ \A b \in block - 1 .. Blocks[config] - 1 :
                           \E f \in Firmwares : flash'[b] = Data(f, b)
    BY <1>4 DEF BlocksInOrder
  <2>1. block # 1
    BY DEF SaveBlock
  <2>2. Blocks[config] \in Nat /\ 0 .. Blocks[config] - 1 \subseteq Numbers
    BY <1>1, BlockNumbers
  <2>3. ASSUME NEW b \in block - 1 .. Blocks[config] - 1
        PROVE  \E f \in Firmwares : flash'[b] = Data(f, b)
    <3>1. CASE b = block - 1
      BY <1>3, <3>1
    <3>2. CASE b # block - 1
      <4>1. b \in block .. Blocks[config] - 1 /\ b \in Numbers \ {block - 1}
        BY <1>1, <2>2, <3>2
      <4> QED
        BY <1>1, <1>3, <4>1 DEF BlocksInOrder
    <3> QED
      BY <3>1, <3>2
  <2> QED
    BY <1>1, <2>1, <2>2, <2>3
<1> QED
  BY <1>4, <1>5, <1>7, <1>8 DEF RunsWholeFirmware

LEMMA StepPreserves ==
  ASSUME Inv, [Next]_vars
  PROVE  Inv' /\ (program' # program => eeprom' = program')
<1> USE FirmwareAssumption, RetryAssumption DEF Inv
<1>1. CASE GiveUp \/ Present
  BY <1>1 DEF GiveUp, Present, stored, TypeOK, CountInv, EndInv, BlocksInOrder,
              RunsWholeFirmware
<1>2. CASE RequestBlock
  <2>1. block - 1 \in Numbers /\ config \in Firmwares
    BY <1>2, BlockNumbers DEF RequestBlock, BlocksInOrder, TypeOK
  <2>2. replies' \subseteq Reply
    BY <1>2, <2>1 DEF RequestBlock, TypeOK, Reply, Data
  <2>3. /\ retry' \in 0 .. Retry + 1 /\ asked' \in 0 .. Retry + 1
        /\ asked' + retry' = Retry + 1
    BY <1>2 DEF RequestBlock, TypeOK, CountInv
  <2> QED
    BY <1>2, <2>2, <2>3 DEF RequestBlock, stored, TypeOK, CountInv, EndInv, BlocksInOrder,
                            RunsWholeFirmware
<1>3. ASSUME NEW f \in Firmwares, FlashFails(f)
      PROVE  Inv' /\ program' = program
  BY <1>3 DEF FlashFails, stored, TypeOK, CountInv, EndInv, BlocksInOrder, RunsWholeFirmware
<1>4. ASSUME NEW f \in Firmwares, StartUpdate(f)
      PROVE  Inv' /\ program' = program
  <2>1. flash' \in [Numbers -> Reply \cup {None}]
    BY <1>4 DEF StartUpdate, Erased
  <2>2. Blocks[f] \in 1 .. MaxBlocks
    BY BlockNumbers
  <2>3. TypeOK' /\ CountInv'
    <3>1. Retry + 1 \in 0 .. Retry + 1 /\ 0 \in 0 .. Retry + 1 /\ Blocks[f] \in 0 .. MaxBlocks
      BY <2>2
    <3> QED
      BY <1>4, <2>1, <3>1 DEF StartUpdate, ResetRetries, TypeOK, CountInv
  <2>4. EndInv' /\ BlocksInOrder'
    BY <1>4, <2>2 DEF StartUpdate, EndInv, BlocksInOrder
  <2> QED
    BY <1>4, <2>3, <2>4 DEF StartUpdate, RunsWholeFirmware
<1>5. ASSUME NEW r \in replies, SaveBlock(r)
      PROVE  Inv' /\ program' = program
  BY <1>5, SavePreserves DEF SaveBlock
<1>6. CASE StoreConfig \/ SignImage
  BY <1>6 DEF StoreConfig, SignImage, TypeOK, CountInv, EndInv, BlocksInOrder, RunsWholeFirmware,
              Holds
<1>7. CASE Restart
  BY <1>7, RestartPreserves
<1>8. ASSUME NEW r \in replies, Lose(r)
      PROVE  Inv' /\ program' = program
  BY <1>8 DEF Lose, ram, stored, TypeOK, CountInv, EndInv, BlocksInOrder, RunsWholeFirmware
<1>9. CASE DelayOver
  BY <1>9 DEF DelayOver, stored, TypeOK, CountInv, EndInv, BlocksInOrder,
              RunsWholeFirmware
<1>10. CASE UNCHANGED vars
  BY <1>10 DEF vars, TypeOK, CountInv, EndInv, BlocksInOrder, RunsWholeFirmware
<1>11. CASE Uplink
  BY <1>11 DEF Uplink, ram, stored, TypeOK, CountInv, EndInv, BlocksInOrder, RunsWholeFirmware
<1> QED
  BY <1>1, <1>2, <1>3, <1>4, <1>5, <1>6, <1>7, <1>8, <1>9, <1>10, <1>11
  DEF Next, firmwareOTAUpdateRequest, Offer, Finish, hwReboot, PowerFails

----------------------------------------------------------------------------
THEOREM Invariance == Spec => []Inv
<1>1. Inv /\ [Next]_vars => Inv'
  BY StepPreserves
<1> QED
  BY InitInv, <1>1, PTL DEF Spec

(* Counters, block numbers and replies keep their ranges.                  *)
THEOREM TypeCorrect == Spec => []TypeOK
<1>1. Inv => TypeOK
  BY DEF Inv
<1> QED
  BY Invariance, <1>1, PTL

(* No reply of another update and no loss of power ever leads to the       *)
(* installation of anything but a whole firmware                           *)
(* (MyOTAFirmwareUpdate.cpp:87-134).                                       *)
THEOREM ProgramCorrect == Spec => []RunsWholeFirmware
<1>1. Inv => RunsWholeFirmware
  BY DEF Inv
<1> QED
  BY Invariance, <1>1, PTL

(* The download leaves no block out (MyOTAFirmwareUpdate.cpp:96-107).      *)
THEOREM DownloadCorrect == Spec => []BlocksInOrder
<1>1. Inv => BlocksInOrder
  BY DEF Inv
<1> QED
  BY Invariance, <1>1, PTL

(* When a firmware is installed the node knows that it runs it: the        *)
(* configuration is stored before the image is signed (lines 120-127).     *)
(* The converse does not hold: what is stored may never be installed.      *)
InstalledIsStored == [][program' # program => eeprom' = program']_vars

(* A node that installs a firmware has its configuration in the EEPROM     *)
(* (MyOTAFirmwareUpdate.cpp:120-127).                                      *)
THEOREM InstalledCorrect == Spec => InstalledIsStored
<1>1. Inv /\ [Next]_vars => [program' # program => eeprom' = program']_vars
  BY StepPreserves
<1> QED
  BY Invariance, <1>1, PTL DEF Spec, InstalledIsStored

(* No node gives up a block it asked for fewer than MY_OTA_RETRY times     *)
(* (MyOTAFirmwareUpdate.cpp:44-51, 136).                                   *)
THEOREM RetriesCorrect == Spec => GivesUpLate
<1>1. Inv /\ [Next]_vars => [GiveUp => asked >= Retry]_vars
  <2> SUFFICES ASSUME Inv, GiveUp PROVE asked >= Retry
    OBVIOUS
  <2> QED
    BY RetryAssumption DEF Inv, CountInv, TypeOK, GiveUp
<1> QED
  BY Invariance, <1>1, PTL DEF Spec, GivesUpLate

-----------------------------------------------------------------------------
(* The installation.                                                       *)
LEMMA FlashSame == UNCHANGED flash => UNCHANGED Whole
BY DEF Whole, Holds

InstallStep == Install!ANext \/ UNCHANGED Install!avars

LEMMA StoredSame == UNCHANGED stored => InstallStep
<1>1. UNCHANGED stored => UNCHANGED <<program, eeprom, signature>> /\ UNCHANGED Whole
  BY FlashSame DEF stored
<1> QED
  BY <1>1 DEF InstallStep, Install!avars

LEMMA NextInstalls ==
  ASSUME Inv, [Next]_vars
  PROVE  InstallStep
<1>1. Whole' \subseteq Firmwares
  BY DEF Whole
<1>2. CASE GiveUp \/ Present \/ RequestBlock \/ DelayOver \/ Uplink
  BY <1>2, StoredSame DEF GiveUp, Present, RequestBlock, DelayOver, Uplink
<1>3. ASSUME NEW f \in Firmwares, FlashFails(f)
      PROVE  InstallStep
  BY <1>3, StoredSame DEF FlashFails
<1>4. ASSUME NEW f \in Firmwares, StartUpdate(f)
      PROVE  InstallStep
  <2>1. Install!Write
    BY <1>1, <1>4 DEF StartUpdate, Install!Write
  <2> QED
    BY <2>1 DEF InstallStep, Install!ANext
<1>5. ASSUME NEW r \in replies, SaveBlock(r)
      PROVE  InstallStep
  <2>1. Install!Write
    BY <1>1, <1>5 DEF SaveBlock, Inv, EndInv, Install!Write
  <2> QED
    BY <2>1 DEF InstallStep, Install!ANext
<1>6. CASE StoreConfig
  <2>1. config \in Whole /\ signature = None
    BY <1>6 DEF StoreConfig, Inv, EndInv, TypeOK, Whole
  <2>2. Install!Record
    BY <1>6, <2>1, FlashSame DEF StoreConfig, Install!Record
  <2> QED
    BY <2>2 DEF InstallStep, Install!ANext
<1>7. CASE SignImage
  <2>1. config \in Whole /\ eeprom = config
    BY <1>7 DEF SignImage, Inv, EndInv, TypeOK, Whole
  <2>2. Install!Sign
    BY <1>7, <2>1, FlashSame DEF SignImage, Install!Sign
  <2> QED
    BY <2>2 DEF InstallStep, Install!ANext
<1>8. CASE Restart
  <2>1. signature # None => Holds(flash, signature)
    BY DEF Inv, EndInv
  <2>2. Install!Boot
    BY <1>8, <2>1, FlashSame DEF Restart, Install!Boot
  <2> QED
    BY <2>2 DEF InstallStep, Install!ANext
<1>9. ASSUME NEW r \in replies, Lose(r)
      PROVE  InstallStep
  BY <1>9, StoredSame DEF Lose
<1>10. CASE UNCHANGED vars
  BY <1>10, StoredSame DEF vars, stored
<1> QED
  BY <1>2, <1>3, <1>4, <1>5, <1>6, <1>7, <1>8, <1>9, <1>10
  DEF Next, firmwareOTAUpdateRequest, Offer, Finish, hwReboot, PowerFails

(* ImplementsInstaller: whatever replies come, and wherever power fails,   *)
(* the writes of MyOTAFirmwareUpdate.cpp:87-134 and the boot loader        *)
(* record, sign and install whole firmwares only, and in this order.       *)
THEOREM InstallerCorrect == Spec => ImplementsInstaller
<1>1. Init => Install!AInit
  BY FirmwareAssumption DEF Init, Install!AInit, Whole
<1>2. Inv /\ [Next]_vars => [Install!ANext]_(Install!avars)
  BY NextInstalls DEF InstallStep
<1> QED
  BY Invariance, <1>1, <1>2, PTL DEF Spec, ImplementsInstaller, Install!ASpec

-----------------------------------------------------------------------------
(* An update that nothing new is offered to gets on with every step of the *)
(* node: it ends, or asks for a lower block, or for the same one with      *)
(* fewer retries left, or becomes ready to ask.                            *)
Closer == \/ block' < block
          \/ block' = block /\ retry' < retry
          \/ block' = block /\ retry' = retry /\ ~due /\ due'
UpdateAdvances ==
  [][/\ ongoing /\ ongoing' => Closer \/ UNCHANGED ram \/ \E f \in Firmwares : StartUpdate(f)
     /\ ~ongoing /\ ongoing' => \E f \in Firmwares : StartUpdate(f)]_vars

LEMMA StepAdvances ==
  ASSUME Inv, [Next]_vars
  PROVE  /\ ongoing /\ ongoing' => Closer \/ UNCHANGED ram \/ \E f \in Firmwares : StartUpdate(f)
         /\ ~ongoing /\ ongoing' => \E f \in Firmwares : StartUpdate(f)
<1> DEFINE Goal == /\ ongoing /\ ongoing' => Closer \/ UNCHANGED ram \/ \E f \in Firmwares : StartUpdate(f)
                   /\ ~ongoing /\ ongoing' => \E f \in Firmwares : StartUpdate(f)
<1>1. block \in Nat /\ retry \in Nat /\ ongoing \in BOOLEAN /\ due \in BOOLEAN
  BY DEF Inv, TypeOK
<1>2. CASE DelayOver
  BY <1>2 DEF DelayOver, Closer
<1>3. CASE RequestBlock
  BY <1>1, <1>3 DEF RequestBlock, Closer
<1>4. CASE GiveUp \/ Present \/ Restart \/ \E f \in Firmwares : FlashFails(f)
  BY <1>4 DEF GiveUp, Present, Restart, FlashFails
<1>5. ASSUME NEW r \in replies, SaveBlock(r)
      PROVE  Goal
  BY <1>1, <1>5 DEF SaveBlock, Expected, Closer
<1>6. CASE StoreConfig \/ SignImage
  <2>1. ~ongoing /\ ~ongoing'
    BY <1>6 DEF StoreConfig, SignImage, Inv, EndInv
  <2> QED
    BY <2>1
<1>7. CASE UNCHANGED ram
  BY <1>7 DEF ram
<1>8. CASE \E f \in Firmwares : StartUpdate(f)
  BY <1>8
<1>9. ASSUME NEW r \in replies, Lose(r)
      PROVE  UNCHANGED ram
  BY <1>9 DEF Lose
<1>10. Uplink \/ UNCHANGED vars => UNCHANGED ram
  BY DEF Uplink, vars, ram
<1> QED
  BY <1>2, <1>3, <1>4, <1>5, <1>6, <1>7, <1>8, <1>9, <1>10
  DEF Next, firmwareOTAUpdateRequest, Offer, Finish, hwReboot, PowerFails

(* UpdateAdvances: no reply, however late or often repeated, and no delay  *)
(* makes an update start again or stand still                              *)
(* (MyOTAFirmwareUpdate.cpp:38-60, 87-107): the steps of an update         *)
(* decrease block, retry and due in this order, which are naturals and a   *)
(* truth value, so that they are finitely many.  With the fairness of      *)
(* FairSpec that is why UpdateEnds holds.                                  *)
THEOREM AdvanceCorrect == Spec => UpdateAdvances
<1>1. Inv /\ [Next]_vars =>
        [/\ ongoing /\ ongoing' => Closer \/ UNCHANGED ram \/ \E f \in Firmwares : StartUpdate(f)
         /\ ~ongoing /\ ongoing' => \E f \in Firmwares : StartUpdate(f)]_vars
  BY StepAdvances
<1> QED
  BY Invariance, <1>1, PTL DEF Spec, UpdateAdvances
=============================================================================
