--------------------------- MODULE FirmwareUpdate ---------------------------
(***************************************************************************)
(* The over-the-air firmware update of a node (MyOTAFirmwareUpdate.cpp):   *)
(* the controller offers a firmware, the node asks for its blocks from the *)
(* last one down, writes them to an external flash, checks the CRC of the  *)
(* image, stores the configuration in the EEPROM, signs the image and      *)
(* reboots; the boot loader installs a signed image.  Replies may be lost, *)
(* repeated, delayed and reordered, and power may fail at any step.        *)
(***************************************************************************)
EXTENDS Integers

CONSTANTS Firmwares,   \* the configurations (type, version, blocks, CRC) there are
          MaxBlocks,   \* blocks the flash area can hold
          Blocks,      \* how many blocks each of them has
          Factory,     \* the one the node starts its life with
          None,        \* an erased block of the flash, no signature
          Broken,      \* a program that is no whole firmware
          Retry        \* MY_OTA_RETRY

ASSUME FirmwareAssumption == /\ MaxBlocks \in Nat
                             /\ Blocks \in [Firmwares -> 1 .. MaxBlocks]
                             /\ Factory \in Firmwares
                             /\ None \notin Firmwares
                             /\ Broken \notin Firmwares
ASSUME RetryAssumption == Retry \in Nat

VARIABLES ready,       \* isTransportReady(): the node has its uplink
          config,      \* _nodeFirmwareConfig, in RAM
          ongoing,     \* _firmwareUpdateOngoing
          block,       \* _firmwareBlock: one more than the block asked for
          retry,       \* _firmwareRetry
          due,         \* more than MY_OTA_RETRY_DELAY since _firmwareLastRequest
          step,        \* how far the end of the update got: see Finish
          asked,       \* (history) requests sent since the last block was taken
          eeprom,      \* the configuration at EEPROM_FIRMWARE_TYPE_ADDRESS
          flash,       \* which block of which firmware each of its blocks holds
          signature,   \* the firmware the FLXIMG signature was written for
          program,     \* what the processor runs
          replies      \* blocks on their way to the node

ram == <<config, ongoing, block, retry, due, step, asked>>
stored == <<eeprom, flash, signature, program>>
vars == <<ready, config, ongoing, block, retry, due, step, asked,
          eeprom, flash, signature, program, replies>>

Numbers == 0 .. MaxBlocks - 1
Reply == [firmware : Firmwares, block : Numbers]
Data(f, b) == [firmware |-> f, block |-> b]
Erased == [b \in Numbers |-> None]

(* transportIsValidFirmware: the CRC over the blocks of the configured     *)
(* firmware.  Other blocks are taken to have another CRC.                  *)
Holds(image, f) == \A b \in 0 .. Blocks[f] - 1 : image[b] = Data(f, b)

Init == /\ ready = FALSE
        /\ config = Factory /\ ongoing = FALSE
        /\ block = 0 /\ retry = 0 /\ due = TRUE
        /\ step = "run" /\ asked = 0
        /\ eeprom = Factory /\ flash = Erased /\ signature = None
        /\ program = Factory
        /\ replies = {}

----------------------------------------------------------------------------
(* The uplink is found, or lost.                                           *)
Uplink == /\ step = "run"
          /\ ready' = ~ready
          /\ UNCHANGED <<ram, stored, replies>>

(* firmwareOTAUpdateRequest, called after each batch of messages, but only *)
(* while the transport is ready (MyTransport.cpp:960)                      *)
DelayOver == /\ ~due
             /\ due' = TRUE
             /\ UNCHANGED <<ready, config, ongoing, block, retry, step, asked, stored, replies>>

RequestBlock_Patient == /\ step = "run" /\ ready /\ ongoing /\ due /\ retry > 0
                        /\ due' = FALSE
                        /\ asked' = IF asked < Retry + 1 THEN asked + 1 ELSE asked
                        /\ replies' = replies \cup {Data(config, block - 1)}
                        /\ UNCHANGED <<ready, config, ongoing, block, retry, step, stored>>
RequestBlock_OneMore == /\ step = "run" /\ ready /\ ongoing /\ due /\ retry >= 0
                        /\ retry' = retry - 1
                        /\ due' = FALSE
                        /\ asked' = IF asked < Retry + 1 THEN asked + 1 ELSE asked
                        /\ UNCHANGED <<ready, config, ongoing, block, step, stored, replies>>
RequestBlock == /\ step = "run" /\ ready /\ ongoing /\ due /\ retry > 0
                /\ retry' = retry - 1
                /\ due' = FALSE
                /\ asked' = asked + 1
                /\ replies' = replies \cup {Data(config, block - 1)}
                /\ UNCHANGED <<ready, config, ongoing, block, step, stored>>

GiveUp == /\ step = "run" /\ ready /\ ongoing /\ due /\ retry = 0
          /\ ongoing' = FALSE
          /\ UNCHANGED <<ready, config, block, retry, due, step, asked, stored, replies>>

----------------------------------------------------------------------------
(* firmwareOTAUpdateProcess                                                *)
ResetRetries_Kept == UNCHANGED <<retry, due>>
ResetRetries == /\ retry' = Retry + 1
                /\ due' = TRUE

(* ST_FIRMWARE_CONFIG_RESPONSE: a configuration other than the one in RAM  *)
(* replaces it at once and starts the update, if the flash can be used.    *)
FlashFails(f) == /\ step = "run" /\ config # f
                 /\ config' = f
                 /\ ongoing' = FALSE
                 /\ UNCHANGED <<ready, block, retry, due, step, asked, stored, replies>>

StartUpdate(f) == /\ step = "run" /\ config # f
                  /\ config' = f
                  /\ flash' = Erased
                  /\ signature' = None
                  /\ block' = Blocks[f]
                  /\ ongoing' = TRUE
                  /\ ResetRetries
                  /\ asked' = 0
                  /\ UNCHANGED <<ready, step, eeprom, program, replies>>

(* ST_FIRMWARE_RESPONSE: only the number of the block is compared.         *)
Expected_Any(r) == ongoing
Expected(r) == ongoing /\ r.block = block - 1

CrcOk_Skipped(image) == TRUE
CrcOk(image) == Holds(image, config)

SaveBlock(r) == /\ step = "run" /\ Expected(r)
                /\ flash' = [flash EXCEPT ![block - 1] = r]
                /\ block' = block - 1
                /\ ongoing' = (block # 1)
                /\ step' = IF block = 1 /\ CrcOk(flash') THEN "valid" ELSE "run"
                /\ ResetRetries
                /\ asked' = 0
                /\ UNCHANGED <<ready, config, eeprom, signature, program, replies>>

(* The end of the same call, when the CRC is right: three writes in a row, *)
(* between which power may fail.                                           *)
StoreConfig_Forgotten == /\ step = "valid"
                    /\ step' = "stored"
                    /\ UNCHANGED <<ready, config, ongoing, block, retry, due, asked, stored, replies>>
StoreConfig == /\ step = "valid"
               /\ eeprom' = config
               /\ step' = "stored"
               /\ UNCHANGED <<ready, config, ongoing, block, retry, due, asked,
                              flash, signature, program, replies>>

SignImage == /\ step = "stored"
             /\ signature' = config
             /\ step' = "signed"
             /\ UNCHANGED <<ready, config, ongoing, block, retry, due, asked,
                            eeprom, flash, program, replies>>

----------------------------------------------------------------------------
(* presentBootloaderInformation: a presentation, which is made when the    *)
(* transport is ready for the first time and whenever the controller asks  *)
(* for one (MySensorsCore.cpp:210), ends an update.                        *)
Present == /\ step = "run" /\ ongoing
           /\ ongoing' = FALSE
           /\ UNCHANGED <<ready, config, block, retry, due, step, asked, stored, replies>>

(* A reset.  The boot loader installs the image that is signed and removes *)
(* the signature; readFirmwareSettings then reads the configuration.       *)
Restart == /\ program' = IF signature = None THEN program
                         ELSE IF Holds(flash, signature) THEN signature ELSE Broken
           /\ signature' = None
           /\ config' = eeprom
           /\ ongoing' = FALSE
           /\ block' = 0 /\ retry' = 0 /\ due' = TRUE
           /\ step' = "run" /\ asked' = 0
           /\ ready' = FALSE
           /\ UNCHANGED <<eeprom, flash, replies>>

hwReboot == step = "signed" /\ Restart
PowerFails == Restart

(* The radio network loses a reply, or delivers it and maybe again.        *)
Lose(r) == /\ replies' = replies \ {r}
           /\ UNCHANGED <<ready, ram, stored>>

----------------------------------------------------------------------------
firmwareOTAUpdateRequest == RequestBlock \/ GiveUp
Offer(f) == FlashFails(f) \/ StartUpdate(f)
Finish == StoreConfig \/ SignImage \/ hwReboot

Next == \/ Uplink
        \/ DelayOver
        \/ firmwareOTAUpdateRequest
        \/ \E f \in Firmwares : Offer(f)
        \/ \E r \in replies : SaveBlock(r)
        \/ Finish
        \/ Present
        \/ PowerFails
        \/ \E r \in replies : Lose(r)

Spec == Init /\ [][Next]_vars

(* Time passes, the main loop goes round and makes the request while the   *)
(* transport is ready, and the end of the update is straight-line code.    *)
(* Nothing is assumed of the uplink.                                       *)
FairSpec == /\ Spec
            /\ WF_vars(DelayOver)
            /\ WF_vars(firmwareOTAUpdateRequest)
            /\ WF_vars(Finish)

----------------------------------------------------------------------------
TypeOK == /\ ready \in BOOLEAN
          /\ config \in Firmwares /\ eeprom \in Firmwares
          /\ program \in Firmwares \cup {Broken}
          /\ signature \in Firmwares \cup {None}
          /\ ongoing \in BOOLEAN /\ due \in BOOLEAN
          /\ block \in 0 .. MaxBlocks
          /\ retry \in 0 .. Retry + 1 /\ asked \in 0 .. Retry + 1
          /\ step \in {"run", "valid", "stored", "signed"}
          /\ flash \in [Numbers -> Reply \cup {None}]
          /\ replies \subseteq Reply

(* Only a whole firmware whose CRC was checked is ever installed, although *)
(* replies of an earlier update are told from those of this one only by    *)
(* their number (line 96) and power may fail anywhere.                     *)
RunsWholeFirmware == program # Broken

(* The download skips no block and puts each where it belongs: all blocks  *)
(* above the one asked for have been written since the flash was erased,   *)
(* in their places, though maybe of another firmware (lines 96-107).       *)
BlocksInOrder == ongoing => /\ block \in 1 .. Blocks[config]
                            /\ \A b \in block .. Blocks[config] - 1 :
                                 \E f \in Firmwares : flash[b] = Data(f, b)

(* Only whole firmwares are recorded, signed and installed, in this order: *)
(* the image is whole before its configuration is stored, that before the  *)
(* signature is written, and what is installed is recorded and whole,      *)
(* wherever power fails (lines 87-134).  It is not all or nothing: power   *)
(* lost between the two writes (lines 121, 126) leaves a firmware recorded *)
(* that does not run, see SkippedIsInstalled.                              *)
Whole == {f \in Firmwares : Holds(flash, f)}
Install == INSTANCE Installer WITH
  running <- program, recorded <- eeprom, signed <- signature, area <- Whole
ImplementsInstaller == Install!ASpec

(* "Give up. We have requested MY_OTA_RETRY times without any packet in    *)
(* return." (line 47): whatever the earlier blocks cost, each block is     *)
(* asked for at least that often before the node gives up.                 *)
GivesUpLate == [][GiveUp => asked >= Retry]_vars

(* Once the uplink stays and no more firmware is offered, no update lasts  *)
(* for ever.  A node does not sleep during an update                       *)
(* (MySensorsCore.cpp:525); while the uplink is away the retries are not   *)
(* counted (MyTransport.cpp:960), and the update lasts.                    *)
UpdateEnds == <>[]ready /\ <>[][\A f \in Firmwares : ~Offer(f)]_vars => <>[]~ongoing

(* "FW update skipped, no newer version available"                         *)
(* (MyOTAFirmwareUpdate.h:41): an offer of the configuration in RAM is     *)
(* skipped; outside an update that should be the firmware the node runs.   *)
(* Not so after an update that failed, nor after power was lost between    *)
(* the writes of the configuration and of the signature.                   *)
SkippedIsInstalled == step = "run" /\ ~ongoing => config = program
=============================================================================
