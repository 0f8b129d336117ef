------------------------- MODULE MCFirmwareUpdate -------------------------
(* FirmwareUpdate with three firmwares of one, two and three blocks.       *)
EXTENDS FirmwareUpdate

BlocksOf == <<1, 2, 3>>
=============================================================================
