-------------------------- MODULE MCFirmwareUpdate --------------------------
(* Two chargers; the first may only have looked at the firmware page. *)
EXTENDS FirmwareUpdate
=============================================================================
