-------------------------- MODULE OtaDeviceStaging --------------------------
(* OtaDevice implements StagedImage: the image is what the slot holds of   *)
(* the upgrade in progress, and the phase follows from the status.         *)
EXTENDS OtaDevice

StagedPhase ==
  CASE status = "RECEIVING"                -> "growing"
    [] status \in {"COMPLETE", "VERIFYING"} -> "sealed"
    [] status = "ERROR"                    -> "broken"
    [] OTHER                               -> "none"

StagedBytes == IF in_progress THEN Prefix(received_size) ELSE <<>>

Staged == INSTANCE StagedImage
            WITH Chunks <- Payload, phase <- StagedPhase, image <- StagedBytes

\* Seen through the slot, the ten handlers, failing flash operations and power
\* losses do nothing that StagedImage does not allow: the image in the slot
\* grows only at its end, and after transfer_done it no longer changes.
StagedSpec == Staged!Spec
=============================================================================
