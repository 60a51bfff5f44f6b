----------------------------- MODULE OtaDevice -----------------------------
(***************************************************************************)
(* The upgrade state machine of the device, app90_ota/src/ota_handler.c:   *)
(* one action per command handler.  A handler runs to completion in the    *)
(* main loop and ends by sending one response, so a handler is one step.   *)
(*                                                                         *)
(* Data.  The staging partition slot1 is an array of SlotSize cells, each  *)
(* holding one of a few byte values.  A CRC-32 is represented by the bytes *)
(* it has been computed over: only equality of CRCs matters to the code,   *)
(* and crc32_ieee_update(crc, data) is then concatenation.                 *)
(***************************************************************************)
EXTENDS Integers, Sequences

CONSTANTS
  SlotSize,    \* size of a firmware slot (ota_state.slot_size)
  MaxPayload,  \* longest firmware chunk a frame can carry
  U32,         \* 2^32: sizes and offsets are uint32_t
  Byte,        \* the byte values of a firmware image
  Erased,      \* what an erased flash cell reads (0xFF)
  Crcs         \* the CRCs a host may declare

ASSUME ConstantsAssumption ==
  /\ SlotSize \in Nat \ {0}
  /\ MaxPayload \in Nat \ {0}
  /\ U32 \in Nat
  /\ SlotSize + MaxPayload < U32
  /\ Erased \in Byte

VARIABLES
  status, error_code, in_progress, boot_flag,   \* as in ota_state_t
  received_size, current_offset,
  firmware_size, firmware_crc, calculated_crc,
  slot1,                                        \* content of the staging slot
  resp                                          \* the last response sent

transferVars == <<received_size, current_offset, calculated_crc>>
declaredVars == <<firmware_size, firmware_crc>>
deviceVars   == <<status, error_code, in_progress, boot_flag,
                  transferVars, declaredVars, slot1>>
vars         == <<deviceVars, resp>>

\* STATUS_ERASING exists only inside the start handler, between two frames no
\* query can see it.
Statuses == {"IDLE", "RECEIVING", "VERIFYING", "COMPLETE", "ERROR"}
Errors   == {"NONE", "FIRMWARE_SIZE", "FLASH_ERASE", "FLASH_WRITE",
             "CRC_MISMATCH", "OFFSET_ERROR"}
Commands == {"handshake", "get_dev_info", "start_upgrade", "transfer_data",
             "transfer_done", "verify_firmware", "reset_run",
             "cancel_upgrade", "query_status", "set_boot_flag", "get_log"}

Word == 0 .. U32 - 1
Add32(a, b) == (a + b) % U32

\* The data of a transfer_data frame: at most MaxPayload bytes.
Payload == UNION {[1 .. n -> Byte] : n \in 0 .. MaxPayload}

\* The first n cells of the slot, which is also the CRC over them.
Prefix(n) == [i \in 1 .. n |-> slot1[i]]

CrcUpdate(crc, data) == crc \o data

NoCrc == <<>>   \* the CRC of no bytes: 0

NoResponse == [cmd |-> "none", code |-> 0, len |-> 0]

\* The first byte of a response: a result, a status or a letter.
Codes == {0, 1, 2, 3, 4, 83, 255}

\* A response: its first byte and the length of its data.  0xFF is code 255;
\* the length of a refusal (4, 5 or 1 bytes of 0xFF) is what the host tests.
Reply(cmd, code, len) == resp' = [cmd |-> cmd, code |-> code, len |-> len]

-----------------------------------------------------------------------------
(* ota_handler_init: everything but the flash starts from nothing. *)

Init ==
  /\ status = "IDLE" /\ error_code = "NONE"
  /\ in_progress = FALSE /\ boot_flag = 0
  /\ received_size = 0 /\ current_offset = 0 /\ calculated_crc = NoCrc
  /\ firmware_size = 0 /\ firmware_crc = NoCrc
  /\ slot1 \in [1 .. SlotSize -> Byte]
  /\ resp = NoResponse

Reboot ==
  /\ status' = "IDLE" /\ error_code' = "NONE"
  /\ in_progress' = FALSE /\ boot_flag' = 0
  /\ received_size' = 0 /\ current_offset' = 0 /\ calculated_crc' = NoCrc
  /\ firmware_size' = 0 /\ firmware_crc' = NoCrc

-----------------------------------------------------------------------------
(* The flash.  An erase or a write that fails, or is cut by a power loss,  *)
(* has done the first k cells of its range.                                *)

FlashErase(k) ==
  slot1' = [i \in 1 .. SlotSize |-> IF i <= k THEN Erased ELSE slot1[i]]

FlashWrite(off, data, k) ==
  slot1' = [i \in 1 .. SlotSize |->
              IF i > off /\ i <= off + k THEN data[i - off] ELSE slot1[i]]

-----------------------------------------------------------------------------
(* Commands that only report: the first byte is the status, or the first   *)
(* letter of the model's name.                                             *)

StatusByte ==
  [IDLE |-> 0, RECEIVING |-> 2, VERIFYING |-> 3, COMPLETE |-> 4, ERROR |-> 255]

Handshake   == Reply("handshake", StatusByte[status], 3) /\ UNCHANGED deviceVars
GetDevInfo  == Reply("get_dev_info", 83, 34)             /\ UNCHANGED deviceVars
QueryStatus == Reply("query_status", StatusByte[status], 14) /\ UNCHANGED deviceVars

\* Any other command is refused; the one the host sends is get_log (0x0B).
UnknownCommand == Reply("get_log", 255, 4) /\ UNCHANGED deviceVars

(* A payload shorter than its command needs. *)
ShortPayload ==
  /\ \/ Reply("start_upgrade", 255, 4)
     \/ Reply("transfer_data", 255, 5)
     \/ Reply("set_boot_flag", 255, 1)
  /\ UNCHANGED deviceVars

StartUpgradeBusy ==
  /\ status \notin {"IDLE", "COMPLETE"}
  /\ Reply("start_upgrade", 255, 4)
  /\ UNCHANGED deviceVars

\* The declared size and CRC are stored before the size is tested.
StartUpgradeTooBig(size, crc) ==
  /\ status \in {"IDLE", "COMPLETE"}
  /\ size > SlotSize
  /\ firmware_size' = size /\ firmware_crc' = crc
  /\ error_code' = "FIRMWARE_SIZE"
  /\ Reply("start_upgrade", 255, 4)
  /\ UNCHANGED <<status, in_progress, boot_flag, transferVars, slot1>>

EraseLeavesStatus(size, crc) ==   \* variant: a failed erase leaves ERASING
  /\ status \in {"IDLE", "COMPLETE"} /\ size <= SlotSize
  /\ firmware_size' = size /\ firmware_crc' = crc
  /\ received_size' = 0 /\ current_offset' = 0 /\ calculated_crc' = NoCrc
  /\ in_progress' = FALSE /\ error_code' = "FLASH_ERASE"
  /\ \E k \in 0 .. SlotSize : FlashErase(k)
  /\ status' = "ERASING"
  /\ Reply("start_upgrade", 255, 4)
  /\ UNCHANGED boot_flag

EraseKeepsCount(size, crc) ==   \* variant: the counters are reset after the erase
  /\ status \in {"IDLE", "COMPLETE"} /\ size <= SlotSize
  /\ firmware_size' = size /\ firmware_crc' = crc
  /\ UNCHANGED <<boot_flag, error_code>>
  /\ \/ /\ FlashErase(SlotSize)
        /\ status' = "RECEIVING" /\ in_progress' = TRUE
        /\ received_size' = 0 /\ current_offset' = 0 /\ calculated_crc' = NoCrc
        /\ Reply("start_upgrade", 0, 4)
     \/ /\ \E k \in 0 .. SlotSize : FlashErase(k)
        /\ status' = "IDLE" /\ in_progress' = FALSE
        /\ Reply("start_upgrade", 255, 4)
        /\ UNCHANGED transferVars

EraseImageOnly(size, crc) ==   \* variant: only the declared size is erased
  /\ status \in {"IDLE", "COMPLETE"} /\ size <= SlotSize
  /\ firmware_size' = size /\ firmware_crc' = crc
  /\ received_size' = 0 /\ current_offset' = 0 /\ calculated_crc' = NoCrc
  /\ FlashErase(size)
  /\ status' = "RECEIVING" /\ in_progress' = TRUE
  /\ Reply("start_upgrade", 0, 4)
  /\ UNCHANGED <<boot_flag, error_code>>

StartUpgradeErase(size, crc) ==
  /\ status \in {"IDLE", "COMPLETE"}
  /\ size <= SlotSize
  /\ firmware_size' = size /\ firmware_crc' = crc
  /\ received_size' = 0 /\ current_offset' = 0 /\ calculated_crc' = NoCrc
  /\ UNCHANGED boot_flag
  /\ \/ /\ FlashErase(SlotSize)
        /\ status' = "RECEIVING" /\ in_progress' = TRUE
        /\ UNCHANGED error_code
        /\ Reply("start_upgrade", 0, 4)
     \/ /\ \E k \in 0 .. SlotSize : FlashErase(k)
        /\ status' = "IDLE" /\ in_progress' = FALSE
        /\ error_code' = "FLASH_ERASE"
        /\ Reply("start_upgrade", 255, 4)

StartUpgrade(size, crc) ==
  StartUpgradeBusy \/ StartUpgradeTooBig(size, crc) \/ StartUpgradeErase(size, crc)

TransferRefused ==
  /\ ~in_progress \/ status # "RECEIVING"
  /\ Reply("transfer_data", 255, 5)
  /\ UNCHANGED deviceVars

TransferFails(code, err) ==
  /\ status' = "ERROR" /\ error_code' = err
  /\ Reply("transfer_data", code, 5)
  /\ UNCHANGED <<in_progress, boot_flag, transferVars, declaredVars>>

TransferWrite(off, data) ==
  \/ /\ FlashWrite(off, data, Len(data))
     /\ calculated_crc' = CrcUpdate(calculated_crc, data)
     /\ current_offset' = Add32(current_offset, Len(data))
     /\ received_size' = Add32(received_size, Len(data))
     /\ Reply("transfer_data", 0, 5)
     /\ UNCHANGED <<status, error_code, in_progress, boot_flag, declaredVars>>
  \/ /\ \E k \in 0 .. Len(data) : FlashWrite(off, data, k)
     /\ TransferFails(255, "FLASH_WRITE")

AnyOffset(off, data) ==   \* variant: the offset is not compared
  /\ in_progress /\ status = "RECEIVING"
  /\ off + Len(data) <= firmware_size
  /\ TransferWrite(off, data)

AnyStatus(off, data) ==   \* variant: the status is not tested
  /\ in_progress
  /\ off = current_offset /\ off + Len(data) <= SlotSize
  /\ TransferWrite(off, data)

TransferAccepted(off, data) ==
  /\ in_progress /\ status = "RECEIVING"
  /\ \/ /\ off # current_offset
        /\ TransferFails(1, "OFFSET_ERROR") /\ UNCHANGED slot1
     \/ /\ off = current_offset
        /\ Add32(off, Len(data)) > firmware_size
        /\ TransferFails(255, "FIRMWARE_SIZE") /\ UNCHANGED slot1
     \/ /\ off = current_offset
        /\ Add32(off, Len(data)) <= firmware_size
        /\ TransferWrite(off, data)

TransferData(off, data) == TransferRefused \/ TransferAccepted(off, data)

DoneUnchecked(size, crc) ==   \* variant: the size is not compared
  /\ in_progress
  /\ firmware_size' = size /\ firmware_crc' = crc
  /\ status' = "COMPLETE"
  /\ Reply("transfer_done", 0, 5)
  /\ UNCHANGED <<error_code, in_progress, boot_flag, transferVars, slot1>>

\* No test of the status: any upgrade in progress can be declared done.
TransferDone(size, crc) ==
  \/ /\ ~in_progress
     /\ Reply("transfer_done", 255, 5)
     /\ UNCHANGED deviceVars
  \/ /\ in_progress /\ size # received_size
     /\ status' = "ERROR" /\ error_code' = "FIRMWARE_SIZE"
     /\ Reply("transfer_done", 255, 5)
     /\ UNCHANGED <<in_progress, boot_flag, transferVars, declaredVars, slot1>>
  \/ /\ in_progress /\ size = received_size
     /\ firmware_size' = size /\ firmware_crc' = crc
     /\ status' = "COMPLETE"
     /\ Reply("transfer_done", 0, 5)
     /\ UNCHANGED <<error_code, in_progress, boot_flag, transferVars, slot1>>

VerifyAnyTime ==   \* variant: the status is not tested
  /\ in_progress /\ firmware_size <= SlotSize
  /\ status' = "VERIFYING"
  /\ calculated_crc' = Prefix(firmware_size)
  /\ IF calculated_crc' = firmware_crc
       THEN Reply("verify_firmware", 0, 5) /\ UNCHANGED error_code
       ELSE Reply("verify_firmware", 1, 5) /\ error_code' = "CRC_MISMATCH"
  /\ UNCHANGED <<in_progress, boot_flag, received_size, current_offset,
                 declaredVars, slot1>>

\* The status stays VERIFYING whatever the CRC.  A read past the slot fails.
VerifyFirmware ==
  /\ UNCHANGED <<in_progress, boot_flag, received_size, current_offset,
                 declaredVars, slot1>>
  /\ \/ /\ status # "COMPLETE"
        /\ Reply("verify_firmware", 255, 5)
        /\ UNCHANGED <<status, error_code, calculated_crc>>
     \/ /\ status = "COMPLETE" /\ firmware_size > 0
        /\ status' = "ERROR" /\ error_code' = "FLASH_WRITE"
        /\ Reply("verify_firmware", 255, 5)
        /\ UNCHANGED calculated_crc
     \/ /\ status = "COMPLETE" /\ firmware_size <= SlotSize
        /\ status' = "VERIFYING"
        /\ calculated_crc' = Prefix(firmware_size)
        /\ IF calculated_crc' = firmware_crc
             THEN Reply("verify_firmware", 0, 5) /\ UNCHANGED error_code
             ELSE Reply("verify_firmware", 1, 5) /\ error_code' = "CRC_MISMATCH"

ResetRun ==
  \/ /\ status # "COMPLETE"
     /\ Reply("reset_run", 255, 1)
     /\ UNCHANGED deviceVars
  \/ /\ status = "COMPLETE"
     /\ Reply("reset_run", 0, 1)
     /\ Reboot
     /\ UNCHANGED slot1

CancelKeepsProgress ==   \* variant: in_progress is not reset
  /\ status' = "IDLE" /\ error_code' = "NONE"
  /\ received_size' = 0 /\ current_offset' = 0 /\ calculated_crc' = NoCrc
  /\ Reply("cancel_upgrade", 0, 1)
  /\ UNCHANGED <<in_progress, boot_flag, declaredVars, slot1>>

CancelUpgrade ==
  /\ status' = "IDLE" /\ error_code' = "NONE" /\ in_progress' = FALSE
  /\ received_size' = 0 /\ current_offset' = 0 /\ calculated_crc' = NoCrc
  /\ Reply("cancel_upgrade", 0, 1)
  /\ UNCHANGED <<boot_flag, declaredVars, slot1>>

SetBootFlag(flag) ==
  /\ \/ /\ flag = 1 /\ status = "COMPLETE"
        /\ boot_flag' = 1 /\ Reply("set_boot_flag", 0, 1)
     \/ /\ flag = 0
        /\ boot_flag' = 0 /\ Reply("set_boot_flag", 0, 1)
     \/ /\ flag # 0 /\ ~(flag = 1 /\ status = "COMPLETE")
        /\ UNCHANGED boot_flag /\ Reply("set_boot_flag", 255, 1)
  /\ UNCHANGED <<status, error_code, in_progress, transferVars, declaredVars, slot1>>

\* Power may fail between handlers, or inside an erase or a write.
EraseCutShort ==
  /\ status \in {"IDLE", "COMPLETE"}
  /\ \E k \in 0 .. SlotSize : FlashErase(k)

WriteCutShort(data) ==
  /\ status = "RECEIVING"
  /\ current_offset + Len(data) <= firmware_size
  /\ \E k \in 0 .. Len(data) : FlashWrite(current_offset, data, k)

PowerLoss ==
  /\ Reboot
  /\ resp' = NoResponse
  /\ \/ UNCHANGED slot1
     \/ EraseCutShort
     \/ \E data \in Payload : WriteCutShort(data)

Next ==
  \/ Handshake \/ GetDevInfo \/ QueryStatus \/ UnknownCommand \/ ShortPayload
  \/ \E size \in Word, crc \in Crcs : StartUpgrade(size, crc)
  \/ \E off \in Word, data \in Payload : TransferData(off, data)
  \/ \E size \in Word, crc \in Crcs : TransferDone(size, crc)
  \/ VerifyFirmware
  \/ ResetRun
  \/ CancelUpgrade
  \/ \E flag \in 0 .. 2 : SetBootFlag(flag)
  \/ PowerLoss

Spec == Init /\ [][Next]_vars

-----------------------------------------------------------------------------
(* Properties. *)

TypeOK ==
  /\ status \in Statuses /\ error_code \in Errors
  /\ in_progress \in BOOLEAN /\ boot_flag \in {0, 1}
  /\ received_size \in Word /\ current_offset \in Word
  /\ firmware_size \in Word /\ firmware_crc \in Crcs \cup {NoCrc}
  /\ calculated_crc \in Seq(Byte)
  /\ slot1 \in [1 .. SlotSize -> Byte]
  /\ resp \in [cmd : Commands \cup {"none"}, code : Codes, len : Nat]

\* transfer_done tests only in_progress: that is enough to refuse a "done"
\* out of the blue because the flag is up exactly when an upgrade is staged,
\* in every status other than IDLE, whichever way it was entered or left.
InProgressMatchesStatus == in_progress <=> status # "IDLE"

\* The bytes counted as received are in the slot, in order: the CRC kept while
\* receiving is the CRC of the slot's first received_size cells, through
\* errors, a refused second start, a repeated "done" and the verification.
SlotHoldsReceived ==
  in_progress => /\ received_size = current_offset
                 /\ received_size <= SlotSize
                 /\ calculated_crc = Prefix(received_size)

\* A chunk is only ever programmed into erased cells that fit the slot: while
\* receiving, everything behind current_offset is still as the erase left it,
\* so no failed write or aborted upgrade leaves debris a later write lands on.
ErasedAhead ==
  status = "RECEIVING" =>
    /\ received_size <= firmware_size /\ firmware_size <= SlotSize
    /\ \A i \in current_offset + 1 .. SlotSize : slot1[i] = Erased

\* A completed upgrade has the size it declared, except after a refused start
\* for an oversized image, which has overwritten the declaration.
CompleteSize ==
  status = "COMPLETE" => firmware_size = received_size \/ firmware_size > SlotSize

\* While "verify OK" is the last thing the device said, the slot holds exactly
\* the image whose size and CRC the host declared.
VerifiedIsStored ==
  (resp.cmd = "verify_firmware" /\ resp.code = 0) =>
    /\ status = "VERIFYING"
    /\ firmware_size = received_size
    /\ firmware_crc = Prefix(firmware_size)

\* Bytes acknowledged to the host stay in the slot until the device forgets
\* having received them: no handler, and no flash operation that fails half
\* way, takes away what the counter still claims.
AcknowledgedKept ==
  [][\/ \A i \in 1 .. received_size : slot1'[i] = slot1[i]
     \/ received_size' = 0]_vars
=============================================================================
