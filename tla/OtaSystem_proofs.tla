-------------------------- MODULE OtaSystem_proofs --------------------------
(***************************************************************************)
(* Theorems about the upgrade, in three parts: about the device alone, for *)
(* every slot size, payload size, set of bytes and set of CRCs; about the  *)
(* PC tool and the device together, for any number of threads, any files,  *)
(* any number of retries, runs and presses; and about what the answer an   *)
(* engine takes, its "verified" and its "complete" are worth.              *)
(***************************************************************************)
EXTENDS OtaSystem, OtaDeviceStaging, SequenceTheorems, TLAPS

-----------------------------------------------------------------------------
(* The device. *)

\* Adding two sizes that stay below 2^32 does not wrap.
LEMMA Add32Exact ==
  ASSUME NEW x \in Nat, NEW y \in Nat, x + y < U32
  PROVE  Add32(x, y) = x + y
  BY ConstantsAssumption DEF Add32

LEMMA Add32Word ==
  ASSUME NEW x \in Nat, NEW y \in Nat
  PROVE  Add32(x, y) \in Word
<1>1. U32 \in Nat /\ U32 > 0
  BY ConstantsAssumption
<1>2. QED BY <1>1 DEF Add32, Word

\* A payload is a short sequence of bytes.
LEMMA PayloadFacts ==
  ASSUME NEW p \in Payload
  PROVE  /\ p \in Seq(Byte)
         /\ Len(p) \in Nat
         /\ Len(p) <= MaxPayload
         /\ \A i \in 1 .. Len(p) : p[i] \in Byte
<1>1. PICK n \in 0 .. MaxPayload : p \in [1 .. n -> Byte]
  BY DEF Payload
<1>2. n \in Nat /\ n <= MaxPayload
  BY <1>1, ConstantsAssumption
<1>3. p \in Seq(Byte) /\ Len(p) = n
  BY <1>1, <1>2
<1>4. QED BY <1>1, <1>2, <1>3

\* The first n cells of the slot, as a sequence of bytes.
LEMMA PrefixFacts ==
  ASSUME slot1 \in [1 .. SlotSize -> Byte], NEW n \in Nat, n <= SlotSize
  PROVE  Prefix(n) \in Seq(Byte) /\ Len(Prefix(n)) = n
<1>1. \A i \in 1 .. n : i \in 1 .. SlotSize
  BY ConstantsAssumption
<1>2. Prefix(n) \in [1 .. n -> Byte]
  BY <1>1 DEF Prefix
<1>3. QED BY <1>2

\* Neither flash operation changes the type of the slot's content.
LEMMA FlashEraseType ==
  ASSUME slot1 \in [1 .. SlotSize -> Byte], NEW k \in Nat, FlashErase(k)
  PROVE  slot1' \in [1 .. SlotSize -> Byte]
  BY ConstantsAssumption DEF FlashErase

LEMMA FlashWriteType ==
  ASSUME slot1 \in [1 .. SlotSize -> Byte], NEW p \in Payload,
         NEW off \in Nat, NEW k \in 0 .. Len(p), FlashWrite(off, p, k)
  PROVE  slot1' \in [1 .. SlotSize -> Byte]
<1>1. Len(p) \in Nat /\ \A i \in 1 .. Len(p) : p[i] \in Byte
  BY PayloadFacts
<1>2. \A i \in 1 .. SlotSize : i > off /\ i <= off + k => i - off \in 1 .. Len(p)
  BY <1>1, ConstantsAssumption
<1>3. QED BY <1>1, <1>2 DEF FlashWrite

-----------------------------------------------------------------------------
(* The inductive invariant: the named properties together.  None of them   *)
(* is inductive alone: SlotHoldsReceived after a verification needs        *)
(* CompleteSize, CompleteSize after a refused start needs nothing but the  *)
(* start's own test, and the next write needs ErasedAhead.                 *)

IInv ==
  /\ TypeOK
  /\ InProgressMatchesStatus
  /\ SlotHoldsReceived
  /\ ErasedAhead
  /\ CompleteSize
  /\ VerifiedIsStored

LEMMA InitIInv == Init => IInv
<1> SUFFICES ASSUME Init PROVE IInv
  OBVIOUS
<1>1. 0 \in Word /\ SlotSize \in Nat /\ NoCrc \in Seq(Byte)
  BY ConstantsAssumption DEF Word, NoCrc
<1>2. TypeOK
  BY <1>1 DEF Init, TypeOK, Statuses, Errors, Commands, Codes, NoResponse
<1>3. calculated_crc = Prefix(0)
  BY DEF Init, Prefix, NoCrc
<1>4. QED
  BY <1>1, <1>2, <1>3 DEF Init, IInv, InProgressMatchesStatus,
     SlotHoldsReceived, ErasedAhead, CompleteSize, VerifiedIsStored, NoResponse

-----------------------------------------------------------------------------
(* Type correctness: one step per handler. *)

LEMMA TypeStep == TypeOK /\ [Next]_vars => TypeOK'
<1> SUFFICES ASSUME TypeOK, [Next]_vars PROVE TypeOK'
  OBVIOUS
<1> USE DEF TypeOK, Statuses, Errors, Commands, Codes, Reply
<1>0. 0 \in Word /\ SlotSize \in Nat /\ NoCrc \in Seq(Byte)
  BY ConstantsAssumption DEF Word, NoCrc
<1>1. CASE Handshake \/ GetDevInfo \/ QueryStatus
  BY <1>1 DEF Handshake, GetDevInfo, QueryStatus, StatusByte,
              deviceVars, transferVars, declaredVars
<1>2. CASE UnknownCommand \/ ShortPayload
  BY <1>2 DEF UnknownCommand, ShortPayload, deviceVars, transferVars, declaredVars
<1>3. ASSUME NEW size \in Word, NEW crc \in Crcs, StartUpgrade(size, crc)
      PROVE  TypeOK'
  <2>1. CASE StartUpgradeBusy
    BY <2>1 DEF StartUpgradeBusy, deviceVars, transferVars, declaredVars
  <2>2. CASE StartUpgradeTooBig(size, crc)
    BY <2>2 DEF StartUpgradeTooBig, transferVars
  <2>3. CASE StartUpgradeErase(size, crc)
    <3>1. \E k \in 0 .. SlotSize : FlashErase(k)
      BY <1>0, <2>3 DEF StartUpgradeErase
    <3>2. slot1' \in [1 .. SlotSize -> Byte]
      BY <1>0, <3>1, FlashEraseType
    <3>3. resp' \in [cmd : Commands, code : {0, 255}, len : {4}]
      BY <2>3 DEF StartUpgradeErase
    <3>4. /\ status' \in {"RECEIVING", "IDLE"} /\ in_progress' \in BOOLEAN
          /\ error_code' \in {error_code, "FLASH_ERASE"}
          /\ received_size' = 0 /\ current_offset' = 0 /\ calculated_crc' = NoCrc
          /\ firmware_size' = size /\ firmware_crc' = crc /\ boot_flag' = boot_flag
      BY <2>3 DEF StartUpgradeErase
    <3>5. QED BY <1>0, <3>2, <3>3, <3>4
  <2>4. QED BY <1>3, <2>1, <2>2, <2>3 DEF StartUpgrade
<1>4. ASSUME NEW off \in Word, NEW data \in Payload, TransferData(off, data)
      PROVE  TypeOK'
  <2> USE DEF TransferFails, transferVars, declaredVars
  <2>1. CASE TransferRefused
    BY <2>1 DEF TransferRefused, deviceVars
  <2>2. ASSUME TransferWrite(off, data) PROVE TypeOK'
    <3>1. off \in Nat /\ received_size \in Nat /\ current_offset \in Nat
      BY DEF Word
    <3>2. data \in Seq(Byte) /\ Len(data) \in Nat
      BY PayloadFacts
    <3>3. \E k \in 0 .. Len(data) : FlashWrite(off, data, k)
      BY <2>2, <3>2 DEF TransferWrite
    <3>4. slot1' \in [1 .. SlotSize -> Byte]
      BY <3>1, <3>3, FlashWriteType
    <3>5. /\ Add32(received_size, Len(data)) \in Word
          /\ Add32(current_offset, Len(data)) \in Word
      BY <3>1, <3>2, Add32Word
    <3>6. CrcUpdate(calculated_crc, data) \in Seq(Byte)
      BY <3>2 DEF CrcUpdate
    <3>7. QED BY <2>2, <3>4, <3>5, <3>6 DEF TransferWrite
  <2>3. CASE TransferAccepted(off, data)
    <3>1. CASE UNCHANGED slot1 /\ \E err \in {"OFFSET_ERROR", "FIRMWARE_SIZE"} :
                 TransferFails(1, err) \/ TransferFails(255, err)
      BY <3>1
    <3>2. QED BY <2>2, <2>3, <3>1 DEF TransferAccepted
  <2>4. QED BY <1>4, <2>1, <2>3 DEF TransferData
<1>5. ASSUME NEW size \in Word, NEW crc \in Crcs, TransferDone(size, crc)
      PROVE  TypeOK'
  BY <1>5 DEF TransferDone, deviceVars, transferVars, declaredVars
<1>6. CASE VerifyFirmware
  <2>1. firmware_size <= SlotSize => Prefix(firmware_size) \in Seq(Byte)
    BY PrefixFacts DEF Word
  <2>2. resp' \in [cmd : {"verify_firmware"}, code : {0, 1, 255}, len : {5}]
    BY <1>6 DEF VerifyFirmware
  <2>3. /\ status' \in {status, "ERROR", "VERIFYING"}
        /\ error_code' \in {error_code, "FLASH_WRITE", "CRC_MISMATCH"}
        /\ calculated_crc' \in Seq(Byte)
        /\ UNCHANGED <<in_progress, boot_flag, received_size, current_offset, slot1>>
        /\ UNCHANGED declaredVars
    BY <1>6, <2>1 DEF VerifyFirmware
  <2>4. QED BY <2>2, <2>3 DEF declaredVars
<1>7. CASE ResetRun
  <2>1. resp' \in [cmd : Commands, code : {0, 255}, len : {1}]
    BY <1>7 DEF ResetRun
  <2>2. CASE UNCHANGED deviceVars
    BY <2>1, <2>2 DEF deviceVars, transferVars, declaredVars
  <2>3. CASE Reboot /\ UNCHANGED slot1
    <3>1. /\ status' = "IDLE" /\ error_code' = "NONE" /\ in_progress' = FALSE
          /\ boot_flag' = 0 /\ received_size' = 0 /\ current_offset' = 0
          /\ calculated_crc' = NoCrc /\ firmware_size' = 0 /\ firmware_crc' = NoCrc
          /\ slot1' \in [1 .. SlotSize -> Byte]
      BY <2>3 DEF Reboot
    <3>2. resp' \in [cmd : Commands \cup {"none"}, code : Codes, len : Nat]
      BY <2>1
    <3>3. QED BY <1>0, <3>1, <3>2
  <2>4. QED BY <1>7, <2>2, <2>3 DEF ResetRun
<1>8. CASE CancelUpgrade
  BY <1>0, <1>8 DEF CancelUpgrade, declaredVars
<1>9. ASSUME NEW flag \in 0 .. 2, SetBootFlag(flag) PROVE TypeOK'
  BY <1>9 DEF SetBootFlag, transferVars, declaredVars
<1>10. CASE PowerLoss
  <2>1. slot1' \in [1 .. SlotSize -> Byte]
    <3>1. CASE UNCHANGED slot1
      BY <3>1
    <3>2. CASE \E k \in 0 .. SlotSize : FlashErase(k)
      BY <1>0, <3>2, FlashEraseType
    <3>3. CASE \E data \in Payload : \E k \in 0 .. Len(data) :
                 FlashWrite(current_offset, data, k)
      BY <3>3, FlashWriteType DEF Word
    <3>4. QED BY <1>10, <3>1, <3>2, <3>3 DEF PowerLoss, EraseCutShort, WriteCutShort
  <2>2. QED BY <1>0, <1>10, <2>1 DEF PowerLoss, Reboot, NoResponse
<1>11. CASE UNCHANGED vars
  BY <1>11 DEF vars, deviceVars, transferVars, declaredVars
<1>12. QED
  BY <1>1, <1>2, <1>3, <1>4, <1>5, <1>6, <1>7, <1>8, <1>9, <1>10, <1>11 DEF Next

\* The device's state keeps its types: sizes and offsets stay 32-bit words, the
\* slot and the CRCs hold bytes, whatever frames arrive and whatever fails.
THEOREM TypeCorrect == Spec => []TypeOK
<1>1. Init => TypeOK
  BY InitIInv DEF IInv
<1>2. QED BY <1>1, TypeStep, PTL DEF Spec

-----------------------------------------------------------------------------
(* The safety invariants. *)

\* A sequence is the function of its elements.
LEMMA SeqAsFunction ==
  ASSUME NEW c \in Seq(Byte), NEW m, Len(c) = m
  PROVE  c = [i \in 1 .. m |-> c[i]]
  OBVIOUS

\* A write of data behind the received bytes extends the prefix by data and
\* leaves the cells behind it alone.
LEMMA WriteExtendsPrefix ==
  ASSUME TypeOK, NEW n \in Nat, NEW data \in Payload, n + Len(data) <= SlotSize,
         FlashWrite(n, data, Len(data))
  PROVE  /\ Prefix(n + Len(data))' = Prefix(n) \o data
         /\ \A i \in n + Len(data) + 1 .. SlotSize : slot1'[i] = slot1[i]
<1>1. Len(data) \in Nat /\ data \in Seq(Byte) /\ n <= SlotSize /\ SlotSize \in Nat
  BY PayloadFacts, ConstantsAssumption
<1>2. Prefix(n) \in Seq(Byte) /\ Len(Prefix(n)) = n
  BY <1>1, PrefixFacts DEF TypeOK
<1>3. ASSUME NEW P, P = Prefix(n)
      PROVE  /\ Len(P \o data) = n + Len(data) /\ P \o data \in Seq(Byte)
             /\ \A i \in 1 .. n + Len(data) :
                  (P \o data)[i] = IF i <= n THEN P[i] ELSE data[i - n]
  <2>1. P \in Seq(Byte) /\ Len(P) = n
    BY <1>2, <1>3
  <2>2. QED BY <1>1, <2>1, ConcatProperties, Zenon
<1>4. /\ Prefix(n) \o data \in Seq(Byte)
      /\ Len(Prefix(n) \o data) = n + Len(data)
      /\ \A i \in 1 .. n + Len(data) :
           (Prefix(n) \o data)[i] = IF i <= n THEN Prefix(n)[i] ELSE data[i - n]
  BY <1>3, Zenon
<1>5. Prefix(n) \o data = [i \in 1 .. n + Len(data) |-> (Prefix(n) \o data)[i]]
  BY <1>4, SeqAsFunction, Zenon
<1>6. \A i \in 1 .. n + Len(data) : slot1'[i] = (Prefix(n) \o data)[i]
  BY <1>1, <1>4 DEF FlashWrite, Prefix
<1>7. Prefix(n + Len(data))' = [i \in 1 .. n + Len(data) |-> slot1'[i]]
  BY DEF Prefix
<1>8. Prefix(n + Len(data))' = Prefix(n) \o data
  BY <1>5, <1>6, <1>7
<1>9. \A i \in n + Len(data) + 1 .. SlotSize : slot1'[i] = slot1[i]
  BY <1>1 DEF FlashWrite
<1>10. QED BY <1>8, <1>9

\* A write that stops early leaves the cells before it alone.
LEMMA WriteKeepsPrefix ==
  ASSUME TypeOK, NEW n \in Nat, n <= SlotSize, NEW data, NEW k \in Nat,
         FlashWrite(n, data, k)
  PROVE  Prefix(n)' = Prefix(n) /\ \A i \in 1 .. n : slot1'[i] = slot1[i]
<1>1. ASSUME NEW i \in 1 .. n PROVE slot1'[i] = slot1[i]
  <2>1. i \in 1 .. SlotSize /\ ~(i > n)
    BY ConstantsAssumption
  <2>2. QED BY <2>1 DEF FlashWrite
<1>2. Prefix(n)' = [i \in 1 .. n |-> slot1'[i]]
  BY DEF Prefix
<1>3. QED BY <1>1, <1>2 DEF Prefix

\* A step that leaves the slot and the upgrade's bookkeeping alone.
LEMMA Idle ==
  ASSUME IInv, TypeOK', UNCHANGED deviceVars,
         resp'.cmd # "verify_firmware" \/ resp'.code # 0 \/ resp' = resp
  PROVE  IInv'
  BY DEF IInv, InProgressMatchesStatus, SlotHoldsReceived, ErasedAhead,
         CompleteSize, VerifiedIsStored, Prefix,
         deviceVars, transferVars, declaredVars

\* A boot, and every step into IDLE, leaves nothing to hold.
LEMMA IntoIdle ==
  ASSUME TypeOK', status' = "IDLE", in_progress' = FALSE, resp'.cmd # "verify_firmware"
  PROVE  IInv'
  BY DEF IInv, InProgressMatchesStatus, SlotHoldsReceived, ErasedAhead,
         CompleteSize, VerifiedIsStored

\* A step into ERROR keeps the received bytes in place.
LEMMA IntoError ==
  ASSUME IInv, TypeOK', in_progress, status' = "ERROR", UNCHANGED <<in_progress, transferVars>>,
         Prefix(received_size)' = Prefix(received_size), resp'.code # 0
  PROVE  IInv'
  BY DEF IInv, InProgressMatchesStatus, SlotHoldsReceived, ErasedAhead,
         CompleteSize, VerifiedIsStored, transferVars

LEMMA StartStep ==
  ASSUME IInv, TypeOK', NEW size \in Word, NEW crc \in Crcs, StartUpgrade(size, crc)
  PROVE  IInv'
<1> USE DEF Reply
<1>1. CASE StartUpgradeBusy
  BY <1>1, Idle DEF StartUpgradeBusy
<1>2. CASE StartUpgradeTooBig(size, crc)
  <2>1. /\ status' = status /\ status \in {"IDLE", "COMPLETE"}
        /\ resp'.cmd = "start_upgrade" /\ firmware_size' > SlotSize
        /\ UNCHANGED <<in_progress, transferVars, slot1>>
    BY <1>2 DEF StartUpgradeTooBig
  <2>2. InProgressMatchesStatus' /\ ErasedAhead' /\ CompleteSize' /\ VerifiedIsStored'
    BY <2>1 DEF IInv, InProgressMatchesStatus, ErasedAhead, CompleteSize, VerifiedIsStored
  <2>3. SlotHoldsReceived'
    BY <2>1 DEF IInv, SlotHoldsReceived, transferVars, Prefix
  <2>4. QED BY <2>2, <2>3 DEF IInv
<1>3. CASE StartUpgradeErase(size, crc)
  <2>1. CASE status' = "IDLE" /\ in_progress' = FALSE
    <3>1. resp'.cmd = "start_upgrade"
      BY <1>3 DEF StartUpgradeErase
    <3>2. QED BY <2>1, <3>1, IntoIdle
  <2>2. CASE FlashErase(SlotSize) /\ status' = "RECEIVING" /\ in_progress' = TRUE
    <3>1. /\ received_size' = 0 /\ current_offset' = 0 /\ calculated_crc' = NoCrc
          /\ firmware_size' = size /\ size <= SlotSize /\ resp'.cmd = "start_upgrade"
      BY <1>3 DEF StartUpgradeErase
    <3>2. InProgressMatchesStatus' /\ CompleteSize' /\ VerifiedIsStored'
      BY <2>2, <3>1 DEF InProgressMatchesStatus, CompleteSize, VerifiedIsStored
    <3>3. SlotHoldsReceived'
      <4>1. Prefix(received_size)' = NoCrc
        BY <3>1 DEF Prefix, NoCrc
      <4>2. QED BY <3>1, <4>1, ConstantsAssumption DEF SlotHoldsReceived
    <3>4. ErasedAhead'
      BY <2>2, <3>1, ConstantsAssumption DEF ErasedAhead, FlashErase, Word
    <3>5. QED BY <3>2, <3>3, <3>4 DEF IInv
  <2>3. QED BY <1>3, <2>1, <2>2 DEF StartUpgradeErase
<1>4. QED BY <1>1, <1>2, <1>3 DEF StartUpgrade

LEMMA TransferStep ==
  ASSUME IInv, TypeOK', NEW off \in Word, NEW data \in Payload, TransferData(off, data)
  PROVE  IInv'
<1> USE DEF Reply
<1>1. CASE TransferRefused
  BY <1>1, Idle DEF TransferRefused
<1>2. CASE TransferAccepted(off, data)
  <2> DEFINE n == received_size
  <2>1. /\ in_progress /\ status = "RECEIVING" /\ TypeOK
        /\ n \in Nat /\ n = current_offset /\ calculated_crc = Prefix(n)
        /\ n <= firmware_size /\ firmware_size <= SlotSize /\ firmware_size \in Nat
        /\ \A i \in n + 1 .. SlotSize : slot1[i] = Erased
    BY <1>2 DEF TransferAccepted, IInv, SlotHoldsReceived, ErasedAhead, TypeOK, Word
  <2>2. Len(data) \in Nat /\ Len(data) <= MaxPayload
    BY PayloadFacts
  <2>3. Add32(n, Len(data)) = n + Len(data)
    <3>1. n + Len(data) < U32
      BY <2>1, <2>2, ConstantsAssumption
    <3>2. QED BY <2>1, <2>2, <3>1, Add32Exact
  <2>4. ASSUME NEW code \in {1, 255}, NEW err, TransferFails(code, err),
               Prefix(n)' = Prefix(n)
        PROVE  IInv'
    BY <2>1, <2>4, IntoError DEF TransferFails, transferVars
  <2>5. CASE UNCHANGED slot1 /\ \E err \in {"OFFSET_ERROR", "FIRMWARE_SIZE"} :
               TransferFails(1, err) \/ TransferFails(255, err)
    <3>1. Prefix(n)' = Prefix(n)
      BY <2>5 DEF Prefix, TransferFails, transferVars
    <3>2. QED BY <2>4, <2>5, <3>1
  <2>6. CASE off = n /\ Add32(off, Len(data)) <= firmware_size /\ TransferWrite(off, data)
    <3>1. CASE \E k \in 0 .. Len(data) : FlashWrite(off, data, k) /\ TransferFails(255, "FLASH_WRITE")
      <4>1. PICK k \in 0 .. Len(data) : FlashWrite(n, data, k)
        BY <2>6, <3>1
      <4>2. n' = n
        BY <3>1 DEF TransferFails, transferVars
      <4>3. n <= SlotSize /\ k \in Nat
        BY <2>1, <2>2, ConstantsAssumption
      <4>4. [i \in 1 .. n |-> slot1'[i]] = Prefix(n)
        BY <2>1, <4>1, <4>3, WriteKeepsPrefix DEF Prefix
      <4>5. Prefix(n)' = Prefix(n)
        BY <4>2, <4>4 DEF Prefix
      <4>6. QED BY <2>4, <3>1, <4>5
    <3>2. CASE /\ FlashWrite(off, data, Len(data))
               /\ calculated_crc' = CrcUpdate(calculated_crc, data)
               /\ current_offset' = Add32(current_offset, Len(data))
               /\ received_size' = Add32(received_size, Len(data))
               /\ resp' = [cmd |-> "transfer_data", code |-> 0, len |-> 5]
               /\ UNCHANGED <<status, error_code, in_progress, boot_flag, declaredVars>>
      <4>1. /\ received_size' = n + Len(data) /\ current_offset' = n + Len(data)
            /\ n + Len(data) <= firmware_size /\ firmware_size' = firmware_size
            /\ n + Len(data) <= SlotSize
        BY <2>1, <2>2, <2>3, <2>6, <3>2, ConstantsAssumption DEF declaredVars
      <4>2. /\ [i \in 1 .. n + Len(data) |-> slot1'[i]] = Prefix(n) \o data
            /\ \A i \in n + Len(data) + 1 .. SlotSize : slot1'[i] = slot1[i]
        BY <2>1, <2>6, <3>2, <4>1, WriteExtendsPrefix DEF Prefix
      <4>3. SlotHoldsReceived'
        BY <2>1, <3>2, <4>1, <4>2 DEF SlotHoldsReceived, Prefix, CrcUpdate
      <4>4. ErasedAhead'
        BY <2>1, <2>2, <4>1, <4>2, ConstantsAssumption DEF ErasedAhead
      <4>5. InProgressMatchesStatus' /\ CompleteSize' /\ VerifiedIsStored'
        BY <2>1, <3>2 DEF InProgressMatchesStatus, CompleteSize, VerifiedIsStored
      <4>6. QED BY <4>3, <4>4, <4>5 DEF IInv
    <3>3. QED BY <2>6, <3>1, <3>2 DEF TransferWrite
  <2>7. QED BY <1>2, <2>1, <2>5, <2>6 DEF TransferAccepted
<1>3. QED BY <1>1, <1>2 DEF TransferData

LEMMA DoneStep ==
  ASSUME IInv, TypeOK', NEW size \in Word, NEW crc \in Crcs, TransferDone(size, crc)
  PROVE  IInv'
<1> USE DEF Reply
<1>1. CASE ~in_progress
  BY <1>1, Idle DEF TransferDone
<1>2. CASE in_progress /\ size # received_size
  <2>0. /\ status' = "ERROR" /\ resp' = [cmd |-> "transfer_done", code |-> 255, len |-> 5]
        /\ UNCHANGED <<in_progress, boot_flag, transferVars, declaredVars, slot1>>
    BY <1>2, Zenon DEF TransferDone
  <2>1. /\ status' = "ERROR" /\ resp'.code = 255
        /\ in_progress' = in_progress /\ slot1' = slot1
        /\ received_size' = received_size /\ transferVars' = transferVars
    BY <2>0 DEF transferVars
  <2>2. Prefix(received_size)' = Prefix(received_size)
    BY <2>1 DEF Prefix
  <2>3. QED BY <1>1, <1>2, <2>1, <2>2, IntoError
<1>3. CASE in_progress /\ size = received_size
  <2>1. /\ firmware_size' = received_size /\ status' = "COMPLETE"
        /\ resp'.cmd = "transfer_done"
        /\ UNCHANGED <<in_progress, received_size, current_offset, calculated_crc, slot1>>
    BY <1>3 DEF TransferDone, transferVars
  <2>2. InProgressMatchesStatus' /\ ErasedAhead' /\ CompleteSize' /\ VerifiedIsStored'
    BY <1>3, <2>1 DEF InProgressMatchesStatus, ErasedAhead, CompleteSize, VerifiedIsStored
  <2>3. SlotHoldsReceived'
    BY <2>1 DEF IInv, SlotHoldsReceived, Prefix
  <2>4. QED BY <2>2, <2>3 DEF IInv
<1>4. QED BY <1>1, <1>2, <1>3 DEF TransferDone

LEMMA VerifyStep ==
  ASSUME IInv, TypeOK', VerifyFirmware
  PROVE  IInv'
<1> USE DEF Reply
<1>1. CASE status # "COMPLETE"
  <2>1. UNCHANGED deviceVars /\ resp'.code = 255
    BY <1>1 DEF VerifyFirmware, deviceVars, transferVars
  <2>2. QED BY <2>1, Idle
<1>2. CASE status = "COMPLETE" /\ status' = "ERROR"
  <2>1. in_progress
    BY <1>2 DEF IInv, InProgressMatchesStatus
  <2>2. Prefix(received_size)' = Prefix(received_size)
    BY DEF VerifyFirmware, Prefix
  <2>3. resp'.code = 255 /\ UNCHANGED <<in_progress, transferVars>>
    BY <1>2 DEF VerifyFirmware, transferVars
  <2>4. QED BY <1>2, <2>1, <2>2, <2>3, IntoError
<1>3. CASE status = "COMPLETE" /\ status' = "VERIFYING"
  <2>1. /\ firmware_size <= SlotSize
        /\ calculated_crc' = Prefix(firmware_size)
        /\ resp'.code = 0 => calculated_crc' = firmware_crc
        /\ UNCHANGED <<in_progress, received_size, current_offset, declaredVars, slot1>>
    BY <1>3 DEF VerifyFirmware
  <2>2. /\ in_progress /\ firmware_size = received_size
    BY <1>3, <2>1, ConstantsAssumption
       DEF IInv, InProgressMatchesStatus, CompleteSize, TypeOK, Word
  <2>3. Prefix(received_size)' = Prefix(firmware_size) /\ Prefix(firmware_size)' = Prefix(firmware_size)
    BY <2>1, <2>2 DEF Prefix, declaredVars
  <2>4. SlotHoldsReceived'
    BY <2>1, <2>2, <2>3 DEF IInv, SlotHoldsReceived
  <2>5. VerifiedIsStored'
    BY <1>3, <2>1, <2>2, <2>3 DEF VerifiedIsStored, declaredVars
  <2>6. InProgressMatchesStatus' /\ ErasedAhead' /\ CompleteSize'
    BY <1>3, <2>1, <2>2 DEF InProgressMatchesStatus, ErasedAhead, CompleteSize
  <2>7. QED BY <2>4, <2>5, <2>6 DEF IInv
<1>4. QED BY <1>1, <1>2, <1>3 DEF VerifyFirmware

LEMMA IInvStep == IInv /\ [Next]_vars => IInv'
<1> SUFFICES ASSUME IInv, [Next]_vars PROVE IInv'
  OBVIOUS
<1> USE DEF Reply
<1>1. TypeOK'
  BY TypeStep DEF IInv
<1>2. CASE Handshake \/ GetDevInfo \/ QueryStatus
  BY <1>1, <1>2, Idle DEF Handshake, GetDevInfo, QueryStatus
<1>3. CASE UnknownCommand \/ ShortPayload
  BY <1>1, <1>3, Idle DEF UnknownCommand, ShortPayload
<1>4. CASE \E size \in Word, crc \in Crcs : StartUpgrade(size, crc)
  BY <1>1, <1>4, StartStep
<1>5. CASE \E off \in Word, data \in Payload : TransferData(off, data)
  BY <1>1, <1>5, TransferStep
<1>6. CASE \E size \in Word, crc \in Crcs : TransferDone(size, crc)
  BY <1>1, <1>6, DoneStep
<1>7. CASE VerifyFirmware
  BY <1>1, <1>7, VerifyStep
<1>8. CASE ResetRun
  <2>1. CASE status # "COMPLETE"
    BY <1>1, <1>8, <2>1, Idle DEF ResetRun
  <2>2. CASE status = "COMPLETE"
    <3>1. resp'.cmd = "reset_run" /\ status' = "IDLE" /\ in_progress' = FALSE
      BY <1>8, <2>2 DEF ResetRun, Reboot
    <3>2. QED BY <1>1, <3>1, IntoIdle
  <2>3. QED BY <2>1, <2>2
<1>9. CASE CancelUpgrade
  BY <1>1, <1>9, IntoIdle DEF CancelUpgrade
<1>10. CASE \E flag \in 0 .. 2 : SetBootFlag(flag)
  <2>1. /\ UNCHANGED <<status, in_progress, transferVars, declaredVars, slot1>>
        /\ resp'.cmd = "set_boot_flag"
    BY <1>10 DEF SetBootFlag
  <2>2. SlotHoldsReceived'
    BY <2>1 DEF IInv, SlotHoldsReceived, Prefix, transferVars
  <2>3. InProgressMatchesStatus' /\ ErasedAhead' /\ CompleteSize' /\ VerifiedIsStored'
    BY <2>1 DEF IInv, InProgressMatchesStatus, ErasedAhead, CompleteSize,
                VerifiedIsStored, transferVars, declaredVars
  <2>4. QED BY <1>1, <2>2, <2>3 DEF IInv
<1>11. CASE PowerLoss
  BY <1>1, <1>11, IntoIdle DEF PowerLoss, Reboot, NoResponse
<1>12. CASE UNCHANGED vars
  BY <1>1, <1>12, Idle DEF vars
<1>13. QED
  BY <1>2, <1>3, <1>4, <1>5, <1>6, <1>7, <1>8, <1>9, <1>10, <1>11, <1>12 DEF Next

\* The conjunction of the safety properties holds in every reachable state.
THEOREM Safety == Spec => []IInv
  BY InitIInv, IInvStep, PTL DEF Spec

\* What the device has acknowledged is in the slot, in order.
THEOREM ReceivedIsStored == Spec => []SlotHoldsReceived
<1>1. IInv => SlotHoldsReceived
  BY DEF IInv
<1>2. QED BY <1>1, Safety, PTL

\* No chunk is programmed over cells that are not erased or outside the slot.
THEOREM WritesHitErasedFlash == Spec => []ErasedAhead
<1>1. IInv => ErasedAhead
  BY DEF IInv
<1>2. QED BY <1>1, Safety, PTL

\* A "verify OK" is only ever said of the declared image.
THEOREM VerifyIsSound == Spec => []VerifiedIsStored
<1>1. IInv => VerifiedIsStored
  BY DEF IInv
<1>2. QED BY <1>1, Safety, PTL

\* An upgrade is in progress exactly when the status says so.
THEOREM ProgressIsExact == Spec => []InProgressMatchesStatus
<1>1. IInv => InProgressMatchesStatus
  BY DEF IInv
<1>2. QED BY <1>1, Safety, PTL

\* A completed upgrade has the size declared for it, or a later oversized start
\* has replaced the declaration.
THEOREM CompleteHasItsSize == Spec => []CompleteSize
<1>1. IInv => CompleteSize
  BY DEF IInv
<1>2. QED BY <1>1, Safety, PTL

\* A step leaves the acknowledged bytes alone or gives the upgrade up.
LEMMA AcknowledgedStep ==
  ASSUME IInv, [Next]_vars
  PROVE  (\A i \in 1 .. received_size : slot1'[i] = slot1[i]) \/ received_size' = 0
<1> DEFINE Kept == \A i \in 1 .. received_size : slot1'[i] = slot1[i]
<1> USE DEF transferVars
<1>0. TypeOK /\ InProgressMatchesStatus /\ SlotHoldsReceived
  BY DEF IInv
<1>1. ASSUME slot1' = slot1 PROVE Kept
  BY <1>1
<1>2. ASSUME NEW off \in Word, NEW data \in Payload, TransferAccepted(off, data)
      PROVE  Kept
  <2>1. CASE slot1' = slot1
    BY <1>1, <2>1
  <2>2. CASE off = current_offset /\ TransferWrite(off, data)
    <3>1. /\ off = received_size /\ received_size \in Nat
          /\ received_size <= SlotSize /\ SlotSize \in Nat
      BY <1>0, <1>2, <2>2, ConstantsAssumption
         DEF TransferAccepted, SlotHoldsReceived, TypeOK, Word
    <3>2. PICK k : FlashWrite(off, data, k)
      BY <2>2 DEF TransferWrite
    <3>3. \A i \in 1 .. received_size : i \in 1 .. SlotSize /\ ~(i > off)
      BY <3>1
    <3>4. QED BY <3>2, <3>3 DEF FlashWrite
  <2>3. QED BY <1>2, <2>1, <2>2 DEF TransferAccepted
<1>3. CASE Handshake \/ GetDevInfo \/ QueryStatus \/ UnknownCommand \/ ShortPayload
  BY <1>1, <1>3 DEF Handshake, GetDevInfo, QueryStatus, UnknownCommand, ShortPayload, deviceVars
<1>4. ASSUME NEW size \in Word, NEW crc \in Crcs, StartUpgrade(size, crc)
      PROVE  Kept \/ received_size' = 0
  <2>1. CASE StartUpgradeBusy
    BY <1>1, <2>1 DEF StartUpgradeBusy, deviceVars
  <2>2. CASE StartUpgradeTooBig(size, crc)
    BY <1>1, <2>2 DEF StartUpgradeTooBig
  <2>3. CASE StartUpgradeErase(size, crc)
    BY <2>3 DEF StartUpgradeErase
  <2>4. QED BY <1>4, <2>1, <2>2, <2>3 DEF StartUpgrade
<1>5. ASSUME NEW off \in Word, NEW data \in Payload, TransferData(off, data)
      PROVE  Kept
  BY <1>1, <1>2, <1>5 DEF TransferData, TransferRefused, deviceVars
<1>6. ASSUME NEW size \in Word, NEW crc \in Crcs, TransferDone(size, crc)
      PROVE  Kept
  BY <1>1, <1>6 DEF TransferDone, deviceVars
<1>7. CASE VerifyFirmware
  BY <1>1, <1>7 DEF VerifyFirmware
<1>8. CASE ResetRun
  BY <1>1, <1>8 DEF ResetRun, Reboot, deviceVars
<1>9. CASE CancelUpgrade
  BY <1>9 DEF CancelUpgrade
<1>10. ASSUME NEW flag \in 0 .. 2, SetBootFlag(flag) PROVE Kept
  BY <1>1, <1>10 DEF SetBootFlag
<1>11. CASE PowerLoss
  BY <1>11 DEF PowerLoss, Reboot
<1>12. CASE UNCHANGED vars
  BY <1>1, <1>12 DEF vars, deviceVars
<1>13. QED BY <1>3, <1>4, <1>5, <1>6, <1>7, <1>8, <1>9, <1>10, <1>11, <1>12 DEF Next

\* Nothing but giving up an upgrade, or the power, takes acknowledged bytes away.
THEOREM AcknowledgedIsKept == Spec => AcknowledgedKept
<1> DEFINE A == \/ \A i \in 1 .. received_size : slot1'[i] = slot1[i]
                \/ received_size' = 0
<1>1. IInv /\ [Next]_vars => [A]_vars
  BY AcknowledgedStep
<1>2. QED BY <1>1, Safety, PTL DEF Spec, AcknowledgedKept

-----------------------------------------------------------------------------
(* OtaDevice implements StagedImage. *)

LEMMA StagedStutter ==
  ASSUME UNCHANGED <<status, in_progress, received_size, slot1>>
  PROVE  UNCHANGED Staged!vars
  BY DEF Staged!vars, StagedPhase, StagedBytes, Prefix

LEMMA StagedDrop ==
  ASSUME status' = "IDLE", in_progress' = FALSE
  PROVE  Staged!Drop
  BY DEF Staged!Drop, StagedPhase, StagedBytes

\* Into ERROR, or to COMPLETE, with the received bytes where they were.
LEMMA StagedKeep ==
  ASSUME TypeOK, InProgressMatchesStatus, in_progress, in_progress',
         status' \in {"ERROR", "COMPLETE"}, Prefix(received_size)' = Prefix(received_size)
  PROVE  Staged!Seal \/ Staged!Break \/ UNCHANGED Staged!vars
<1>1. StagedBytes' = StagedBytes
  BY DEF StagedBytes
<1>2. status \in {"RECEIVING", "VERIFYING", "COMPLETE", "ERROR"}
  BY DEF TypeOK, Statuses, InProgressMatchesStatus
<1>3. /\ status = "RECEIVING" => StagedPhase = "growing"
      /\ status \in {"COMPLETE", "VERIFYING"} => StagedPhase = "sealed"
      /\ status = "ERROR" => StagedPhase = "broken"
      /\ status' = "COMPLETE" => StagedPhase' = "sealed"
      /\ status' = "ERROR" => StagedPhase' = "broken"
  BY DEF StagedPhase
<1>4. QED BY <1>1, <1>2, <1>3 DEF Staged!Seal, Staged!Break, Staged!vars

LEMMA StagedStep == IInv /\ IInv' /\ [Next]_vars => [Staged!Next]_(Staged!vars)
<1> SUFFICES ASSUME IInv, IInv', [Next]_vars
             PROVE  Staged!Next \/ UNCHANGED Staged!vars
  OBVIOUS
<1> USE DEF transferVars
<1>0. TypeOK /\ InProgressMatchesStatus /\ InProgressMatchesStatus' /\ SlotHoldsReceived
  BY DEF IInv
<1>1. ASSUME UNCHANGED deviceVars PROVE UNCHANGED Staged!vars
  BY <1>1, StagedStutter DEF deviceVars
<1>2. ASSUME status' = "IDLE" PROVE Staged!Next
  <2>1. in_progress' = FALSE
    BY <1>0, <1>2 DEF InProgressMatchesStatus, IInv, TypeOK
  <2>2. QED BY <1>2, <2>1, StagedDrop DEF Staged!Next
<1>3. CASE Handshake \/ GetDevInfo \/ QueryStatus \/ UnknownCommand \/ ShortPayload
  BY <1>1, <1>3 DEF Handshake, GetDevInfo, QueryStatus, UnknownCommand, ShortPayload
<1>4. ASSUME NEW size \in Word, NEW crc \in Crcs, StartUpgrade(size, crc)
      PROVE  Staged!Next \/ UNCHANGED Staged!vars
  <2>1. CASE StartUpgradeBusy
    BY <1>1, <2>1 DEF StartUpgradeBusy
  <2>2. CASE StartUpgradeTooBig(size, crc)
    BY <2>2, StagedStutter DEF StartUpgradeTooBig
  <2>3. CASE StartUpgradeErase(size, crc)
    <3>1. status' = "IDLE" \/ (status' = "RECEIVING" /\ in_progress' = TRUE)
      BY <2>3 DEF StartUpgradeErase
    <3>2. CASE status' = "RECEIVING" /\ in_progress' = TRUE
      <4>1. status \in {"IDLE", "COMPLETE"} /\ received_size' = 0
        BY <2>3 DEF StartUpgradeErase
      <4>2. StagedPhase \in {"none", "sealed"} /\ StagedPhase' = "growing"
        BY <3>2, <4>1 DEF StagedPhase
      <4>3. StagedBytes' = <<>>
        BY <3>2, <4>1 DEF StagedBytes, Prefix
      <4>4. QED BY <4>2, <4>3 DEF Staged!Next, Staged!Begin
    <3>3. QED BY <1>2, <3>1, <3>2
  <2>4. QED BY <1>4, <2>1, <2>2, <2>3 DEF StartUpgrade
<1>5. ASSUME NEW off \in Word, NEW data \in Payload, TransferData(off, data)
      PROVE  Staged!Next \/ UNCHANGED Staged!vars
  <2>1. CASE TransferRefused
    BY <1>1, <2>1 DEF TransferRefused
  <2>2. CASE TransferAccepted(off, data) /\ status' = "ERROR"
    <3>1. in_progress /\ in_progress' /\ received_size' = received_size
      BY <2>2 DEF TransferAccepted, TransferWrite, TransferFails
    <3>2. Prefix(received_size)' = Prefix(received_size)
      <4>1. calculated_crc' = calculated_crc
        BY <2>2 DEF TransferAccepted, TransferWrite, TransferFails
      <4>2. QED BY <3>1, <4>1 DEF IInv, SlotHoldsReceived
    <3>3. QED BY <1>0, <2>2, <3>1, <3>2, StagedKeep DEF Staged!Next
  <2>3. CASE TransferAccepted(off, data) /\ status' # "ERROR"
    <3>1. /\ in_progress /\ in_progress' /\ status = "RECEIVING" /\ status' = "RECEIVING"
          /\ calculated_crc' = CrcUpdate(calculated_crc, data)
      BY <2>3 DEF TransferAccepted, TransferWrite, TransferFails
    <3>2. StagedBytes = calculated_crc /\ StagedBytes' = calculated_crc'
      BY <3>1 DEF IInv, SlotHoldsReceived, StagedBytes
    <3>3. StagedPhase = "growing" /\ StagedPhase' = "growing"
      BY <3>1 DEF StagedPhase
    <3>4. Staged!Grow(data)
      BY <3>1, <3>2, <3>3 DEF Staged!Grow, CrcUpdate
    <3>5. QED BY <3>4 DEF Staged!Next
  <2>4. QED BY <1>5, <2>1, <2>2, <2>3 DEF TransferData
<1>6. ASSUME NEW size \in Word, NEW crc \in Crcs, TransferDone(size, crc)
      PROVE  Staged!Next \/ UNCHANGED Staged!vars
  <2>1. CASE ~in_progress
    BY <1>1, <1>6, <2>1 DEF TransferDone
  <2>2. CASE in_progress
    <3>1. /\ in_progress' = in_progress /\ received_size' = received_size
          /\ slot1' = slot1 /\ status' \in {"ERROR", "COMPLETE"}
      BY <1>6, <2>2 DEF TransferDone
    <3>2. Prefix(received_size)' = Prefix(received_size)
      BY <3>1 DEF Prefix
    <3>3. QED BY <1>0, <2>2, <3>1, <3>2, StagedKeep DEF Staged!Next
  <2>3. QED BY <2>1, <2>2
<1>7. CASE VerifyFirmware
  <2>1. UNCHANGED <<in_progress, received_size, slot1>>
    BY <1>7 DEF VerifyFirmware
  <2>2. CASE status' = status
    BY <2>1, <2>2, StagedStutter
  <2>3. CASE status = "COMPLETE" /\ status' = "VERIFYING"
    BY <2>1, <2>3 DEF Staged!vars, StagedPhase, StagedBytes, Prefix
  <2>4. CASE status = "COMPLETE" /\ status' = "ERROR"
    <3>1. in_progress /\ in_progress'
      BY <1>0, <2>1, <2>4 DEF InProgressMatchesStatus
    <3>2. Prefix(received_size)' = Prefix(received_size)
      BY <2>1 DEF Prefix
    <3>3. QED BY <1>0, <2>4, <3>1, <3>2, StagedKeep DEF Staged!Next
  <2>5. QED BY <1>7, <2>2, <2>3, <2>4 DEF VerifyFirmware
<1>8. CASE ResetRun
  <2>1. UNCHANGED deviceVars \/ status' = "IDLE"
    BY <1>8 DEF ResetRun, Reboot
  <2>2. QED BY <1>1, <1>2, <2>1
<1>9. CASE CancelUpgrade \/ PowerLoss
  <2>1. status' = "IDLE"
    BY <1>9 DEF CancelUpgrade, PowerLoss, Reboot
  <2>2. QED BY <1>2, <2>1
<1>10. CASE \E flag \in 0 .. 2 : SetBootFlag(flag)
  BY <1>10, StagedStutter DEF SetBootFlag
<1>11. CASE UNCHANGED vars
  BY <1>1, <1>11 DEF vars
<1>12. QED
  BY <1>3, <1>4, <1>5, <1>6, <1>7, <1>8, <1>9, <1>10, <1>11 DEF Next

\* Every behaviour of the device is, seen through the slot, a behaviour of
\* StagedImage: an image grows at its end only, and once sealed stays as it is
\* until it is dropped or a new one begun.
THEOREM ImplementsStagedImage == Spec => StagedSpec
<1>1. Init => Staged!Init
  BY DEF Init, Staged!Init, StagedPhase, StagedBytes
<1>2. QED BY <1>1, StagedStep, Safety, PTL DEF Spec, StagedSpec, Staged!Spec

-----------------------------------------------------------------------------
(* The types of what the two sides exchange, and of a thread: stronger than *)
(* SysTypeOK, which does not say what is on the line.                       *)

Bare == {"handshake", "get_dev_info", "verify_firmware", "reset_run",
         "cancel_upgrade", "get_log"}

Requests == [cmd : Bare]
            \cup [cmd : {"start_upgrade", "transfer_done"}, size : Word, crc : Images]
            \cup [cmd : {"transfer_data"}, off : Word, data : Payload]
            \cup [cmd : {"set_boot_flag"}, flag : {1}]

Responses == [cmd : Commands \cup {"none"}, code : Codes, len : Nat]

PacketCount(image) == (Len(image) + ChunkSize - 1) \div ChunkSize

\* Only a thread in a stage or in poll_logs uses the connection, a packet that is
\* sent exists, and a thread that has ended has left nothing behind.
SoundThread(t) ==
  /\ t.io # "check" => t.stage \in Stages \cup {"PollingLogs"}
  /\ t.packet <= PacketCount(t.image)
  /\ t.stage = "Transferring" /\ t.io # "check" => t.packet < PacketCount(t.image)
  /\ t.stage = "PollingLogs" => t.io # "check"
  /\ t.stage = "Idle" => t = NoThread
  /\ t.stage = "Loading" => t.packet = 0

Thread == {t \in Engine : SoundThread(t)}

Gui == {NoButton} \cup (ButtonCommands \cup {"start_upgrade"}) \X {"lock"}
       \cup (ButtonCommands \cap Bare) \X {"wait"}

HostInv ==
  /\ eng \in [Engines -> Thread]
  /\ shown \in Stages \cup Resting /\ conn \in BOOLEAN
  /\ cancel_flag \in BOOLEAN /\ overlap \in BOOLEAN /\ reported \in Images
  /\ gui \in Gui
  /\ toDev \in Seq(Requests) /\ toPc \in Seq(Responses)
  /\ OneExchange

SysInv == IInv /\ HostInv

-----------------------------------------------------------------------------
(* A file in packets. *)

LEMMA PacketCountFacts ==
  ASSUME NEW image \in Images
  PROVE  /\ PacketCount(image) \in Nat
         /\ \A k \in Nat : k < PacketCount(image) => k * ChunkSize < Len(image)
         /\ \A k \in Nat : k >= PacketCount(image) => k * ChunkSize >= Len(image)
<1>1. Len(image) \in Nat /\ ChunkSize \in Nat \ {0}
  BY FilesAssumption, HostAssumption
<1>2. ASSUME NEW n \in Nat, NEW c \in Nat \ {0}
      PROVE  /\ (n + c - 1) \div c \in Nat
             /\ \A k \in Nat : k < (n + c - 1) \div c => k * c < n
             /\ \A k \in Nat : k >= (n + c - 1) \div c => k * c >= n
  OBVIOUS
<1>3. QED BY <1>1, <1>2 DEF PacketCount

\* What split_into_packets cuts out is a chunk of the file that a frame carries.
LEMMA PacketFacts ==
  ASSUME NEW image \in Images, NEW k \in Nat, k < PacketCount(image)
  PROVE  /\ Packet(image, k) \in [cmd : {"transfer_data"}, off : Word, data : Payload]
         /\ k * ChunkSize + Len(Packet(image, k).data) <= Len(image)
         /\ \A i \in 1 .. Len(Packet(image, k).data) :
              Packet(image, k).data[i] = image[k * ChunkSize + i]
<1> DEFINE off == k * ChunkSize
           end == IF off + ChunkSize < Len(image) THEN off + ChunkSize ELSE Len(image)
           data == SubSeq(image, off + 1, end)
<1>1. /\ image \in Seq(Byte) /\ Len(image) \in Nat /\ Len(image) < U32
      /\ ChunkSize \in Nat \ {0} /\ ChunkSize <= MaxPayload
      /\ MaxPayload \in Nat /\ U32 \in Nat
  BY FilesAssumption, HostAssumption, ConstantsAssumption DEF Word
<1>2. off \in Nat /\ off < Len(image)
  BY <1>1, PacketCountFacts
<1>3. end \in Nat /\ end <= Len(image) /\ end > off /\ end - off <= ChunkSize
  BY <1>1, <1>2
<1> HIDE DEF off, end
<1>4. /\ data \in Seq(Byte) /\ Len(data) = end - off
      /\ \A i \in 1 .. end - off : data[i] = image[off + i]
  BY <1>1, <1>2, <1>3
<1>5. data \in Payload
  <2>1. end - off \in 0 .. MaxPayload
    BY <1>1, <1>2, <1>3
  <2>2. data \in [1 .. Len(data) -> Byte]
    <3>1. ASSUME NEW d \in Seq(Byte) PROVE d \in [1 .. Len(d) -> Byte]
      OBVIOUS
    <3> HIDE DEF data
    <3>2. QED BY <1>4, <3>1
  <2>3. QED BY <1>4, <2>1, <2>2 DEF Payload
<1>6. off \in Word
  BY <1>1, <1>2 DEF Word
<1>7. Packet(image, k) = [cmd |-> "transfer_data", off |-> off, data |-> data]
  BY DEF Packet, off, end
<1> HIDE DEF data
<1>8. QED BY <1>1, <1>2, <1>3, <1>4, <1>5, <1>6, <1>7 DEF off

-----------------------------------------------------------------------------
(* The threads. *)

LEMMA NoThreadFacts == NoThread \in Thread /\ NoImage \in Images
<1>1. NoImage \in Images
  BY HostAssumption DEF NoImage
<1>2. NoThread \in Engine
  BY <1>1, HostAssumption DEF NoThread, Engine
<1>3. SoundThread(NoThread)
  BY <1>1, PacketCountFacts DEF NoThread, SoundThread, Stages
<1>4. QED BY <1>1, <1>2, <1>3 DEF Thread

\* A thread that enters a stage, or poll_logs.
LEMMA IntoStage ==
  ASSUME NEW t \in Thread, NEW s \in Stages
  PROVE  [t EXCEPT !.stage = s, !.io = "check", !.attempt = 1] \in Thread
<1> DEFINE u == [t EXCEPT !.stage = s, !.io = "check", !.attempt = 1]
<1>1. t \in Engine /\ t.packet <= PacketCount(t.image)
  BY DEF Thread, SoundThread
<1>2. 1 \in 1 .. MaxRetries
  BY HostAssumption
<1>3. /\ u \in Engine /\ u.stage = s /\ u.io = "check"
      /\ u.packet = t.packet /\ u.image = t.image
  BY <1>1, <1>2 DEF Engine
<1> HIDE DEF u
<1>4. u \in Thread
  BY <1>1, <1>3 DEF Thread, SoundThread, Stages
<1>5. QED BY <1>4 DEF u

LEMMA IntoPoll ==
  ASSUME NEW t \in Thread, NEW s \in {"Error", "Failing", "Resetting"}
  PROVE  [t EXCEPT !.stage = "PollingLogs", !.io = "lock", !.then = s] \in Thread
  BY DEF Thread, Engine, SoundThread, Stages

\* Every way in which a thread goes on after an exchange ends the exchange.
Onward(e) == \E t \in Thread : t.io # "wait" /\ Put(e, t)

ShownOK == shown' \in Stages \cup Resting

LEMMA GotoOnward ==
  ASSUME HostInv, NEW e \in Engines, NEW s \in Stages, Goto(e, s)
  PROVE  Onward(e) /\ ShownOK
<1>1. eng[e] \in Thread
  BY DEF HostInv
<1> DEFINE t == [eng[e] EXCEPT !.stage = s, !.io = "check", !.attempt = 1]
<1>2. t \in Thread
  BY <1>1, IntoStage
<1>3. t.io = "check"
  BY <1>1 DEF Thread, Engine
<1>4. QED BY <1>2, <1>3 DEF Goto, Onward, ShownOK

LEMMA PollOnward ==
  ASSUME HostInv, NEW e \in Engines, NEW s \in {"Error", "Failing", "Resetting"},
         PollThen(e, s)
  PROVE  Onward(e)
<1>1. eng[e] \in Thread
  BY DEF HostInv
<1> DEFINE t == [eng[e] EXCEPT !.stage = "PollingLogs", !.io = "lock", !.then = s]
<1>2. t \in Thread
  BY <1>1, IntoPoll
<1>3. t.io = "lock"
  BY <1>1 DEF Thread, Engine
<1>4. QED BY <1>2, <1>3 DEF PollThen, Onward

LEMMA FailOnward ==
  ASSUME HostInv, NEW e \in Engines, Fail(e) \/ FailShown(e)
  PROVE  Onward(e) /\ ShownOK
  BY PollOnward DEF Fail, FailShown, HostInv, ShownOK, Resting

LEMMA EndOnward ==
  ASSUME HostInv, NEW e \in Engines, NEW s \in {"Error", "Complete"}, End(e, s)
  PROVE  Onward(e) /\ ShownOK
  BY NoThreadFacts DEF End, Onward, ShownOK, Resting, NoThread

LEMMA PolledOnward ==
  ASSUME HostInv, NEW e \in Engines, Polled(e)
  PROVE  Onward(e) /\ ShownOK
<1>1. eng[e].then \in {"Error", "Failing", "Resetting"}
  BY DEF HostInv, Thread, Engine
<1>2. CASE eng[e].then = "Failing"
  BY <1>2, FailOnward DEF Polled
<1>3. CASE eng[e].then = "Error"
  BY <1>3, EndOnward DEF Polled
<1>4. CASE eng[e].then = "Resetting"
  BY <1>4, GotoOnward DEF Polled, Stages
<1>5. QED BY <1>1, <1>2, <1>3, <1>4

LEMMA DigestOnward ==
  ASSUME HostInv, NEW e \in Engines, eng[e].io = "wait", NEW r, Digest(e, r)
  PROVE  Onward(e) /\ ShownOK
<1>0. eng[e] \in Thread
  BY DEF HostInv
<1>1. eng[e].stage \in Stages \cup {"PollingLogs"}
  BY <1>0 DEF Thread, SoundThread
<1> USE DEF Stages
<1>2. CASE eng[e].stage = "PollingLogs"
  BY <1>2, PolledOnward DEF Digest
<1>3. CASE eng[e].stage = "SettingBootFlag"
  <2>1. UNCHANGED shown
    BY <1>3 DEF Digest
  <2>2. ShownOK
    BY <2>1 DEF ShownOK, HostInv
  <2>3. PollThen(e, "Failing") \/ PollThen(e, "Resetting")
    BY <1>3 DEF Digest
  <2>4. QED BY <2>2, <2>3, PollOnward
<1>4. CASE eng[e].stage \in Stages \ {"SettingBootFlag"} /\ IsError(r)
  BY <1>4, FailOnward DEF Digest
<1>5. CASE ~IsError(r)
  <2>1. CASE eng[e].stage = "Handshaking"
    BY <1>5, <2>1, GotoOnward DEF Digest
  <2>2. CASE eng[e].stage = "GettingDeviceInfo"
    BY <1>5, <2>2, GotoOnward, FailOnward DEF Digest
  <2>3. CASE eng[e].stage = "Erasing"
    BY <1>5, <2>3, GotoOnward, FailOnward DEF Digest
  <2>4. CASE eng[e].stage = "Transferring"
    <3> DEFINE t == [eng[e] EXCEPT !.packet = @ + 1, !.io = "check", !.attempt = 1]
    <3>1. Put(e, t) /\ shown' = "Transferring"
      BY <1>5, <2>4 DEF Digest
    <3>2. eng[e].packet < PacketCount(eng[e].image)
      BY <1>0, <2>4 DEF Thread, SoundThread
    <3>3. PacketCount(eng[e].image) \in Nat
      BY <1>0, PacketCountFacts DEF Thread, Engine
    <3>4. /\ t \in Engine /\ t.io = "check" /\ t.stage = "Transferring"
          /\ t.packet = eng[e].packet + 1 /\ t.image = eng[e].image
      <4>1. eng[e] \in Engine /\ eng[e].packet + 1 \in Nat /\ 1 \in 1 .. MaxRetries
        BY <1>0, HostAssumption DEF Thread, Engine
      <4>2. QED BY <2>4, <4>1 DEF Engine
    <3> HIDE DEF t
    <3>41. t.packet <= PacketCount(t.image)
      <4>1. eng[e].packet \in Nat
        BY <1>0 DEF Thread, Engine
      <4>2. QED BY <3>2, <3>3, <3>4, <4>1
    <3>5. t \in Thread
      BY <3>4, <3>41 DEF Thread, SoundThread
    <3>6. QED BY <3>1, <3>4, <3>5 DEF Onward, ShownOK
  <2>5. CASE eng[e].stage = "Completing"
    BY <1>5, <2>5, GotoOnward DEF Digest
  <2>6. CASE eng[e].stage = "Verifying"
    BY <1>5, <2>6, GotoOnward, FailOnward DEF Digest, Verified
  <2>7. CASE eng[e].stage = "Resetting"
    BY <1>5, <2>7, EndOnward DEF Digest
  <2>8. QED BY <1>1, <1>2, <1>3, <2>1, <2>2, <2>3, <2>4, <2>5, <2>6, <2>7
<1>6. QED BY <1>1, <1>2, <1>3, <1>4, <1>5

LEMMA NoAnswerOnward ==
  ASSUME HostInv, NEW e \in Engines, eng[e].io \in {"lock", "wait"}, NoAnswer(e)
  PROVE  Onward(e) /\ ShownOK
<1>0. eng[e] \in Thread
  BY DEF HostInv
<1>1. CASE eng[e].stage = "PollingLogs"
  BY <1>1, PolledOnward DEF NoAnswer
<1>2. CASE eng[e].stage # "PollingLogs" /\ eng[e].attempt < MaxRetries
  <2> DEFINE t == [eng[e] EXCEPT !.io = "check", !.attempt = @ + 1]
  <2>1. Put(e, t) /\ UNCHANGED shown
    BY <1>2 DEF NoAnswer
  <2>2. eng[e] \in Engine /\ eng[e].attempt + 1 \in 1 .. MaxRetries
    BY <1>0, <1>2, HostAssumption DEF Thread, Engine
  <2>3. /\ t \in Engine /\ t.io = "check" /\ t.stage = eng[e].stage
        /\ t.packet = eng[e].packet /\ t.image = eng[e].image
    BY <2>2 DEF Engine
  <2>4. eng[e].stage \in Stages
    BY <1>0, <1>2 DEF Thread, SoundThread
  <2> HIDE DEF t
  <2>5. t \in Thread
    BY <1>0, <2>3, <2>4 DEF Thread, SoundThread, Stages
  <2>6. QED BY <2>1, <2>3, <2>5 DEF Onward, ShownOK, HostInv
<1>3. CASE eng[e].stage # "PollingLogs" /\ ~(eng[e].attempt < MaxRetries)
  BY <1>3, FailOnward DEF NoAnswer
<1>4. QED BY <1>1, <1>2, <1>3

-----------------------------------------------------------------------------
(* The line. *)

\* What a stage sends is a request the device knows how to read.
LEMMA StageRequestFacts ==
  ASSUME HostInv, NEW e \in Engines, eng[e].io # "check"
  PROVE  StageRequest(e) \in Requests
<1>1. eng[e] \in Thread /\ eng[e].image \in Images
  BY DEF HostInv, Thread, Engine
<1>2. eng[e].stage \in Stages \cup {"PollingLogs"}
  BY <1>1 DEF Thread, SoundThread
<1>3. CASE eng[e].stage \in {"Handshaking", "GettingDeviceInfo", "Verifying",
                             "Resetting", "PollingLogs"}
  <2>1. \E c \in Bare : StageRequest(e) = [cmd |-> c]
    BY <1>3 DEF StageRequest, Request, Bare
  <2>2. QED BY <2>1 DEF Requests
<1>4. CASE eng[e].stage \in {"Erasing", "Completing"}
  <2>1. Len(eng[e].image) \in Word
    BY <1>1, FilesAssumption
  <2>2. QED BY <1>1, <1>4, <2>1 DEF StageRequest, Declare, Requests
<1>5. CASE eng[e].stage = "Transferring"
  <2>1. eng[e].packet \in Nat /\ eng[e].packet < PacketCount(eng[e].image)
    BY <1>1, <1>5 DEF Thread, Engine, SoundThread
  <2>2. StageRequest(e) = Packet(eng[e].image, eng[e].packet)
    BY <1>5 DEF StageRequest
  <2>3. QED BY <1>1, <2>1, <2>2, PacketFacts DEF Requests
<1>6. CASE eng[e].stage = "SettingBootFlag"
  BY <1>6 DEF StageRequest, Requests
<1>7. QED BY <1>2, <1>3, <1>4, <1>5, <1>6 DEF Stages

\* The handler of a request is an operation of the device, and answers it.
LEMMA HandleFacts ==
  ASSUME NEW req \in Requests, Handle(req)
  PROVE  Next /\ resp'.cmd = req.cmd
<1>0. Images \subseteq Crcs
  BY FilesAssumption
<1> USE DEF Reply
<1>1. CASE req.cmd \in {"handshake", "get_dev_info", "get_log"}
  BY <1>1 DEF Handle, Next, Handshake, GetDevInfo, UnknownCommand
<1>2. CASE req.cmd = "start_upgrade"
  <2>1. req.size \in Word /\ req.crc \in Crcs
    BY <1>0, <1>2 DEF Requests, Bare
  <2>2. StartUpgrade(req.size, req.crc)
    BY <1>2 DEF Handle
  <2>3. resp'.cmd = "start_upgrade"
    BY <2>2 DEF StartUpgrade, StartUpgradeBusy, StartUpgradeTooBig, StartUpgradeErase
  <2>4. QED BY <1>2, <2>1, <2>2, <2>3 DEF Next
<1>3. CASE req.cmd = "transfer_data"
  <2>1. req.off \in Word /\ req.data \in Payload
    BY <1>3 DEF Requests, Bare
  <2>2. TransferData(req.off, req.data)
    BY <1>3 DEF Handle
  <2>3. resp'.cmd = "transfer_data"
    BY <2>2 DEF TransferData, TransferRefused, TransferAccepted, TransferFails, TransferWrite
  <2>4. QED BY <1>3, <2>1, <2>2, <2>3 DEF Next
<1>4. CASE req.cmd = "transfer_done"
  <2>1. req.size \in Word /\ req.crc \in Crcs
    BY <1>0, <1>4 DEF Requests, Bare
  <2>2. TransferDone(req.size, req.crc)
    BY <1>4 DEF Handle
  <2>3. resp'.cmd = "transfer_done"
    BY <2>2 DEF TransferDone
  <2>4. QED BY <1>4, <2>1, <2>2, <2>3 DEF Next
<1>5. CASE req.cmd = "verify_firmware"
  <2>1. VerifyFirmware
    BY <1>5 DEF Handle
  <2>2. resp'.cmd = "verify_firmware"
    BY <2>1 DEF VerifyFirmware
  <2>3. QED BY <1>5, <2>1, <2>2 DEF Next
<1>6. CASE req.cmd \in {"reset_run", "cancel_upgrade"}
  BY <1>6 DEF Handle, Next, ResetRun, CancelUpgrade
<1>7. CASE req.cmd = "set_boot_flag"
  <2>1. req.flag = 1 /\ SetBootFlag(1)
    BY <1>7 DEF Requests, Bare, Handle
  <2>2. resp'.cmd = "set_boot_flag"
    BY <2>1 DEF SetBootFlag
  <2>3. QED BY <1>7, <2>1, <2>2 DEF Next
<1>8. QED BY <1>1, <1>2, <1>3, <1>4, <1>5, <1>6, <1>7 DEF Handle

\* A byte flipped on the line leaves a transfer_data frame one.
LEMMA CorruptFacts ==
  ASSUME HostInv, CorruptData
  PROVE  /\ toDev # <<>> /\ toDev' \in Seq(Requests)
         /\ Len(toDev') = Len(toDev) /\ Tail(toDev') = Tail(toDev)
         /\ Head(toDev).cmd = "transfer_data" /\ Head(toDev').cmd = "transfer_data"
<1>1. toDev \in Seq(Requests) /\ toDev # <<>> /\ Head(toDev).cmd = "transfer_data"
  BY DEF HostInv, CorruptData
<1> DEFINE q == toDev[1]
<1>2. q \in [cmd : {"transfer_data"}, off : Word, data : Payload]
  BY <1>1 DEF Requests, Bare
<1>3. PICK data \in [DOMAIN q.data -> Byte] : toDev' = [toDev EXCEPT ![1].data = data]
  <2>1. Head(toDev) = q
    BY <1>1
  <2>2. QED BY <2>1, Zenon DEF CorruptData
<1>4. data \in Payload
  BY <1>2, <1>3 DEF Payload
<1> DEFINE p == [q EXCEPT !.data = data]
<1>5. p \in Requests /\ p.cmd = "transfer_data"
  BY <1>2, <1>4 DEF Requests
<1>6. toDev' = [toDev EXCEPT ![1] = p]
  BY <1>3
<1> HIDE DEF p, q
<1>7. toDev' \in Seq(Requests) /\ Len(toDev') = Len(toDev) /\ toDev'[1] = p
  BY <1>1, <1>5, <1>6
<1>8. Tail(toDev') = Tail(toDev)
  BY <1>1, <1>6
<1>9. QED BY <1>1, <1>5, <1>7, <1>8

-----------------------------------------------------------------------------
(* HostInv is inductive. *)

LEMMA HostInvInit == HostInit => HostInv
<1> SUFFICES ASSUME HostInit PROVE HostInv
  OBVIOUS
<1>1. NoThread.io = "check"
  BY DEF NoThread
<1>2. eng \in [Engines -> Thread]
  BY NoThreadFacts DEF HostInit
<1>3. /\ shown \in Stages \cup Resting /\ conn \in BOOLEAN
      /\ cancel_flag \in BOOLEAN /\ overlap \in BOOLEAN /\ reported \in Images
  BY NoThreadFacts DEF HostInit, Resting
<1>31. toDev \in Seq(Requests) /\ toPc \in Seq(Responses)
  BY DEF HostInit
<1>4. gui \in Gui
  BY DEF HostInit, Gui
<1>5. OneExchange
  BY <1>1 DEF HostInit, OneExchange, NoButton
<1>6. QED BY <1>2, <1>3, <1>31, <1>4, <1>5 DEF HostInv

\* A thread that moves on without waiting keeps the mutex exclusive.
LEMMA OnwardKeeps ==
  ASSUME HostInv, NEW e \in Engines, Onward(e), gui' = gui
  PROVE  eng' \in [Engines -> Thread] /\ gui' \in Gui /\ OneExchange'
<1>1. PICK t \in Thread : t.io # "wait" /\ eng' = [eng EXCEPT ![e] = t]
  BY DEF Onward, Put
<1>2. eng' \in [Engines -> Thread]
  BY <1>1 DEF HostInv
<1>3. \A f \in Engines : eng'[f].io = "wait" => eng[f].io = "wait"
  BY <1>1 DEF HostInv
<1>4. OneExchange'
  BY <1>3 DEF HostInv, OneExchange
<1>5. QED BY <1>2, <1>4 DEF HostInv

\* Every step of a thread but SendFrame moves it on.
LEMMA EngineOnward ==
  ASSUME HostInv, NEW e \in Engines,
         \/ LoadFirmware(e) \/ CheckCancelled(e) \/ CancelInTransfer(e) \/ CheckGoOn(e)
         \/ RecvFrame(e) \/ NotConnected(e) \/ RecvTimeout(e)
  PROVE  Onward(e) /\ ShownOK
<1>0. eng[e] \in Thread
  BY DEF HostInv
<1>1. CASE LoadFirmware(e)
  <2>1. Goto(e, "Handshaking") \/ FailShown(e)
    BY <1>1 DEF LoadFirmware
  <2>2. QED BY <2>1, GotoOnward, FailOnward DEF Stages
<1>2. CASE CheckCancelled(e)
  BY <1>2, FailOnward DEF CheckCancelled
<1>3. CASE CancelInTransfer(e)
  BY <1>3, PollOnward DEF CancelInTransfer, ShownOK, Resting
<1>4. CASE CheckGoOn(e)
  <2>1. CASE Goto(e, "Completing")
    BY <2>1, GotoOnward DEF Stages
  <2>2. CASE /\ ~(eng[e].stage = "Transferring" /\ eng[e].packet >= Packets(e))
             /\ Put(e, [eng[e] EXCEPT !.io = "lock"]) /\ UNCHANGED shown
    <3> DEFINE t == [eng[e] EXCEPT !.io = "lock"]
    <3>1. /\ t \in Engine /\ t.io = "lock" /\ t.stage = eng[e].stage
          /\ t.packet = eng[e].packet /\ t.image = eng[e].image
      BY <1>0 DEF Thread, Engine
    <3>2. t.stage \in Stages
      BY <1>4, <3>1 DEF CheckGoOn
    <3>3. PacketCount(t.image) \in Nat /\ t.packet \in Nat
      BY <3>1, PacketCountFacts DEF Engine
    <3>4. t.stage = "Transferring" => t.packet < PacketCount(t.image)
      BY <2>2, <3>1, <3>3 DEF Packets, PacketCount
    <3>5. Put(e, t)
      BY <2>2
    <3> HIDE DEF t
    <3>6. t \in Thread
      BY <1>0, <3>1, <3>2, <3>4 DEF Thread, SoundThread, Stages
    <3>7. QED BY <2>2, <3>1, <3>5, <3>6 DEF Onward, ShownOK, HostInv
  <2>3. QED BY <1>4, <2>1, <2>2 DEF CheckGoOn
<1>5. CASE RecvFrame(e)
  BY <1>5, DigestOnward DEF RecvFrame
<1>6. CASE NotConnected(e) \/ RecvTimeout(e)
  BY <1>6, NoAnswerOnward DEF NotConnected, RecvTimeout
<1>7. QED BY <1>1, <1>2, <1>3, <1>4, <1>5, <1>6

LEMMA EngineStepInv ==
  ASSUME HostInv, NEW e \in Engines, EngineStep(e) \/ RecvTimeout(e)
  PROVE  HostInv'
<1> USE DEF bounds, linkVars
<1>0. eng[e] \in Thread
  BY DEF HostInv
<1>1. ASSUME Onward(e), ShownOK, UNCHANGED <<conn, cancel_flag, gui, overlap>>,
             reported' \in Images, toDev' \in Seq(Requests), toPc' \in Seq(Responses)
      PROVE  HostInv'
  BY <1>1, OnwardKeeps DEF HostInv, ShownOK
<1>2. CASE LoadFirmware(e) \/ CheckCancelled(e) \/ CheckGoOn(e)
           \/ NotConnected(e) \/ RecvTimeout(e)
  <2>1. Onward(e) /\ ShownOK
    BY <1>2, EngineOnward
  <2>2. UNCHANGED <<conn, cancel_flag, gui, linkVars, bounds>>
    BY <1>2 DEF LoadFirmware, CheckCancelled, CheckGoOn, NotConnected, RecvTimeout
  <2>3. QED BY <1>1, <2>1, <2>2 DEF HostInv
<1>4. CASE CancelInTransfer(e)
  <2>1. Request("cancel_upgrade") \in Requests
    BY DEF Request, Requests, Bare
  <2>2. toDev' \in Seq(Requests)
    BY <1>4, <2>1 DEF CancelInTransfer, HostInv
  <2>3. QED BY <1>1, <1>4, <2>2, EngineOnward DEF CancelInTransfer, HostInv
<1>6. CASE SendFrame(e)
  <2> DEFINE t == [eng[e] EXCEPT !.io = "wait"]
  <2>1. eng[e].io = "lock" /\ ~Locked /\ Put(e, t)
    BY <1>6 DEF SendFrame
  <2>2. /\ t \in Engine /\ t.io = "wait" /\ t.stage = eng[e].stage
        /\ t.packet = eng[e].packet /\ t.image = eng[e].image
    BY <1>0 DEF Thread, Engine
  <2> HIDE DEF t
  <2>3. t \in Thread
    BY <1>0, <2>1, <2>2 DEF Thread, SoundThread, Stages
  <2>4. eng' = [eng EXCEPT ![e] = t] /\ eng' \in [Engines -> Thread]
    BY <2>1, <2>3 DEF Put, HostInv
  <2>5. OneExchange'
    BY <1>6, <2>1, <2>4 DEF SendFrame, windowVars, OneExchange, Locked, HostInv
  <2>6. toDev' \in Seq(Requests)
    BY <1>6, <2>1, StageRequestFacts DEF SendFrame, HostInv
  <2>7. QED BY <1>6, <2>4, <2>5, <2>6 DEF SendFrame, windowVars, HostInv
<1>7. CASE RecvFrame(e)
  <2>1. toPc' \in Seq(Responses)
    BY <1>7 DEF RecvFrame, HostInv
  <2>2. reported' \in Images
    BY <1>0, <1>7 DEF RecvFrame, HostInv, Thread, Engine
  <2>3. QED BY <1>1, <1>7, <2>1, <2>2, EngineOnward DEF RecvFrame, HostInv
<1>8. QED BY <1>2, <1>4, <1>6, <1>7 DEF EngineStep

\* The command of a button that exchanges frames.
LEMMA GuiFacts ==
  ASSUME gui \in Gui
  PROVE  /\ Exchanging /\ gui # NoButton => gui[1] \in ButtonCommands \cap Bare
         /\ gui[2] \in {"idle", "lock", "wait"}
         /\ gui[2] = "wait" => gui[1] \in ButtonCommands \cap Bare
         /\ gui[2] = "lock" => gui # NoButton
         /\ gui = NoButton => gui[2] = "idle"
  BY DEF Gui, Exchanging, NoButton, ButtonCommands, Bare

LEMMA ButtonStepInv ==
  ASSUME HostInv,
         PressStart \/ (\E cmd \in Buttons : PressOther(cmd)) \/ CommandStep \/ ButtonTimeout
  PROVE  HostInv'
<1> USE DEF bounds, linkVars
<1>1. CASE PressStart \/ \E cmd \in Buttons : PressOther(cmd)
  <2>1. PICK cmd \in ButtonCommands \cup {"start_upgrade"} :
          Press(cmd) /\ UNCHANGED <<overlap, reported>>
    BY <1>1, HostAssumption DEF PressStart, PressOther
  <2>2. gui' \in Gui /\ gui'[2] = "lock"
    BY <2>1 DEF Press, Gui
  <2>3. cancel_flag' \in BOOLEAN
    BY <2>1 DEF Press
  <2>4. shown' \in Stages \cup Resting
    BY <2>1 DEF Press, HostInv, Resting
  <2>5. OneExchange'
    BY <2>1, <2>2 DEF Press, OneExchange, HostInv
  <2>6. QED BY <2>1, <2>2, <2>3, <2>4, <2>5 DEF Press, HostInv
<1>2. ASSUME UNCHANGED <<eng, shown>>, gui' = NoButton, UNCHANGED <<overlap, reported>>,
             conn' \in BOOLEAN, cancel_flag' \in BOOLEAN,
             toDev' \in Seq(Requests), toPc' \in Seq(Responses)
      PROVE  HostInv'
  BY <1>2 DEF HostInv, Gui, NoButton, OneExchange
<1>3. ASSUME NEW e \in Engines, RunUpgrade(e) PROVE HostInv'
  <2>1. CASE ~conn
    BY <1>2, <1>3, <2>1 DEF RunUpgrade, Returns, HostInv
  <2>2. CASE conn
    <3>1. PICK chosen \in Images :
            Put(e, [eng[e] EXCEPT !.stage = "Loading", !.image = chosen])
      BY <1>3, <2>2 DEF RunUpgrade
    <3> DEFINE t == [eng[e] EXCEPT !.stage = "Loading", !.image = chosen]
    <3>2. eng[e] = NoThread
      BY <1>3 DEF RunUpgrade, Alive, HostInv, Thread, SoundThread
    <3>3. /\ t \in Engine /\ t.stage = "Loading" /\ t.io = "check" /\ t.packet = 0
          /\ t.image \in Images
      <4>1. NoThread \in Engine /\ NoThread.io = "check" /\ NoThread.packet = 0
        BY NoThreadFacts DEF NoThread, Thread
      <4>2. QED BY <3>2, <4>1 DEF Engine
    <3>4. PacketCount(t.image) \in Nat
      BY <3>3, PacketCountFacts
    <3>5. Put(e, t)
      BY <3>1
    <3> HIDE DEF t
    <3>6. t \in Thread
      BY <3>3, <3>4 DEF Thread, SoundThread, Stages
    <3>7. eng' = [eng EXCEPT ![e] = t] /\ eng' \in [Engines -> Thread]
      BY <3>5, <3>6 DEF Put, HostInv
    <3>8. gui' = NoButton /\ gui' \in Gui
      BY <1>3 DEF RunUpgrade, Returns, Gui
    <3>9. OneExchange'
      BY <3>3, <3>7, <3>8 DEF OneExchange, NoButton, HostInv
    <3>10. overlap' \in BOOLEAN /\ cancel_flag' \in BOOLEAN
      BY <1>3, <2>2 DEF RunUpgrade
    <3>11. QED BY <1>3, <3>7, <3>8, <3>9, <3>10 DEF RunUpgrade, HostInv
  <2>3. QED BY <2>1, <2>2
<1>4. CASE Disconnect \/ Connect \/ ButtonNotConnected
  <2>1. gui' = NoButton /\ UNCHANGED <<eng, shown, overlap, reported, cancel_flag, toDev>>
    BY <1>4 DEF Disconnect, Connect, ButtonNotConnected, Returns
  <2>2. conn' \in BOOLEAN /\ (toPc' = toPc \/ toPc' = <<>>)
    BY <1>4 DEF Disconnect, Connect, ButtonNotConnected, HostInv
  <2>3. CASE toPc' = toPc
    BY <1>2, <2>1, <2>2, <2>3 DEF HostInv
  <2>4. CASE toPc' = <<>>
    <3>1. toPc' \in Seq(Responses)
      BY <2>4
    <3>2. QED BY <1>2, <2>1, <2>2, <3>1 DEF HostInv
  <2>5. QED BY <2>2, <2>3, <2>4
<1>5. CASE ButtonSend
  <2>1. Exchanging /\ gui[2] = "lock" /\ ~Locked
    BY <1>5 DEF ButtonSend, Executes
  <2>2. gui[1] \in ButtonCommands \cap Bare
    BY <2>1, GuiFacts DEF HostInv
  <2>3. Request(gui[1]) \in Requests
    BY <2>2 DEF Request, Requests
  <2>4. toDev' \in Seq(Requests)
    BY <1>5, <2>3 DEF ButtonSend, HostInv
  <2>5. gui' \in Gui
    BY <1>5, <2>2 DEF ButtonSend, Gui
  <2>6. OneExchange'
    BY <1>5, <2>1 DEF ButtonSend, OneExchange, Locked, HostInv
  <2>7. QED BY <1>5, <2>4, <2>5, <2>6 DEF ButtonSend, HostInv
<1>6. CASE ButtonRecv
  <2>1. toPc' \in Seq(Responses)
    BY <1>6 DEF ButtonRecv, HostInv
  <2>2. QED BY <1>2, <1>6, <2>1 DEF ButtonRecv, Returns, HostInv
<1>7. CASE ButtonTimeout
  BY <1>2, <1>7 DEF ButtonTimeout, Returns, HostInv
<1>8. QED BY <1>1, <1>3, <1>4, <1>5, <1>6, <1>7 DEF CommandStep

\* A step of the line or of the device moves no thread and no button.
LEMMA LineStepInv ==
  ASSUME HostInv, UNCHANGED <<eng, windowVars, bounds>>,
         toDev' \in Seq(Requests), toPc' \in Seq(Responses)
  PROVE  HostInv'
  BY DEF HostInv, windowVars, bounds, OneExchange

LEMMA DeviceStepFacts ==
  ASSUME SysInv, DeviceStep
  PROVE  Next /\ Head(toDev) \in Requests /\ resp'.cmd = Head(toDev).cmd
<1>1. toDev # <<>> /\ toDev \in Seq(Requests) /\ Handle(Head(toDev))
  BY DEF DeviceStep, SysInv, HostInv
<1>2. Head(toDev) \in Requests
  BY <1>1
<1>3. QED BY <1>1, <1>2, HandleFacts

\* Every step is one of the device's operations, or leaves the device alone.
LEMMA SysStepIsDevice ==
  ASSUME SysInv, [SysNext]_sysVars
  PROVE  [Next]_vars
<1>1. CASE DeviceStep
  BY <1>1, DeviceStepFacts
<1>2. CASE PowerCycle
  <2>1. CASE UNCHANGED slot1
    BY <1>2, <2>1 DEF PowerCycle, PowerLoss, Next
  <2>2. CASE toDev # <<>> /\ CutShort(Head(toDev))
    <3>1. Head(toDev) \in Requests
      BY <2>2 DEF SysInv, HostInv
    <3>2. EraseCutShort \/ \E data \in Payload : WriteCutShort(data)
      BY <2>2, <3>1 DEF CutShort, Requests, Bare
    <3>3. QED BY <1>2, <3>2 DEF PowerCycle, PowerLoss, Next
  <2>3. QED BY <1>2, <2>1, <2>2 DEF PowerCycle
<1>3. QED BY <1>1, <1>2 DEF SysNext, HostStep, LoseRequest, CorruptData, Timeout, sysVars

LEMMA SysInvStep == SysInv /\ [SysNext]_sysVars => SysInv'
<1> SUFFICES ASSUME SysInv, [SysNext]_sysVars PROVE SysInv'
  OBVIOUS
<1>1. IInv'
  BY SysStepIsDevice, IInvStep DEF SysInv
<1> SUFFICES HostInv'
  BY <1>1 DEF SysInv
<1>2. HostInv /\ toDev \in Seq(Requests) /\ toPc \in Seq(Responses)
  BY DEF SysInv, HostInv
<1>3. CASE HostStep
  BY <1>2, <1>3, EngineStepInv, ButtonStepInv DEF HostStep, HostNext
<1>4. CASE Timeout
  BY <1>2, <1>4, EngineStepInv, ButtonStepInv DEF Timeout
<1>5. CASE DeviceStep
  <2>1. toDev # <<>> /\ toDev' = Tail(toDev)
    BY <1>5 DEF DeviceStep
  <2>2. toDev' \in Seq(Requests)
    BY <1>2, <2>1
  <2>3. resp' \in Responses
    BY <1>1 DEF IInv, TypeOK, Responses
  <2>4. toPc' = Append(toPc, resp') \/ toPc' = toPc
    BY <1>5 DEF DeviceStep
  <2>5. toPc' \in Seq(Responses)
    BY <1>2, <2>3, <2>4
  <2>6. QED BY <1>2, <1>5, <2>2, <2>5, LineStepInv DEF DeviceStep
<1>6. CASE LoseRequest
  <2>1. toDev # <<>> /\ toDev' = Tail(toDev) /\ toPc' = toPc
    BY <1>6 DEF LoseRequest
  <2>2. toDev' \in Seq(Requests)
    BY <1>2, <2>1
  <2>3. QED BY <1>2, <1>6, <2>1, <2>2, LineStepInv DEF LoseRequest
<1>7. CASE CorruptData
  BY <1>2, <1>7, CorruptFacts, LineStepInv DEF CorruptData
<1>8. CASE PowerCycle
  <2>1. toDev' = <<>> /\ toPc' = toPc
    BY <1>8 DEF PowerCycle
  <2>2. toDev' \in Seq(Requests)
    BY <2>1
  <2>3. QED BY <1>2, <1>8, <2>1, <2>2, LineStepInv DEF PowerCycle
<1>9. CASE UNCHANGED sysVars
  BY <1>2, <1>9, LineStepInv DEF sysVars, hostVars, linkVars
<1>10. QED BY <1>3, <1>4, <1>5, <1>6, <1>7, <1>8, <1>9 DEF SysNext

THEOREM SysInvariant == SysSpec => []SysInv
<1>1. SysInit => SysInv
  BY InitIInv, HostInvInit DEF SysInit, SysInv
<1>2. QED BY <1>1, SysInvStep, PTL DEF SysSpec

\* Tool and device keep their types whatever is pressed, lost, changed or late.
THEOREM SysTypeCorrect == SysSpec => []SysTypeOK
<1>1. SysInv => SysTypeOK
  BY DEF SysInv, IInv, HostInv, SysTypeOK, Thread, SoundThread, Packets, PacketCount
<1>2. QED BY <1>1, SysInvariant, PTL

\* However many upgrades run and whatever is pressed meanwhile, one thread or one
\* button at most is between a request and its answer.
THEOREM OneExchangeAtATime == SysSpec => []OneExchange
<1>1. SysInv => OneExchange
  BY DEF SysInv, HostInv
<1>2. QED BY <1>1, SysInvariant, PTL

\* The device's own invariants hold of the device in the system.
THEOREM DeviceInSystem == SysSpec => []IInv
<1>1. SysInv => IInv
  BY DEF SysInv
<1>2. QED BY <1>1, SysInvariant, PTL

-----------------------------------------------------------------------------
(* Upgrades. *)

\* No answer comes after its timeout, and nobody cancels: cancelling sends a
\* frame whose answer nobody waits for.
Timely == "late" \notin Faults /\ "cancel_upgrade" \notin Buttons

\* The exchange of a request: it is on its way, or its answer is, or one of them
\* has been lost.
Pending(req) ==
  /\ Len(toDev) + Len(toPc) <= 1
  /\ toDev # <<>> => /\ Head(toDev).cmd = req.cmd
                     /\ req.cmd # "transfer_data" => Head(toDev) = req
  /\ toPc # <<>> => Head(toPc).cmd = req.cmd

\* Between two exchanges the line is empty.
ExchangeInv ==
  /\ ~cancel_flag /\ gui[1] # "cancel_upgrade"
  /\ ~Locked => toDev = <<>> /\ toPc = <<>>
  /\ \A e \in Engines : eng[e].io = "wait" => Pending(StageRequest(e))
  /\ gui[2] = "wait" => Pending(Request(gui[1]))

\* A thread that is left alone sends what it sent.
LEMMA SameRequest ==
  ASSUME NEW e \in Engines, eng'[e].stage = eng[e].stage,
         eng'[e].image = eng[e].image, eng'[e].packet = eng[e].packet
  PROVE  StageRequest(e)' = StageRequest(e)
  BY DEF StageRequest, Declare, Packet, Request

\* A step that leaves the line alone and begins no exchange; it ends one only if
\* the line is empty.
LEMMA QuietStep ==
  ASSUME HostInv, ExchangeInv, UNCHANGED linkVars, ~cancel_flag',
         gui'[1] # "cancel_upgrade", gui'[2] = "wait" => gui' = gui,
         \A e \in Engines : eng'[e].io = "wait" => eng'[e] = eng[e],
         Locked => Locked' \/ (toDev = <<>> /\ toPc = <<>>)
  PROVE  ExchangeInv'
<1>1. toDev' = toDev /\ toPc' = toPc
  BY DEF linkVars
<1>2. \A r : Pending(r) => Pending(r)'
  BY <1>1 DEF Pending
<1>3. ~Locked' => toDev' = <<>> /\ toPc' = <<>>
  BY <1>1 DEF ExchangeInv
<1>4. ASSUME NEW e \in Engines, eng'[e].io = "wait"
      PROVE  Pending(StageRequest(e))'
  <2>1. Pending(StageRequest(e))
    BY <1>4 DEF ExchangeInv
  <2>2. StageRequest(e)' = StageRequest(e)
    BY <1>4, SameRequest
  <2>3. QED BY <1>1, <2>1, <2>2 DEF Pending
<1>5. gui'[2] = "wait" => Pending(Request(gui[1]))'
  BY <1>1 DEF ExchangeInv, Pending, Request
<1>6. QED BY <1>3, <1>4, <1>5 DEF ExchangeInv, Pending, Request

\* Who waits for an answer has the mutex alone.
LEMMA Alone ==
  ASSUME HostInv
  PROVE  /\ \A e \in Engines : eng[e].io = "wait" =>
              /\ gui[2] # "wait" /\ \A f \in Engines : eng[f].io = "wait" => f = e
         /\ gui[2] = "wait" => \A f \in Engines : eng[f].io # "wait"
  BY DEF HostInv, OneExchange

\* The only element of two sequences.
LEMMA OneInTwo ==
  ASSUME NEW S, NEW T, NEW s \in Seq(S), NEW t \in Seq(T), s # <<>>,
         Len(s) + Len(t) <= 1
  PROVE  Tail(s) = <<>> /\ t = <<>> /\ Len(s) = 1 /\ Len(t) = 0
<1>1. Len(s) \in Nat /\ Len(t) \in Nat /\ Len(s) # 0
  BY EmptySeq
<1>2. Len(s) = 1 /\ Len(t) = 0
  <2>1. \A m, n \in Nat : m # 0 /\ m + n <= 1 => m = 1 /\ n = 0
    OBVIOUS
  <2>2. QED BY <1>1, <2>1
<1>3. Tail(s) \in Seq(S) /\ Len(Tail(s)) = 0
  BY <1>2
<1>4. QED BY <1>2, <1>3, EmptySeq

\* The line after an exchange has ended: one frame at most was on it.
LEMMA Taken ==
  ASSUME HostInv, NEW req, Pending(req), toPc # <<>>
  PROVE  toDev = <<>> /\ Tail(toPc) = <<>>
<1>1. toDev \in Seq(Requests) /\ toPc \in Seq(Responses)
  BY DEF HostInv
<1>2. Len(toPc) + Len(toDev) <= 1
  BY <1>1 DEF Pending
<1>3. QED BY <1>1, <1>2, OneInTwo

LEMMA EngineExchange ==
  ASSUME HostInv, HostInv', ExchangeInv, NEW e \in Engines,
         EngineStep(e) \/ (RecvTimeout(e) /\ toDev = <<>>)
  PROVE  ExchangeInv'
<1>0. /\ eng[e] \in Thread /\ eng \in [Engines -> Thread]
      /\ toDev \in Seq(Requests) /\ toPc \in Seq(Responses)
  BY DEF HostInv
<1>1. ~cancel_flag /\ gui[1] # "cancel_upgrade"
  BY DEF ExchangeInv
<1>2. ~CheckCancelled(e) /\ ~CancelInTransfer(e)
  BY <1>1 DEF CheckCancelled, CancelInTransfer
<1>3. ASSUME Onward(e), eng[e].io # "wait", UNCHANGED <<cancel_flag, gui, linkVars>>
      PROVE  ExchangeInv'
  <2>1. PICK t \in Thread : t.io # "wait" /\ eng' = [eng EXCEPT ![e] = t]
    BY <1>3 DEF Onward, Put
  <2>2. \A f \in Engines : eng'[f].io = "wait" => eng'[f] = eng[f]
    BY <1>0, <2>1
  <2>3. Locked => Locked'
    BY <1>0, <1>3, <2>1 DEF Locked
  <2>4. QED BY <1>1, <1>3, <2>2, <2>3, QuietStep
<1>4. CASE LoadFirmware(e) \/ CheckGoOn(e) \/ NotConnected(e)
  <2>1. eng[e].io # "wait"
    BY <1>0, <1>4 DEF LoadFirmware, CheckGoOn, NotConnected, Thread, SoundThread, Stages
  <2>2. UNCHANGED <<cancel_flag, gui, linkVars>>
    BY <1>4 DEF LoadFirmware, CheckGoOn, NotConnected
  <2>3. QED BY <1>3, <1>4, <2>1, <2>2, EngineOnward
<1>5. ASSUME Onward(e), eng[e].io = "wait", UNCHANGED <<cancel_flag, gui>>,
             toDev' = <<>>, toPc' = <<>>
      PROVE  ExchangeInv'
  <2>1. PICK t \in Thread : t.io # "wait" /\ eng' = [eng EXCEPT ![e] = t]
    BY <1>5 DEF Onward, Put
  <2>2. \A f \in Engines : eng'[f].io # "wait"
    BY <1>0, <1>5, <2>1, Alone
  <2>3. gui'[2] # "wait"
    BY <1>5, Alone
  <2>4. QED BY <1>1, <1>5, <2>2, <2>3 DEF ExchangeInv
<1>6. CASE RecvFrame(e)
  <2>1. Pending(StageRequest(e)) /\ toPc # <<>> /\ eng[e].io = "wait"
    BY <1>6 DEF RecvFrame, ExchangeInv
  <2>2. toDev' = <<>> /\ toPc' = <<>>
    BY <1>6, <2>1, Taken DEF RecvFrame
  <2>3. QED BY <1>5, <1>6, <2>1, <2>2, EngineOnward DEF RecvFrame
<1>7. CASE RecvTimeout(e) /\ toDev = <<>>
  BY <1>5, <1>7, EngineOnward DEF RecvTimeout, linkVars
<1>8. CASE SendFrame(e)
  <2>1. /\ ~Locked /\ toDev' = Append(toDev, StageRequest(e)) /\ toPc' = toPc
        /\ eng' = [eng EXCEPT ![e] = [eng[e] EXCEPT !.io = "wait"]]
        /\ gui' = gui /\ cancel_flag' = cancel_flag
    BY <1>8 DEF SendFrame, Put, windowVars
  <2>2. toDev = <<>> /\ toPc = <<>>
    BY <2>1 DEF ExchangeInv
  <2>3. Len(toDev') = 1 /\ Head(toDev') = StageRequest(e) /\ toPc' = <<>> /\ Len(toPc') = 0
    BY <2>1, <2>2
  <2>4. /\ eng'[e].stage = eng[e].stage /\ eng'[e].image = eng[e].image
        /\ eng'[e].packet = eng[e].packet /\ eng'[e].io = "wait"
        /\ \A f \in Engines : f # e => eng'[f].io # "wait"
    BY <1>0, <2>1 DEF Locked, Thread, Engine
  <2>5. StageRequest(e)' = StageRequest(e)
    BY <2>4, SameRequest
  <2>6. Pending(StageRequest(e))'
    BY <2>3, <2>5 DEF Pending
  <2>7. Locked' /\ gui'[2] # "wait"
    BY <2>1, <2>4 DEF Locked
  <2>8. QED BY <1>1, <2>1, <2>4, <2>6, <2>7 DEF ExchangeInv
<1>9. QED BY <1>2, <1>4, <1>6, <1>7, <1>8 DEF EngineStep

LEMMA ButtonExchange ==
  ASSUME Timely, HostInv, HostInv', ExchangeInv,
         \/ PressStart \/ (\E cmd \in Buttons : PressOther(cmd)) \/ CommandStep
         \/ ButtonTimeout /\ toDev = <<>>
  PROVE  ExchangeInv'
<1>0. /\ eng \in [Engines -> Thread] /\ gui \in Gui
      /\ toDev \in Seq(Requests) /\ toPc \in Seq(Responses)
      /\ ~cancel_flag /\ gui[1] # "cancel_upgrade"
  BY DEF HostInv, ExchangeInv
<1>1. CASE PressStart \/ \E cmd \in Buttons : PressOther(cmd)
  <2>1. PICK cmd : /\ cmd # "cancel_upgrade" /\ gui = NoButton /\ gui' = <<cmd, "lock">>
                   /\ cancel_flag' = (cancel_flag \/ cmd = "cancel_upgrade")
                   /\ UNCHANGED <<eng, linkVars>>
    BY <1>1 DEF PressStart, PressOther, Press, Timely
  <2>2. ~cancel_flag' /\ gui'[1] # "cancel_upgrade" /\ gui'[2] = "lock" /\ gui[2] = "idle"
    BY <1>0, <2>1 DEF NoButton
  <2>3. Locked => Locked'
    BY <2>1, <2>2 DEF Locked
  <2>4. QED BY <2>1, <2>2, <2>3, QuietStep
<1>2. ASSUME ~Locked, gui' = NoButton, ~cancel_flag', toDev' = <<>>, toPc' = <<>>,
             \A e \in Engines : eng'[e].io # "wait"
      PROVE  ExchangeInv'
  BY <1>2 DEF ExchangeInv, NoButton
<1>3. ASSUME NEW e \in Engines, RunUpgrade(e) PROVE ExchangeInv'
  <2>1. ~Locked /\ gui' = NoButton /\ toDev' = <<>> /\ toPc' = <<>> /\ ~cancel_flag'
    BY <1>0, <1>3 DEF RunUpgrade, Executes, Returns, ExchangeInv, linkVars
  <2>2. \A f \in Engines : eng[f].io # "wait"
    BY <2>1 DEF Locked
  <2>3. eng' = eng \/ \E chosen \in Images :
                       eng' = [eng EXCEPT ![e] = [eng[e] EXCEPT !.stage = "Loading", !.image = chosen]]
    BY <1>3 DEF RunUpgrade, Put
  <2>4. \A f \in Engines : eng'[f].io # "wait"
    <3>1. CASE eng' = eng
      BY <2>2, <3>1
    <3>2. ASSUME NEW chosen \in Images, NEW f \in Engines,
                 eng' = [eng EXCEPT ![e] = [eng[e] EXCEPT !.stage = "Loading", !.image = chosen]]
          PROVE  eng'[f].io # "wait"
      <4> DEFINE t == [eng[e] EXCEPT !.stage = "Loading", !.image = chosen]
      <4>1. eng[e] \in Engine /\ e \in Engines
        BY <1>0 DEF Thread
      <4>2. t.io = eng[e].io
        BY <4>1 DEF Engine
      <4>3. eng'[f] = IF f = e THEN t ELSE eng[f]
        BY <1>0, <3>2
      <4> QED BY <2>2, <4>1, <4>2, <4>3
    <3> QED BY <2>3, <3>1, <3>2
  <2>5. QED BY <1>2, <2>1, <2>4
<1>4. CASE Disconnect \/ Connect \/ ButtonNotConnected
  <2>1. ~Locked /\ gui' = NoButton /\ UNCHANGED <<eng, cancel_flag, toDev>>
    BY <1>4 DEF Disconnect, Connect, ButtonNotConnected, Executes, Returns, linkVars
  <2>2. toPc' = toPc \/ toPc' = <<>>
    BY <1>4 DEF Disconnect, Connect, ButtonNotConnected, linkVars
  <2>3. QED BY <1>0, <1>2, <2>1, <2>2 DEF ExchangeInv, Locked
<1>5. CASE ButtonSend
  <2>1. /\ ~Locked /\ toDev' = Append(toDev, Request(gui[1])) /\ toPc' = toPc
        /\ gui' = <<gui[1], "wait">> /\ eng' = eng /\ cancel_flag' = cancel_flag
    BY <1>5 DEF ButtonSend, Executes
  <2>2. toDev = <<>> /\ toPc = <<>>
    BY <2>1 DEF ExchangeInv
  <2>3. /\ Len(toDev') = 1 /\ Head(toDev') = Request(gui[1])
        /\ toPc' = <<>> /\ Len(toPc') = 0 /\ gui'[1] = gui[1] /\ gui'[2] = "wait"
    BY <2>1, <2>2
  <2>4. Pending(Request(gui[1]))'
    BY <2>3 DEF Pending, Request
  <2>5. Locked' /\ \A e \in Engines : eng'[e].io # "wait"
    BY <2>1, <2>3 DEF Locked
  <2>6. QED BY <1>0, <2>1, <2>3, <2>4, <2>5 DEF ExchangeInv
<1>6. CASE ButtonRecv \/ (ButtonTimeout /\ toDev = <<>>)
  <2>1. gui[2] = "wait" /\ gui' = NoButton /\ eng' = eng /\ cancel_flag' = cancel_flag
    BY <1>6 DEF ButtonRecv, ButtonTimeout, Returns
  <2>2. toDev' = <<>> /\ toPc' = <<>>
    <3>1. CASE ButtonTimeout /\ toDev = <<>>
      BY <3>1 DEF ButtonTimeout, linkVars
    <3>2. CASE ButtonRecv
      <4>1. Pending(Request(gui[1])) /\ toPc # <<>>
        BY <2>1, <3>2 DEF ButtonRecv, ExchangeInv
      <4>2. QED BY <3>2, <4>1, Taken DEF ButtonRecv
    <3>3. QED BY <1>6, <3>1, <3>2
  <2>3. \A e \in Engines : eng'[e].io # "wait"
    BY <2>1, Alone
  <2>4. QED BY <1>0, <2>1, <2>2, <2>3 DEF ExchangeInv, NoButton
<1>7. QED BY <1>1, <1>3, <1>4, <1>5, <1>6 DEF CommandStep

\* The line and the device keep an exchange one.
LEMMA LineExchange ==
  ASSUME SysInv, ExchangeInv,
         DeviceStep \/ LoseRequest \/ CorruptData \/ PowerCycle
  PROVE  ExchangeInv'
<1>0. /\ HostInv /\ toDev \in Seq(Requests) /\ toPc \in Seq(Responses)
      /\ UNCHANGED <<eng, gui, cancel_flag>>
  BY DEF SysInv, HostInv, DeviceStep, LoseRequest, CorruptData, PowerCycle, windowVars
<1>1. ASSUME NEW req, Pending(req) PROVE Pending(req)'
  <2>1. CASE DeviceStep
    <3>1. toDev # <<>> /\ toDev' = Tail(toDev) /\ Len(toDev) + Len(toPc) <= 1
      BY <1>1, <2>1 DEF DeviceStep, Pending
    <3>3. toDev' = <<>> /\ Len(toDev') = 0 /\ toPc = <<>>
      BY <1>0, <3>1, OneInTwo
    <3>4. resp'.cmd = req.cmd
      BY <1>1, <2>1, <3>1, DeviceStepFacts DEF Pending
    <3>5. toPc' = <<resp'>> \/ toPc' = <<>>
      BY <2>1, <3>3 DEF DeviceStep
    <3>6. Len(toPc') <= 1 /\ (toPc' # <<>> => Head(toPc') = resp')
      BY <3>5
    <3>7. QED BY <3>3, <3>4, <3>6 DEF Pending
  <2>2. CASE LoseRequest
    <3>1. toDev # <<>> /\ toDev' = Tail(toDev) /\ toPc' = toPc /\ Len(toDev) + Len(toPc) <= 1
      BY <1>1, <2>2 DEF LoseRequest, Pending
    <3>2. toDev' = <<>> /\ Len(toDev') = 0 /\ Len(toPc') = 0 /\ toPc' = <<>>
      BY <1>0, <3>1, OneInTwo
    <3>3. QED BY <3>2 DEF Pending
  <2>3. CASE CorruptData
    <3>1. req.cmd = "transfer_data"
      BY <1>0, <1>1, <2>3, CorruptFacts DEF Pending
    <3>2. QED BY <1>0, <1>1, <2>3, <3>1, CorruptFacts DEF Pending, CorruptData
  <2>4. CASE PowerCycle
    <3>1. toDev' = <<>> /\ toPc' = toPc
      BY <2>4 DEF PowerCycle
    <3>2. Len(toDev') = 0 /\ Len(toPc') <= 1
      BY <1>0, <1>1, <3>1 DEF Pending
    <3>3. QED BY <1>1, <3>1, <3>2 DEF Pending
  <2>5. QED BY <2>1, <2>2, <2>3, <2>4
<1>2. ASSUME NEW e \in Engines, eng'[e].io = "wait" PROVE Pending(StageRequest(e))'
  <2>1. Pending(StageRequest(e)) /\ StageRequest(e)' = StageRequest(e)
    BY <1>0, <1>2, SameRequest DEF ExchangeInv
  <2> DEFINE req == StageRequest(e)
  <2>2. Pending(req)'
    BY <1>1, <2>1
  <2>3. QED BY <2>1, <2>2 DEF Pending
<1>3. gui'[2] = "wait" => Pending(Request(gui[1]))'
  BY <1>0, <1>1 DEF ExchangeInv
<1>4. ~Locked' => toDev' = <<>> /\ toPc' = <<>>
  <2>1. ASSUME ~Locked PROVE toDev' = <<>> /\ toPc' = <<>>
    <3>1. toDev = <<>> /\ toPc = <<>>
      BY <2>1 DEF ExchangeInv
    <3>2. QED BY <3>1, CorruptFacts DEF DeviceStep, LoseRequest, CorruptData, PowerCycle
  <2>2. Locked' = Locked
    BY <1>0 DEF Locked
  <2>3. QED BY <2>1, <2>2
<1>5. QED BY <1>0, <1>2, <1>3, <1>4 DEF ExchangeInv

LEMMA ExchangeStep ==
  ASSUME Timely, SysInv, SysInv', ExchangeInv, [SysNext]_sysVars
  PROVE  ExchangeInv'
<1>0. HostInv /\ HostInv'
  BY DEF SysInv
<1>1. CASE HostStep
  BY <1>0, <1>1, EngineExchange, ButtonExchange DEF HostStep, HostNext
<1>2. CASE Timeout
  BY <1>0, <1>2, EngineExchange, ButtonExchange DEF Timeout, Timely
<1>3. CASE DeviceStep \/ LoseRequest \/ CorruptData \/ PowerCycle
  BY <1>3, LineExchange
<1>4. CASE UNCHANGED sysVars
  BY <1>4 DEF sysVars, hostVars, windowVars, linkVars, ExchangeInv, Locked, Pending,
              StageRequest, Declare, Packet, Request
<1>5. QED BY <1>1, <1>2, <1>3, <1>4 DEF SysNext

LEMMA ExchangeInit == HostInit => ExchangeInv
  BY DEF HostInit, ExchangeInv, NoThread, NoButton, Locked

THEOREM OneFrameOnTheLine ==
  ASSUME Timely
  PROVE  SysSpec => []ExchangeInv
<1>1. SysInit => ExchangeInv
  BY ExchangeInit DEF SysInit
<1>2. SysInv /\ SysInv' /\ ExchangeInv /\ [SysNext]_sysVars => ExchangeInv'
  BY ExchangeStep
<1>3. QED BY <1>1, <1>2, SysInvariant, PTL DEF SysSpec

\* If no answer comes after its timeout and nobody cancels, whatever is lost,
\* changed or restarted: an engine or a button takes for its answer only the
\* answer to its request.
THEOREM AnswersAnswer ==
  ASSUME Timely
  PROVE  SysSpec => AnswersMatch
<1> DEFINE A == /\ \A e \in Engines :
                     eng[e].io = "wait" /\ eng'[e].io # "wait" /\ toPc # <<>>
                       => Head(toPc).cmd = StageRequest(e).cmd
                /\ gui[2] = "wait" /\ gui' = NoButton /\ toPc # <<>>
                     => Head(toPc).cmd = gui[1]
<1>1. ExchangeInv => A
  BY DEF ExchangeInv, Pending, Request
<1>2. QED BY <1>1, OneFrameOnTheLine, PTL DEF AnswersMatch

-----------------------------------------------------------------------------
(* What the answers say of the slot.                                       *)

\* A "verify OK" under way speaks of a file that the slot holds, whatever has
\* happened since, and what is staged was declared with the CRC of a file.
AnswerInv ==
  /\ toPc # <<>> /\ Head(toPc).cmd = "verify_firmware" =>
       /\ Head(toPc).len = 5
       /\ Head(toPc).code = 0 => \E i \in Images : IsPrefixOf(i, slot1)
  /\ in_progress => firmware_crc \in Images

\* What a request does to the declaration and to the slot.
LEMMA HandleEffect ==
  ASSUME NEW req \in Requests, Handle(req)
  PROVE  /\ in_progress' => in_progress \/ req.cmd = "start_upgrade"
         /\ in_progress' /\ firmware_crc' # firmware_crc =>
              req.cmd \in {"start_upgrade", "transfer_done"} /\ firmware_crc' = req.crc
         /\ in_progress' /\ ~in_progress => firmware_crc' = req.crc
         /\ req.cmd = "start_upgrade" /\ resp'.code = 0 => firmware_crc' = req.crc
         /\ req.cmd \notin {"start_upgrade", "transfer_data"} => slot1' = slot1
         /\ req.cmd = "verify_firmware" => resp'.len = 5
<1> USE DEF Reply, deviceVars, transferVars, declaredVars
<1>1. CASE req.cmd \in {"handshake", "get_dev_info", "get_log"}
  BY <1>1 DEF Handle, Handshake, GetDevInfo, UnknownCommand
<1>2. CASE req.cmd = "start_upgrade"
  <2>1. StartUpgrade(req.size, req.crc)
    BY <1>2 DEF Handle
  <2>2. CASE StartUpgradeBusy
    BY <1>2, <2>2 DEF StartUpgradeBusy
  <2>3. CASE StartUpgradeTooBig(req.size, req.crc) \/ StartUpgradeErase(req.size, req.crc)
    <3>1. firmware_crc' = req.crc
      BY <2>3 DEF StartUpgradeTooBig, StartUpgradeErase
    <3>2. QED BY <1>2, <3>1
  <2>4. QED BY <2>1, <2>2, <2>3 DEF StartUpgrade
<1>3. CASE req.cmd = "transfer_data"
  <2>1. TransferData(req.off, req.data)
    BY <1>3 DEF Handle
  <2>2. in_progress' = in_progress /\ firmware_crc' = firmware_crc
    BY <2>1 DEF TransferData, TransferRefused, TransferAccepted, TransferFails, TransferWrite
  <2>3. QED BY <1>3, <2>2
<1>4. CASE req.cmd = "transfer_done"
  <2>1. TransferDone(req.size, req.crc)
    BY <1>4 DEF Handle
  <2>2. /\ in_progress' = in_progress /\ slot1' = slot1
        /\ firmware_crc' = firmware_crc \/ firmware_crc' = req.crc
    BY <2>1 DEF TransferDone
  <2>3. QED BY <1>4, <2>2
<1>5. CASE req.cmd = "verify_firmware"
  <2>1. VerifyFirmware
    BY <1>5 DEF Handle
  <2>2. /\ in_progress' = in_progress /\ slot1' = slot1 /\ firmware_crc' = firmware_crc
        /\ resp'.len = 5
    BY <2>1 DEF VerifyFirmware
  <2>3. QED BY <1>5, <2>2
<1>6. CASE req.cmd = "reset_run"
  BY <1>6 DEF Handle, ResetRun, Reboot
<1>7. CASE req.cmd = "cancel_upgrade"
  BY <1>7 DEF Handle, CancelUpgrade
<1>8. CASE req.cmd = "set_boot_flag"
  BY <1>8 DEF Handle, SetBootFlag
<1>9. QED BY <1>1, <1>2, <1>3, <1>4, <1>5, <1>6, <1>7, <1>8 DEF Handle

\* A step of the tool, a timeout, a lost or a changed request: the device is as it
\* was, and an answer is taken, dropped or left.
LEMMA HostSideStep ==
  ASSUME SysInv, ExchangeInv, HostStep \/ Timeout \/ LoseRequest \/ CorruptData
  PROVE  UNCHANGED vars /\ (toPc' = toPc \/ toPc' = <<>>)
<1>1. UNCHANGED vars
  BY DEF HostStep, Timeout, LoseRequest, CorruptData
<1>2. ASSUME NEW e \in Engines, RecvFrame(e) PROVE toPc' = <<>>
  <2>1. Pending(StageRequest(e)) /\ toPc # <<>> /\ toPc' = Tail(toPc)
    BY <1>2 DEF RecvFrame, ExchangeInv
  <2>2. QED BY <2>1, Taken DEF SysInv
<1>3. ASSUME ButtonRecv PROVE toPc' = <<>>
  <2>1. Pending(Request(gui[1])) /\ toPc # <<>> /\ toPc' = Tail(toPc)
    BY <1>3 DEF ButtonRecv, ExchangeInv
  <2>2. QED BY <2>1, Taken DEF SysInv
<1>4. ASSUME NEW e \in Engines, EngineStep(e) PROVE toPc' = toPc \/ toPc' = <<>>
  BY <1>2, <1>4 DEF EngineStep, LoadFirmware, CheckCancelled, CancelInTransfer, CheckGoOn,
                    SendFrame, NotConnected, linkVars
<1>5. CASE HostStep
  BY <1>1, <1>3, <1>4, <1>5 DEF HostStep, HostNext, CommandStep, PressStart, PressOther,
     Press, RunUpgrade, Disconnect, Connect, ButtonSend, ButtonNotConnected, linkVars
<1>6. CASE Timeout \/ LoseRequest \/ CorruptData
  BY <1>1, <1>6 DEF Timeout, RecvTimeout, ButtonTimeout, LoseRequest, CorruptData, linkVars
<1>7. QED BY <1>5, <1>6

\* The device answers when no other answer is under way.
LEMMA DeviceAnswers ==
  ASSUME SysInv, ExchangeInv, DeviceStep
  PROVE  toPc = <<>> /\ (toPc' = <<>> \/ toPc' = <<resp'>>)
<1>1. HostInv /\ toDev \in Seq(Requests) /\ toPc \in Seq(Responses) /\ toDev # <<>>
  BY DEF SysInv, HostInv, DeviceStep
<1>2. PICK req : Pending(req)
  BY <1>1 DEF ExchangeInv, Locked
<1>3. Len(toDev) + Len(toPc) <= 1
  BY <1>2 DEF Pending
<1>4. toPc = <<>>
  BY <1>1, <1>3, OneInTwo
<1>5. toPc' = Append(toPc, resp') \/ toPc' = toPc
  BY DEF DeviceStep
<1>6. QED BY <1>4, <1>5

\* While an answer is under way no request is.
LEMMA AnswerAlone ==
  ASSUME SysInv, ExchangeInv, toPc # <<>>
  PROVE  toDev = <<>>
<1>1. toDev \in Seq(Requests) /\ toPc \in Seq(Responses)
  BY DEF SysInv, HostInv
<1>2. PICK req : Pending(req)
  BY DEF ExchangeInv, Locked
<1>3. Len(toDev) + Len(toPc) <= 1
  BY <1>2 DEF Pending
<1>4. QED BY <1>1, <1>3, OneInTwo

\* A sequence begins with what its first n elements read.
LEMMA BeginsWith ==
  ASSUME NEW s \in [1 .. SlotSize -> Byte], NEW n \in Nat, n <= SlotSize
  PROVE  IsPrefixOf([i \in 1 .. n |-> s[i]], s)
<1>1. s \in Seq(Byte) /\ Len(s) = SlotSize /\ SlotSize \in Nat
  BY ConstantsAssumption
<1> DEFINE p == [i \in 1 .. n |-> s[i]]
<1>2. \A i \in 1 .. n : i \in 1 .. SlotSize
  BY <1>1
<1>3. p \in [1 .. n -> Byte]
  BY <1>2
<1>4. Len(p) = n
  BY <1>3
<1>5. SubSeq(s, 1, n) = p
  BY <1>1
<1>6. QED BY <1>1, <1>4, <1>5 DEF IsPrefixOf

\* What "verify OK" says when the device says it: the slot holds the declared image.
LEMMA VerifyStores ==
  ASSUME IInv', resp'.cmd = "verify_firmware", resp'.code = 0
  PROVE  in_progress' /\ IsPrefixOf(firmware_crc', slot1')
<1>1. /\ status' = "VERIFYING" /\ firmware_size' = received_size'
      /\ firmware_crc' = Prefix(firmware_size)'
  BY DEF IInv, VerifiedIsStored
<1>2. in_progress'
  BY <1>1 DEF IInv, InProgressMatchesStatus
<1>3. /\ slot1' \in [1 .. SlotSize -> Byte]
      /\ firmware_size' \in Nat /\ firmware_size' <= SlotSize
  BY <1>1, <1>2 DEF IInv, SlotHoldsReceived, TypeOK, Word
<1>4. QED BY <1>1, <1>2, <1>3, BeginsWith DEF Prefix

LEMMA AnswerStep ==
  ASSUME SysInv, SysInv', ExchangeInv, AnswerInv, [SysNext]_sysVars
  PROVE  AnswerInv'
<1>0. ASSUME UNCHANGED <<in_progress, firmware_crc, slot1>>, toPc' = toPc \/ toPc' = <<>>
      PROVE  AnswerInv'
  BY <1>0 DEF AnswerInv, IsPrefixOf
<1>1. CASE HostStep \/ Timeout \/ LoseRequest \/ CorruptData
  BY <1>0, <1>1, HostSideStep DEF vars, deviceVars, declaredVars
<1>2. CASE UNCHANGED sysVars
  BY <1>0, <1>2 DEF sysVars, vars, deviceVars, declaredVars, hostVars, linkVars
<1>3. CASE DeviceStep
  <2> DEFINE req == Head(toDev)
  <2>1. req \in Requests /\ Handle(req) /\ resp'.cmd = req.cmd
    BY <1>3, DeviceStepFacts DEF DeviceStep
  <2>2. toPc' # <<>> => Head(toPc') = resp'
    <3>1. toPc' = <<>> \/ toPc' = <<resp'>>
      BY <1>3, DeviceAnswers
    <3>2. QED BY <3>1
  <2>3. req.cmd \in {"start_upgrade", "transfer_done"} => req.crc \in Images
    BY <2>1 DEF Requests, Bare
  <2>4. resp'.cmd = "verify_firmware" => resp'.len = 5
    BY <2>1, HandleEffect
  <2>5. in_progress' => firmware_crc' \in Images
    BY <2>1, <2>3, HandleEffect DEF AnswerInv
  <2>6. ASSUME toPc' # <<>>, Head(toPc').cmd = "verify_firmware", Head(toPc').code = 0
        PROVE  \E i \in Images : IsPrefixOf(i, slot1)'
    <3>1. in_progress' /\ IsPrefixOf(firmware_crc', slot1')
      BY <2>2, <2>6, VerifyStores DEF SysInv
    <3>2. PICK i \in Images : i = firmware_crc'
      BY <2>5, <3>1
    <3>3. IsPrefixOf(i, slot1)'
      BY <3>1, <3>2 DEF IsPrefixOf
    <3>4. QED BY <3>3
  <2>7. QED BY <2>2, <2>4, <2>5, <2>6 DEF AnswerInv
<1>4. CASE PowerCycle
  <2>1. in_progress' = FALSE /\ toPc' = toPc
    BY <1>4 DEF PowerCycle, Reboot
  <2>2. toPc # <<>> => slot1' = slot1
    BY <1>4, AnswerAlone DEF PowerCycle
  <2>3. QED BY <2>1, <2>2 DEF AnswerInv, IsPrefixOf
<1>5. QED BY <1>1, <1>2, <1>3, <1>4 DEF SysNext

LEMMA AnswerAlways ==
  ASSUME Timely
  PROVE  SysSpec => [](SysInv /\ ExchangeInv /\ AnswerInv)
<1>1. SysInit => AnswerInv
  BY DEF SysInit, Init, HostInit, AnswerInv
<1>2. SysInv /\ SysInv' /\ ExchangeInv /\ AnswerInv /\ [SysNext]_sysVars => AnswerInv'
  BY AnswerStep
<1>3. SysSpec => []ExchangeInv
  BY OneFrameOnTheLine
<1>4. QED BY <1>1, <1>2, <1>3, SysInvariant, PTL DEF SysSpec

\* An engine that goes on from its verification has read "verify OK".
LEMMA VerifyRead ==
  ASSUME SysInv, ExchangeInv, AnswerInv, NEW e \in Engines, RecvFrame(e),
         eng[e].stage = "Verifying", eng'[e].stage = "SettingBootFlag"
  PROVE  /\ toPc # <<>> /\ eng[e].io = "wait"
         /\ Head(toPc).cmd = "verify_firmware" /\ Head(toPc).code = 0
<1> DEFINE r == Head(toPc)
<1>1. /\ Pending(StageRequest(e)) /\ toPc # <<>> /\ Digest(e, r)
      /\ eng \in [Engines -> Thread] /\ eng[e].io = "wait"
  BY DEF RecvFrame, ExchangeInv, SysInv, HostInv
<1>2. r.cmd = "verify_firmware" /\ r.len = 5
  BY <1>1 DEF Pending, AnswerInv, StageRequest, Request
<1> HIDE DEF r
<1>3. r.code = 0
  <2>1. SUFFICES ASSUME r.code # 0 PROVE FALSE
    OBVIOUS
  <2>2. ~IsError(r)
    BY <1>2 DEF IsError
  <2>3. FailShown(e)
    <3>1. Verified(e, r)
      BY <1>1, <2>2 DEF Digest
    <3>2. QED BY <1>2, <2>1, <3>1 DEF Verified
  <2>4. eng'[e].stage = "PollingLogs"
    BY <1>1, <2>3 DEF FailShown, PollThen, Put, Thread, Engine
  <2>5. QED BY <2>4
<1>4. QED BY <1>1, <1>2, <1>3 DEF r

-----------------------------------------------------------------------------
(* Where a thread's step leads. *)

\* Past its verification, and not failing.
Done(e) == \/ eng[e].stage \in {"SettingBootFlag", "Resetting"}
           \/ eng[e].stage = "PollingLogs" /\ eng[e].then = "Resetting"

\* The threads other than f are left alone.
OnlyMoves(f) == \A e \in Engines : e # f => eng'[e] = eng[e]

\* It reports an error, now or after poll_logs.
GivesUp(e) ==
  /\ \/ eng'[e].stage = "PollingLogs" /\ eng'[e].then \in {"Error", "Failing"}
     \/ eng'[e].stage = "Idle"
  /\ shown' # "Complete" \/ shown' = shown

\* It enters a stage before any packet is sent.
Begins(e) ==
  /\ eng'[e].stage \in {"Handshaking", "GettingDeviceInfo", "Erasing"}
  /\ eng'[e].io = "check" /\ shown' # "Complete"

\* The device has accepted the start.
Accepted(e) ==
  /\ RecvFrame(e) /\ eng[e].stage = "Erasing" /\ Head(toPc).code = 0
  /\ eng'[e].stage = "Transferring" /\ shown' # "Complete"

\* From the packets to "transfer done", from there to the verification.
Proceeds(e) ==
  /\ eng[e].stage \in {"Transferring", "Completing"}
  /\ eng'[e].stage \in {"Completing", "Verifying"} /\ shown' # "Complete"

Passes(e) ==
  /\ RecvFrame(e) /\ eng[e].stage = "Verifying"
  /\ eng'[e].stage = "SettingBootFlag" /\ shown' # "Complete"

\* After the verification: the boot flag, the logs, the reset.
Finishes(e) ==
  Done(e) /\ Done(e)' /\ (shown' # "Complete" \/ shown' = shown)

Completes(e) ==
  Done(e) /\ eng'[e].stage = "Idle" /\ shown' = "Complete" /\ RecvFrame(e)

\* It stays in its stage.
Stays(e) ==
  /\ eng'[e].stage = eng[e].stage /\ eng'[e].then = eng[e].then
  /\ eng[e].stage \in Stages \cup {"PollingLogs"}
  /\ shown' = "Transferring" \/ shown' = shown

Moves(e) == \/ GivesUp(e) \/ Begins(e) \/ Accepted(e) \/ Proceeds(e) \/ Passes(e)
            \/ Finishes(e) \/ Completes(e) \/ Stays(e)

\* What the helpers of the engine do to the thread's record.
LEMMA GotoEffect ==
  ASSUME HostInv, NEW e \in Engines, NEW s, Goto(e, s)
  PROVE  /\ eng'[e].stage = s /\ eng'[e].io = "check" /\ eng'[e].image = eng[e].image
         /\ OnlyMoves(e) /\ shown' = s
  BY DEF Goto, Put, OnlyMoves, HostInv, Thread, Engine

LEMMA PollEffect ==
  ASSUME HostInv, NEW e \in Engines, NEW s, PollThen(e, s)
  PROVE  /\ eng'[e].stage = "PollingLogs" /\ eng'[e].then = s /\ eng'[e].io = "lock"
         /\ eng'[e].image = eng[e].image /\ OnlyMoves(e)
  BY DEF PollThen, Put, OnlyMoves, HostInv, Thread, Engine

LEMMA EndEffect ==
  ASSUME HostInv, NEW e \in Engines, NEW s, End(e, s)
  PROVE  eng'[e].stage = "Idle" /\ OnlyMoves(e) /\ shown' = s /\ eng'[e].io = "check"
  BY DEF End, Put, OnlyMoves, HostInv, NoThread

\* A move leaves the file and the other threads alone, and only SendFrame begins
\* to wait.
Kept(e) == /\ OnlyMoves(e)
           /\ Alive(e)' => eng'[e].image = eng[e].image
           /\ eng'[e].io # "wait"

LEMMA FailMoves ==
  ASSUME HostInv, NEW e \in Engines, Fail(e) \/ FailShown(e)
  PROVE  GivesUp(e) /\ Kept(e)
<1>1. PollThen(e, "Error") /\ (shown' = shown \/ shown' = "Error")
  BY DEF Fail, FailShown
<1>2. QED BY <1>1, PollEffect DEF GivesUp, Kept

LEMMA GotoMoves ==
  ASSUME HostInv, NEW e \in Engines, NEW s \in Stages, Goto(e, s)
  PROVE  /\ eng'[e].stage = s /\ eng'[e].io = "check" /\ shown' # "Complete"
         /\ Kept(e)
  BY GotoEffect DEF Kept, Stages

LEMMA PolledMoves ==
  ASSUME HostInv, NEW e \in Engines, eng[e].stage = "PollingLogs", Polled(e)
  PROVE  (GivesUp(e) \/ Finishes(e)) /\ Kept(e)
<1>1. eng[e].then \in {"Error", "Failing", "Resetting"}
  BY DEF HostInv, Thread, Engine
<1>2. CASE eng[e].then = "Failing"
  BY <1>2, FailMoves DEF Polled
<1>3. CASE eng[e].then = "Error"
  <2>1. End(e, "Error")
    BY <1>3 DEF Polled
  <2>2. QED BY <2>1, EndEffect DEF GivesUp, Kept, Alive
<1>4. CASE eng[e].then = "Resetting"
  <2>1. Goto(e, "Resetting")
    BY <1>4 DEF Polled
  <2>2. QED BY <1>4, <2>1, GotoMoves DEF Finishes, Done, Stages
<1>5. QED BY <1>1, <1>2, <1>3, <1>4

LEMMA RecvMoves ==
  ASSUME HostInv, NEW e \in Engines, RecvFrame(e)
  PROVE  Moves(e) /\ Kept(e)
<1> DEFINE r == Head(toPc)
<1>0. eng[e] \in Thread /\ eng[e].io = "wait" /\ Digest(e, r)
  BY DEF RecvFrame, HostInv
<1>1. eng[e].stage \in Stages \cup {"PollingLogs"}
  BY <1>0 DEF Thread, SoundThread
<1> HIDE DEF r
<1>2. CASE eng[e].stage = "PollingLogs"
  <2>1. Polled(e)
    BY <1>0, <1>2 DEF Digest, Stages
  <2>2. QED BY <1>2, <2>1, PolledMoves DEF Moves
<1>3. CASE eng[e].stage = "SettingBootFlag"
  <2>1. PollThen(e, IF IsError(r) THEN "Failing" ELSE "Resetting") /\ shown' = shown
    BY <1>0, <1>3 DEF Digest
  <2>2. CASE IsError(r)
    BY <2>1, <2>2, PollEffect DEF Moves, GivesUp, Kept
  <2>3. CASE ~IsError(r)
    BY <1>3, <2>1, <2>3, PollEffect DEF Moves, Finishes, Done, Kept
  <2>4. QED BY <2>2, <2>3
<1>4. CASE eng[e].stage \in Stages \ {"SettingBootFlag"} /\ IsError(r)
  <2>1. Fail(e)
    BY <1>0, <1>4 DEF Digest, Stages
  <2>2. QED BY <2>1, FailMoves DEF Moves
<1>5. CASE ~IsError(r)
  <2>1. CASE eng[e].stage = "Handshaking"
    <3>1. Goto(e, "GettingDeviceInfo")
      BY <1>0, <1>5, <2>1 DEF Digest
    <3>2. QED BY <3>1, GotoMoves DEF Moves, Begins, Stages
  <2>2. CASE eng[e].stage = "GettingDeviceInfo"
    <3>1. FailShown(e) \/ Goto(e, "Erasing")
      BY <1>0, <1>5, <2>2 DEF Digest
    <3>2. QED BY <3>1, FailMoves, GotoMoves DEF Moves, Begins, Stages
  <2>3. CASE eng[e].stage = "Erasing"
    <3>1. Fail(e) \/ (r.code = 0 /\ Goto(e, "Transferring"))
      BY <1>0, <1>5, <2>3 DEF Digest
    <3>2. CASE Fail(e)
      BY <3>2, FailMoves DEF Moves
    <3>3. CASE r.code = 0 /\ Goto(e, "Transferring")
      BY <2>3, <3>3, GotoMoves DEF Moves, Accepted, Stages, r
    <3>4. QED BY <3>1, <3>2, <3>3
  <2>4. CASE eng[e].stage = "Transferring"
    <3>1. /\ Put(e, [eng[e] EXCEPT !.packet = @ + 1, !.io = "check", !.attempt = 1])
          /\ shown' = "Transferring"
      BY <1>0, <1>5, <2>4 DEF Digest
    <3>2. /\ eng'[e].stage = eng[e].stage /\ eng'[e].then = eng[e].then
          /\ eng'[e].image = eng[e].image /\ eng'[e].io = "check" /\ OnlyMoves(e)
      BY <3>1 DEF Put, OnlyMoves, HostInv, Thread, Engine
    <3>3. QED BY <2>4, <3>1, <3>2 DEF Moves, Stays, Kept, Stages
  <2>5. CASE eng[e].stage = "Completing"
    <3>1. Goto(e, "Verifying")
      BY <1>0, <1>5, <2>5 DEF Digest
    <3>2. QED BY <2>5, <3>1, GotoMoves DEF Moves, Proceeds, Stages
  <2>6. CASE eng[e].stage = "Verifying"
    <3>1. FailShown(e) \/ Goto(e, "SettingBootFlag")
      BY <1>0, <1>5, <2>6 DEF Digest, Verified
    <3>2. QED BY <2>6, <3>1, FailMoves, GotoMoves DEF Moves, Passes, Stages
  <2>7. CASE eng[e].stage = "Resetting"
    <3>1. End(e, "Complete")
      BY <1>0, <1>5, <2>7 DEF Digest
    <3>2. QED BY <2>7, <3>1, EndEffect DEF Moves, Completes, Done, Kept, Alive
  <2>8. QED BY <1>1, <1>2, <1>3, <2>1, <2>2, <2>3, <2>4, <2>5, <2>6, <2>7 DEF Stages
<1>6. QED BY <1>1, <1>2, <1>3, <1>4, <1>5

LEMMA NoAnswerMoves ==
  ASSUME HostInv, NEW e \in Engines, eng[e].io # "check", NoAnswer(e)
  PROVE  Moves(e) /\ Kept(e)
<1>1. eng[e] \in Thread /\ eng[e].stage \in Stages \cup {"PollingLogs"}
  BY DEF HostInv, Thread, SoundThread
<1>2. CASE eng[e].stage = "PollingLogs"
  BY <1>2, PolledMoves DEF NoAnswer, Moves
<1>3. CASE eng[e].stage # "PollingLogs" /\ eng[e].attempt < MaxRetries
  <2>1. Put(e, [eng[e] EXCEPT !.io = "check", !.attempt = @ + 1]) /\ shown' = shown
    BY <1>3 DEF NoAnswer
  <2>2. /\ eng'[e].stage = eng[e].stage /\ eng'[e].then = eng[e].then
        /\ eng'[e].image = eng[e].image /\ eng'[e].io = "check" /\ OnlyMoves(e)
    BY <2>1 DEF Put, OnlyMoves, HostInv, Thread, Engine
  <2>3. QED BY <1>1, <2>1, <2>2 DEF Moves, Stays, Kept
<1>4. CASE eng[e].stage # "PollingLogs" /\ ~(eng[e].attempt < MaxRetries)
  BY <1>4, FailMoves DEF NoAnswer, Moves
<1>5. QED BY <1>2, <1>3, <1>4

LEMMA EngineMoves ==
  ASSUME HostInv, ExchangeInv, NEW e \in Engines, EngineStep(e) \/ RecvTimeout(e)
  PROVE  /\ Moves(e) /\ OnlyMoves(e) /\ Alive(e)
         /\ Alive(e)' => eng'[e].image = eng[e].image
         /\ eng'[e].io = "wait" => toPc' = <<>>
         /\ eng[e].stage = "Loading" => LoadFirmware(e) /\ shown' # "Complete"
         /\ LoadFirmware(e) => Begins(e) \/ eng'[e].stage = "PollingLogs"
<1>0. eng[e] \in Thread /\ SoundThread(eng[e]) /\ ~cancel_flag
  BY DEF HostInv, ExchangeInv, Thread
<1>1. CASE LoadFirmware(e)
  <2>1. /\ eng[e].stage = "Loading"
        /\ Goto(e, "Handshaking") \/ FailShown(e)
    BY <1>1 DEF LoadFirmware
  <2>2. shown' # "Complete"
    BY <2>1 DEF Goto, FailShown
  <2>3. CASE Goto(e, "Handshaking")
    BY <2>1, <2>2, <2>3, <1>1, GotoMoves DEF Moves, Begins, Stages, Kept, Alive
  <2>4. CASE FailShown(e)
    <3>1. PollThen(e, "Error")
      BY <2>4 DEF FailShown
    <3>2. QED BY <2>1, <2>2, <2>4, <3>1, <1>1, FailMoves, PollEffect DEF Moves, Kept, Alive
  <2>5. QED BY <2>1, <2>3, <2>4
<1>2. ~CheckCancelled(e) /\ ~CancelInTransfer(e)
  BY <1>0 DEF CheckCancelled, CancelInTransfer
<1>3. CASE CheckGoOn(e)
  <2>1. eng[e].stage \in Stages /\ eng[e].stage # "Loading" /\ Alive(e)
    BY <1>3 DEF CheckGoOn, Stages, Alive
  <2>2. CASE eng[e].stage = "Transferring" /\ Goto(e, "Completing")
    BY <2>1, <2>2, GotoMoves DEF Moves, Proceeds, Stages, Kept, LoadFirmware
  <2>3. CASE Put(e, [eng[e] EXCEPT !.io = "lock"]) /\ UNCHANGED shown
    <3>1. /\ eng'[e].stage = eng[e].stage /\ eng'[e].then = eng[e].then
          /\ eng'[e].image = eng[e].image /\ eng'[e].io = "lock" /\ OnlyMoves(e)
      BY <2>3 DEF Put, OnlyMoves, HostInv, Thread, Engine
    <3>2. QED BY <2>1, <2>3, <3>1 DEF Moves, Stays, LoadFirmware
  <2>4. QED BY <1>3, <2>2, <2>3 DEF CheckGoOn
<1>4. CASE SendFrame(e)
  <2>1. /\ Put(e, [eng[e] EXCEPT !.io = "wait"]) /\ ~Locked
        /\ shown' = shown /\ toPc' = toPc /\ eng[e].io = "lock"
    BY <1>4 DEF SendFrame, windowVars
  <2>2. /\ eng'[e].stage = eng[e].stage /\ eng'[e].then = eng[e].then
        /\ eng'[e].image = eng[e].image /\ OnlyMoves(e)
    BY <2>1 DEF Put, OnlyMoves, HostInv, Thread, Engine
  <2>3. toPc' = <<>>
    BY <2>1 DEF ExchangeInv
  <2>4. eng[e].stage \in Stages \cup {"PollingLogs"}
    BY <1>0, <2>1 DEF SoundThread
  <2>5. QED BY <2>1, <2>2, <2>3, <2>4 DEF Moves, Stays, Alive, Stages, LoadFirmware
<1>5. CASE RecvFrame(e) \/ NotConnected(e) \/ RecvTimeout(e)
  <2>1. eng[e].io # "check"
    BY <1>5 DEF RecvFrame, NotConnected, RecvTimeout
  <2>2. eng[e].stage \in Stages \cup {"PollingLogs"}
    BY <1>0, <2>1 DEF SoundThread
  <2>3. Moves(e) /\ Kept(e)
    BY <1>5, <2>1, RecvMoves, NoAnswerMoves DEF NotConnected, RecvTimeout
  <2>4. QED BY <2>2, <2>3 DEF Kept, Alive, Stages, LoadFirmware
<1>6. QED BY <1>1, <1>2, <1>3, <1>4, <1>5 DEF EngineStep

\* Only a "verify OK" takes an engine on from its verification.
LEMMA OnlyAnswersVerify ==
  ASSUME SysInv, ExchangeInv, NEW e \in Engines, [SysNext]_sysVars,
         eng[e].stage = "Verifying", eng'[e].stage = "SettingBootFlag"
  PROVE  RecvFrame(e)
<1>0. HostInv /\ eng'[e] # eng[e]
  BY DEF SysInv
<1>1. ASSUME NEW f \in Engines, EngineStep(f) \/ RecvTimeout(f) PROVE RecvFrame(e)
  <2>1. Moves(f) /\ f = e
    BY <1>0, <1>1, EngineMoves DEF OnlyMoves
  <2>2. QED
    BY <1>0, <2>1 DEF Moves, GivesUp, Begins, Accepted, Proceeds, Passes, Finishes, Done,
                      Completes, Stays
<1>2. ASSUME NEW f \in Engines, RunUpgrade(f) PROVE FALSE
  <2>1. ~Alive(f) /\ \E t : eng' = eng \/ eng' = [eng EXCEPT ![f] = t]
    BY <1>2 DEF RunUpgrade, Put
  <2>2. f # e
    BY <2>1 DEF Alive
  <2>3. QED BY <1>0, <2>1, <2>2 DEF HostInv
<1>3. eng' # eng
  BY <1>0
<1>4. HostStep \/ Timeout
  BY <1>3 DEF SysNext, DeviceStep, LoseRequest, CorruptData, PowerCycle, sysVars, hostVars
<1>5. \E f \in Engines : EngineStep(f) \/ RecvTimeout(f) \/ RunUpgrade(f)
  BY <1>3, <1>4 DEF HostStep, Timeout, HostNext, PressStart, PressOther, Press, CommandStep,
     Disconnect, Connect, ButtonSend, ButtonNotConnected, ButtonRecv, ButtonTimeout
<1>6. QED BY <1>1, <1>2, <1>5

\* If no answer comes late and nobody cancels, whatever is lost or changed on the
\* line, whenever the device loses its power and however many upgrades run at once:
\* an engine that goes on from its verification leaves one whole file behind.
THEOREM VerifiedLeavesAFile ==
  ASSUME Timely
  PROVE  SysSpec => VerifiedIsAFile
<1> DEFINE A == \A e \in Engines :
                  eng[e].stage = "Verifying" /\ eng'[e].stage = "SettingBootFlag"
                    => \E i \in Images : IsPrefixOf(i, slot1)
<1>1. SysInv /\ ExchangeInv /\ AnswerInv /\ [SysNext]_sysVars => A
  <2> SUFFICES ASSUME SysInv, ExchangeInv, AnswerInv, [SysNext]_sysVars, NEW e \in Engines,
                      eng[e].stage = "Verifying", eng'[e].stage = "SettingBootFlag"
               PROVE  \E i \in Images : IsPrefixOf(i, slot1)
    OBVIOUS
  <2>1. toPc # <<>> /\ Head(toPc).cmd = "verify_firmware" /\ Head(toPc).code = 0
    BY OnlyAnswersVerify, VerifyRead
  <2>2. QED BY <2>1 DEF AnswerInv
<1>2. QED BY <1>1, AnswerAlways, PTL DEF VerifiedIsAFile, SysSpec

-----------------------------------------------------------------------------
(* Complete means stored. *)

\* A positive answer waits for the thread.
HearsYes(e) == eng[e].io = "wait" /\ toPc # <<>> /\ Head(toPc).code = 0

\* The only upgrade that runs: from its start on the device stages its file or
\* nothing, and from the answer to its verification on the slot holds it.
OwnFile(e) ==
  /\ HearsYes(e) /\ eng[e].stage = "Erasing" /\ in_progress => firmware_crc = eng[e].image
  /\ HearsYes(e) /\ eng[e].stage = "Verifying" => IsPrefixOf(eng[e].image, slot1)
  /\ eng[e].stage \in {"Transferring", "Completing", "Verifying"} /\ in_progress
       => firmware_crc = eng[e].image
  /\ Done(e) => IsPrefixOf(eng[e].image, slot1)

StoredInv ==
  ~overlap =>
    /\ \A e, f \in Engines : Alive(e) /\ Alive(f) => e = f
    /\ \A e \in Engines : OwnFile(e)
    /\ shown = "Complete" =>
         /\ IsPrefixOf(reported, slot1)
         /\ \A e \in Engines : Alive(e) => eng[e].stage = "Loading"

\* Of a thread that has ended nothing is said.
LEMMA EndedOwnsNothing ==
  ASSUME NEW e \in Engines, ~Alive(e)
  PROVE  OwnFile(e)
  BY DEF Alive, OwnFile, HearsYes, Done

\* The step of an engine's thread, or its timeout.
LEMMA EngineStored ==
  ASSUME SysInv, ExchangeInv, AnswerInv, StoredInv, NEW e \in Engines,
         EngineStep(e) \/ RecvTimeout(e), UNCHANGED vars
  PROVE  StoredInv'
<1>0. HostInv /\ overlap' = overlap /\ UNCHANGED <<firmware_crc, in_progress, slot1>>
  <2>1. overlap' = overlap
    BY DEF EngineStep, LoadFirmware, CheckCancelled, CancelInTransfer, CheckGoOn, SendFrame,
           RecvFrame, NotConnected, RecvTimeout, bounds
  <2>2. QED BY <2>1 DEF SysInv, vars, deviceVars, declaredVars
<1> SUFFICES ASSUME ~overlap PROVE StoredInv'
  BY <1>0 DEF StoredInv
<1>1. /\ Moves(e) /\ OnlyMoves(e) /\ Alive(e)
      /\ Alive(e)' => eng'[e].image = eng[e].image
      /\ eng'[e].io = "wait" => toPc' = <<>>
      /\ eng[e].stage = "Loading" => LoadFirmware(e) /\ shown' # "Complete"
  BY <1>0, EngineMoves
<1>2. \A f \in Engines : f # e => ~Alive(f) /\ ~Alive(f)'
  BY <1>1 DEF StoredInv, OnlyMoves, Alive
<1>3. \A f \in Engines : f # e => OwnFile(f)'
  BY <1>2 DEF Alive, OwnFile, HearsYes, Done
<1>4. OwnFile(e)'
  <2>1. OwnFile(e)
    BY DEF StoredInv
  <2>2. ~(eng'[e].io = "wait" /\ toPc' # <<>>)
    BY <1>1
  <2>3. CASE GivesUp(e)
    BY <2>2, <2>3 DEF GivesUp, OwnFile, HearsYes, Done
  <2>4. CASE Begins(e)
    BY <2>2, <2>4 DEF Begins, OwnFile, HearsYes, Done
  <2>5. CASE Accepted(e)
    <3>1. toPc # <<>> /\ eng[e].io = "wait"
      BY <2>5 DEF Accepted, RecvFrame
    <3>2. in_progress => firmware_crc = eng[e].image
      BY <2>1, <2>5, <3>1 DEF Accepted, OwnFile, HearsYes
    <3>3. eng'[e].image = eng[e].image
      BY <1>1, <2>5 DEF Accepted, Alive
    <3>4. QED BY <1>0, <2>5, <3>2, <3>3 DEF Accepted, OwnFile, HearsYes, Done
  <2>6. CASE Proceeds(e)
    <3>1. eng'[e].image = eng[e].image
      BY <1>1, <2>6 DEF Proceeds, Alive
    <3>2. QED BY <1>0, <2>1, <2>2, <2>6, <3>1 DEF Proceeds, OwnFile, HearsYes, Done
  <2>7. CASE Passes(e)
    <3>1. toPc # <<>> /\ eng[e].io = "wait" /\ Head(toPc).code = 0
      BY <2>7, VerifyRead DEF Passes
    <3>2. IsPrefixOf(eng[e].image, slot1)
      BY <2>1, <2>7, <3>1 DEF Passes, OwnFile, HearsYes
    <3>3. eng'[e].image = eng[e].image
      BY <1>1, <2>7 DEF Passes, Alive
    <3>4. IsPrefixOf(eng[e].image, slot1)'
      BY <1>0, <3>2, <3>3
    <3>5. QED BY <2>7, <3>4 DEF Passes, OwnFile, HearsYes
  <2>8. CASE Finishes(e)
    <3>1. eng'[e].image = eng[e].image
      BY <1>1, <2>8 DEF Finishes, Done, Alive
    <3>2. IsPrefixOf(eng[e].image, slot1)'
      BY <1>0, <2>1, <2>8, <3>1 DEF Finishes, OwnFile, HearsYes
    <3>3. QED BY <2>8, <3>2 DEF Finishes, OwnFile, HearsYes, Done
  <2>9. CASE Completes(e)
    BY <2>9 DEF Completes, OwnFile, HearsYes, Done
  <2>10. CASE Stays(e)
    <3>1. eng'[e].image = eng[e].image
      BY <1>1, <2>10 DEF Stays, Alive
    <3>2. Done(e)' <=> Done(e)
      BY <2>10 DEF Stays, Done
    <3>3. IsPrefixOf(eng[e].image, slot1)' <=> IsPrefixOf(eng[e].image, slot1)
      BY <1>0, <3>1
    <3>4. QED BY <1>0, <2>1, <2>2, <2>10, <3>1, <3>2, <3>3 DEF Stays, OwnFile, HearsYes
  <2>11. QED
    BY <1>1, <2>3, <2>4, <2>5, <2>6, <2>7, <2>8, <2>9, <2>10 DEF Moves
<1>5. shown' = "Complete" => /\ IsPrefixOf(reported, slot1)'
                            /\ \A f \in Engines : Alive(f)' => eng'[f].stage = "Loading"
  <2> SUFFICES ASSUME shown' = "Complete"
               PROVE  /\ IsPrefixOf(reported, slot1)'
                      /\ \A f \in Engines : Alive(f)' => eng'[f].stage = "Loading"
    OBVIOUS
  <2>1. shown # "Complete"
    BY <1>1 DEF StoredInv
  <2>2. Completes(e)
    BY <1>1, <2>1 DEF Moves, GivesUp, Begins, Accepted, Proceeds, Passes, Finishes, Stays
  <2>3. reported' = eng[e].image
    BY <2>2 DEF Completes, RecvFrame
  <2>4. IsPrefixOf(eng[e].image, slot1)
    BY <2>2 DEF Completes, StoredInv, OwnFile, HearsYes
  <2>5. IsPrefixOf(reported, slot1)'
    BY <1>0, <2>3, <2>4
  <2>6. QED BY <1>2, <2>2, <2>5 DEF Completes, Alive
<1>6. \A f, g \in Engines : Alive(f)' /\ Alive(g)' => f = g
  BY <1>2
<1>7. \A f \in Engines : OwnFile(f)'
  BY <1>3, <1>4
<1>8. QED BY <1>5, <1>6, <1>7 DEF StoredInv

\* The user's steps: a window that has seen a disconnection shows nothing as complete,
\* and a run that begins while another thread is alive is an overlap.
LEMMA ButtonStored ==
  ASSUME SysInv, ExchangeInv, StoredInv, UNCHANGED vars, toPc' = toPc \/ toPc' = <<>>,
         \/ PressStart \/ (\E cmd \in Buttons : PressOther(cmd))
         \/ CommandStep \/ ButtonTimeout
  PROVE  StoredInv'
<1>0. HostInv /\ UNCHANGED <<firmware_crc, in_progress, slot1>>
  BY DEF SysInv, vars, deviceVars, declaredVars
<1>1. ASSUME eng' = eng, overlap' = overlap, reported' = reported,
             shown' = shown \/ shown' = "Idle"
      PROVE  StoredInv'
  <2> SUFFICES ASSUME ~overlap PROVE StoredInv'
    BY <1>1 DEF StoredInv
  <2>1. \A e \in Engines : (Done(e)' <=> Done(e)) /\ (Alive(e)' <=> Alive(e))
    BY <1>1 DEF Done, Alive
  <2>2. ASSUME NEW i, IsPrefixOf(i, slot1) PROVE IsPrefixOf(i, slot1)'
    BY <1>0, <2>2 DEF IsPrefixOf
  <2>3. ASSUME NEW e \in Engines PROVE OwnFile(e)'
    <3>1. OwnFile(e)
      BY DEF StoredInv
    <3>2. IsPrefixOf(eng[e].image, slot1)' <=> IsPrefixOf(eng[e].image, slot1)
      BY <1>0, <1>1 DEF IsPrefixOf
    <3>3. toPc' # <<>> => toPc' = toPc
      OBVIOUS
    <3>4. QED BY <1>0, <1>1, <2>1, <3>1, <3>2, <3>3 DEF OwnFile, HearsYes
  <2>4. IsPrefixOf(reported, slot1)' <=> IsPrefixOf(reported, slot1)
    BY <1>0, <1>1 DEF IsPrefixOf
  <2>5. QED BY <1>1, <2>1, <2>3, <2>4 DEF StoredInv
<1>2. CASE PressStart \/ \E cmd \in Buttons : PressOther(cmd)
  BY <1>1, <1>2 DEF PressStart, PressOther, Press
<1>3. CASE Disconnect \/ Connect \/ ButtonSend \/ ButtonNotConnected \/ ButtonRecv \/ ButtonTimeout
  BY <1>1, <1>3 DEF Disconnect, Connect, ButtonSend, ButtonNotConnected, ButtonRecv,
     ButtonTimeout, bounds
<1>4. ASSUME NEW e \in Engines, RunUpgrade(e) PROVE StoredInv'
  <2>1. CASE ~conn
    BY <1>1, <1>4, <2>1 DEF RunUpgrade
  <2>2. CASE conn
    <3>1. PICK chosen \in Images :
            eng' = [eng EXCEPT ![e] = [eng[e] EXCEPT !.stage = "Loading", !.image = chosen]]
      BY <1>4, <2>2 DEF RunUpgrade, Put
    <3>2. /\ eng'[e].stage = "Loading" /\ OnlyMoves(e)
      BY <1>0, <3>1 DEF HostInv, Thread, Engine, OnlyMoves
    <3>3. /\ overlap' = (overlap \/ \E o \in Engines : Alive(o))
          /\ shown' = shown /\ reported' = reported
      BY <1>4, <2>2 DEF RunUpgrade
    <3> SUFFICES ASSUME ~overlap' PROVE StoredInv'
      BY DEF StoredInv
    <3>4. ~overlap /\ \A o \in Engines : ~Alive(o)
      BY <3>3 DEF HostInv
    <3>5. \A f \in Engines : f # e => ~Alive(f)'
      BY <3>2, <3>4 DEF OnlyMoves, Alive
    <3>6. \A f \in Engines : OwnFile(f)'
      BY <3>2, <3>5 DEF OwnFile, HearsYes, Done, Alive
    <3>7. IsPrefixOf(reported, slot1)' <=> IsPrefixOf(reported, slot1)
      BY <1>0, <3>3 DEF IsPrefixOf
    <3>8. QED BY <3>2, <3>3, <3>4, <3>5, <3>6, <3>7 DEF StoredInv
  <2>3. QED BY <2>1, <2>2
<1>5. QED BY <1>2, <1>3, <1>4 DEF CommandStep

\* The device's step: only the one thread that runs asks it to change anything.
LEMMA DeviceStored ==
  ASSUME SysInv, SysInv', ExchangeInv, StoredInv, DeviceStep
  PROVE  StoredInv'
<1> DEFINE req == Head(toDev)
<1>0. /\ HostInv /\ req \in Requests /\ Handle(req) /\ toDev # <<>>
      /\ UNCHANGED <<eng, shown, overlap, reported, gui>>
  BY DeviceStepFacts DEF DeviceStep, SysInv, windowVars, bounds
<1> HIDE DEF req
<1> SUFFICES ASSUME ~overlap PROVE StoredInv'
  BY <1>0 DEF StoredInv
<1>1. \A e \in Engines : (Done(e)' <=> Done(e)) /\ (Alive(e)' <=> Alive(e))
  BY <1>0 DEF Done, Alive
<1>2. ASSUME NEW e \in Engines, eng[e].io = "wait"
      PROVE  /\ Alive(e) /\ eng[e].stage # "Loading"
             /\ req.cmd = StageRequest(e).cmd
             /\ req.cmd # "transfer_data" => req = StageRequest(e)
  <2>1. Pending(StageRequest(e))
    BY <1>2 DEF ExchangeInv
  <2>2. eng[e].stage \in Stages \cup {"PollingLogs"}
    BY <1>0, <1>2 DEF HostInv, Thread, SoundThread
  <2>3. QED BY <1>0, <2>1, <2>2 DEF Pending, req, Alive, Stages
<1>3. gui[2] = "wait" => req.cmd \in Bare
  BY <1>0, GuiFacts DEF ExchangeInv, Pending, Request, req, HostInv
<1>4. gui[2] = "wait" \/ \E e \in Engines : eng[e].io = "wait"
  BY <1>0 DEF ExchangeInv, Locked
<1>5. /\ in_progress' => in_progress \/ req.cmd = "start_upgrade"
      /\ in_progress' /\ firmware_crc' # firmware_crc =>
           req.cmd \in {"start_upgrade", "transfer_done"} /\ firmware_crc' = req.crc
      /\ req.cmd = "start_upgrade" /\ resp'.code = 0 => firmware_crc' = req.crc
      /\ req.cmd \notin {"start_upgrade", "transfer_data"} => slot1' = slot1
  BY <1>0, HandleEffect
<1>9. /\ toPc' # <<>> => Head(toPc') = resp'
      /\ resp'.cmd = req.cmd
  <2>1. toPc' = <<>> \/ toPc' = <<resp'>>
    BY DeviceAnswers
  <2>2. QED BY <2>1, DeviceStepFacts DEF req
<1>6. CASE \E e \in Engines : eng[e].io = "wait"
  <2>1. PICK e \in Engines : eng[e].io = "wait"
    BY <1>6
  <2>2. Alive(e) /\ eng[e].stage # "Loading" /\ shown # "Complete"
    BY <1>2, <2>1 DEF StoredInv
  <2>3. \A f \in Engines : f # e => ~Alive(f)
    BY <2>2 DEF StoredInv
  <2>4. OwnFile(e)'
    <3>1. OwnFile(e) /\ eng[e].stage \in Stages \cup {"PollingLogs"}
      BY <1>0, <2>1 DEF StoredInv, HostInv, Thread, SoundThread
    <3>2. req.cmd = StageRequest(e).cmd /\ (req.cmd # "transfer_data" => req = StageRequest(e))
      BY <1>2, <2>1
    <3>3. CASE eng[e].stage = "Erasing"
      <4>1. req.cmd = "start_upgrade" /\ req.crc = eng[e].image
        BY <3>2, <3>3 DEF StageRequest, Declare
      <4>2. QED BY <1>0, <1>5, <1>9, <3>3, <4>1 DEF OwnFile, HearsYes, Done
    <3>4. CASE eng[e].stage = "Transferring"
      <4>1. req.cmd = "transfer_data"
        BY <3>2, <3>4 DEF StageRequest, Packet
      <4>2. QED BY <1>0, <1>5, <3>1, <3>4, <4>1 DEF OwnFile, HearsYes, Done
    <3>5. CASE eng[e].stage = "Completing"
      <4>1. req.cmd = "transfer_done" /\ req.crc = eng[e].image
        BY <3>2, <3>5 DEF StageRequest, Declare
      <4>2. QED BY <1>0, <1>5, <3>1, <3>5, <4>1 DEF OwnFile, HearsYes, Done
    <3>8. CASE eng[e].stage = "Verifying"
      <4>1. req.cmd = "verify_firmware"
        BY <3>2, <3>8 DEF StageRequest, Request
      <4>2. in_progress' => in_progress /\ firmware_crc' = firmware_crc
        BY <1>5, <4>1
      <4>3. ASSUME toPc' # <<>>, Head(toPc').code = 0 PROVE IsPrefixOf(eng[e].image, slot1)'
        <5>1. in_progress' /\ IsPrefixOf(firmware_crc', slot1')
          BY <1>9, <4>1, <4>3, VerifyStores DEF SysInv
        <5>2. firmware_crc' = eng'[e].image
          BY <1>0, <3>1, <3>8, <4>2, <5>1 DEF OwnFile, HearsYes
        <5>3. QED BY <5>1, <5>2 DEF IsPrefixOf
      <4>4. QED BY <1>0, <3>1, <3>8, <4>2, <4>3 DEF OwnFile, HearsYes, Done
    <3>6. CASE eng[e].stage \notin {"Erasing", "Transferring", "Completing", "Verifying"}
      <4>1. req.cmd \notin {"start_upgrade", "transfer_data", "transfer_done"}
        BY <3>1, <3>2, <3>6 DEF StageRequest, Request, Stages
      <4>2. IsPrefixOf(eng[e].image, slot1)' <=> IsPrefixOf(eng[e].image, slot1)
        BY <1>0, <1>5, <4>1 DEF IsPrefixOf
      <4>3. QED BY <1>0, <1>1, <1>5, <3>1, <3>6, <4>1, <4>2 DEF OwnFile, HearsYes
    <3>7. QED BY <3>3, <3>4, <3>5, <3>6, <3>8
  <2>5. \A f \in Engines : f # e => OwnFile(f)'
    BY <1>1, <2>3 DEF OwnFile, HearsYes, Done, Alive
  <2>6. QED BY <1>0, <1>1, <2>2, <2>3, <2>4, <2>5 DEF StoredInv
<1>7. CASE gui[2] = "wait" /\ ~\E e \in Engines : eng[e].io = "wait"
  <2>1. req.cmd \notin {"start_upgrade", "transfer_data", "transfer_done"}
    BY <1>3, <1>7 DEF Bare
  <2>2. slot1' = slot1
    BY <1>5, <2>1
  <2>3. ASSUME NEW e \in Engines PROVE OwnFile(e)'
    <3>1. OwnFile(e) /\ eng[e].io # "wait"
      BY <1>7 DEF StoredInv
    <3>2. IsPrefixOf(eng[e].image, slot1)' <=> IsPrefixOf(eng[e].image, slot1)
      BY <1>0, <2>2 DEF IsPrefixOf
    <3>3. QED BY <1>0, <1>1, <1>5, <2>1, <3>1, <3>2 DEF OwnFile, HearsYes
  <2>4. IsPrefixOf(reported, slot1)' <=> IsPrefixOf(reported, slot1)
    BY <1>0, <2>2 DEF IsPrefixOf
  <2>5. QED BY <1>0, <1>1, <2>3, <2>4 DEF StoredInv
<1>8. QED BY <1>4, <1>6, <1>7

\* Power fails: what was staged is forgotten, and the slot changes only under the
\* start or the packet that the one running thread waits for.
LEMMA PowerStored ==
  ASSUME SysInv, ExchangeInv, StoredInv, PowerCycle
  PROVE  StoredInv'
<1>0. /\ HostInv /\ in_progress' = FALSE /\ toPc' = toPc
      /\ UNCHANGED <<eng, shown, overlap, reported, gui>>
  BY DEF SysInv, PowerCycle, Reboot, windowVars, bounds
<1> SUFFICES ASSUME ~overlap PROVE StoredInv'
  BY <1>0 DEF StoredInv
<1>1. \A e \in Engines : (Done(e)' <=> Done(e)) /\ (Alive(e)' <=> Alive(e))
  BY <1>0 DEF Done, Alive
<1>2. CASE slot1' = slot1
  <2>1. ASSUME NEW e \in Engines PROVE OwnFile(e)'
    <3>1. OwnFile(e)
      BY DEF StoredInv
    <3>2. IsPrefixOf(eng[e].image, slot1)' <=> IsPrefixOf(eng[e].image, slot1)
      BY <1>0, <1>2 DEF IsPrefixOf
    <3>3. QED BY <1>0, <1>1, <3>1, <3>2 DEF OwnFile, HearsYes
  <2>2. IsPrefixOf(reported, slot1)' <=> IsPrefixOf(reported, slot1)
    BY <1>0, <1>2 DEF IsPrefixOf
  <2>3. QED BY <1>0, <1>1, <2>1, <2>2 DEF StoredInv
<1>3. CASE toDev # <<>> /\ CutShort(Head(toDev))
  <2> DEFINE req == Head(toDev)
  <2>1. req.cmd \in {"start_upgrade", "transfer_data"}
    BY <1>3 DEF CutShort
  <2>2. toPc = <<>>
    BY <1>3, AnswerAlone
  <2>3. gui[2] # "wait"
    <3>1. SUFFICES ASSUME gui[2] = "wait" PROVE FALSE
      OBVIOUS
    <3>2. req.cmd = gui[1] /\ gui[1] \in Bare
      BY <1>0, <1>3, <3>1, GuiFacts DEF ExchangeInv, Pending, Request, HostInv
    <3>3. QED BY <2>1, <3>2 DEF Bare
  <2>4. PICK e \in Engines : eng[e].io = "wait"
    BY <1>3, <2>3 DEF ExchangeInv, Locked
  <2>5. req.cmd = StageRequest(e).cmd /\ eng[e].stage \in Stages \cup {"PollingLogs"}
    BY <1>0, <1>3, <2>4 DEF ExchangeInv, Pending, HostInv, Thread, SoundThread
  <2>6. eng[e].stage \in {"Erasing", "Transferring"}
    BY <2>1, <2>5 DEF StageRequest, Request, Declare, Stages
  <2>7. \A f \in Engines : f # e => ~Alive(f)
    BY <2>6 DEF StoredInv, Alive
  <2>8. shown # "Complete"
    BY <2>6 DEF StoredInv, Alive
  <2>9. OwnFile(e)'
    BY <1>0, <2>2, <2>6 DEF OwnFile, HearsYes, Done
  <2>10. \A f \in Engines : f # e => OwnFile(f)'
    BY <1>1, <2>7 DEF OwnFile, HearsYes, Done, Alive
  <2>11. QED BY <1>0, <1>1, <2>8, <2>9, <2>10 DEF StoredInv
<1>4. QED BY <1>2, <1>3 DEF PowerCycle

LEMMA StoredStep ==
  ASSUME SysInv, SysInv', ExchangeInv, AnswerInv, StoredInv, [SysNext]_sysVars
  PROVE  StoredInv'
<1>1. CASE HostStep \/ Timeout
  BY <1>1, HostSideStep, EngineStored, ButtonStored DEF HostStep, HostNext, Timeout
<1>2. CASE DeviceStep
  BY <1>2, DeviceStored
<1>3. ASSUME UNCHANGED <<vars, eng, windowVars, toPc, bounds>> PROVE StoredInv'
  BY <1>3 DEF vars, deviceVars, declaredVars, windowVars, bounds, StoredInv, OwnFile, HearsYes,
              Done, Alive, IsPrefixOf
<1>4. CASE LoseRequest \/ CorruptData \/ UNCHANGED sysVars
  BY <1>3, <1>4 DEF LoseRequest, CorruptData, sysVars, hostVars, linkVars
<1>5. CASE PowerCycle
  BY <1>5, PowerStored
<1>6. QED BY <1>1, <1>2, <1>4, <1>5 DEF SysNext

\* If no answer comes late and nobody cancels: while the window shows an upgrade as
\* complete that no other has overlapped, the slot holds the file chosen for it,
\* whatever was lost or changed on the line and whenever the device lost its power.
THEOREM CompleteIsStored ==
  ASSUME Timely
  PROVE  SysSpec => []CompleteMeansStored
<1>1. SysInit => StoredInv
  BY DEF SysInit, HostInit, NoThread, StoredInv, Alive, OwnFile, HearsYes, Done
<1>2. SysInv /\ SysInv' /\ ExchangeInv /\ AnswerInv /\ StoredInv /\ [SysNext]_sysVars
        => StoredInv'
  BY StoredStep
<1>3. StoredInv => CompleteMeansStored
  BY DEF StoredInv, CompleteMeansStored
<1>4. QED BY <1>1, <1>2, <1>3, AnswerAlways, PTL DEF SysSpec

-----------------------------------------------------------------------------
(* What the device stages is the beginning of one file, whatever arrives   *)
(* late: OtaSystem with one thread at a time on a line that keeps order    *)
(* and content.                                                            *)

\* One upgrade at a time, and frames arrive as they were sent unless the power of
\* the device fails.
InOrder == /\ \A e, f \in Engines : e = f
           /\ "loss" \notin Faults /\ "corrupt" \notin Faults

IsData(q) == q.cmd = "transfer_data"

\* The first packet of a file, and a packet of the file img.
Zero(i) == IsData(toDev[i]) /\ toDev[i].off = 0
From(q, img) == \E k \in 0 .. PacketCount(img) - 1 : q = Packet(img, k)

\* No upload begins behind request i up to request j.
Run(i, j) == \A k \in i + 1 .. j : ~Zero(k)

\* The first n cells of the slot are the first n bytes of img.
Agrees(n, img) == n <= Len(img) /\ \A i \in 1 .. n : slot1[i] = img[i]

\* The upload that request j belongs to is one of img: so are its packets before j
\* that are still on the line, and so is what the device has received if the upload's
\* first packet is no longer on the line.
SameFile(img, j) ==
  /\ \A i \in 1 .. j : IsData(toDev[i]) /\ Run(i, j) => From(toDev[i], img)
  /\ Run(0, j) /\ status = "RECEIVING" => Agrees(received_size, img)

\* The stages of a run before its first packet.
Begun == {"Handshaking", "GettingDeviceInfo", "Erasing"}

ImageInv ==
  /\ \A e \in Engines : eng[e].stage \in Begun => eng[e].packet = 0
  /\ \A j \in 1 .. Len(toDev) : IsData(toDev[j]) => \E img \in Images : SameFile(img, j)
  /\ \A e \in Engines :
       eng[e].stage = "Transferring" /\ (eng[e].packet > 0 \/ eng[e].io = "wait")
         => SameFile(eng[e].image, Len(toDev))
  /\ in_progress => \E img \in Images : Agrees(received_size, img)

-----------------------------------------------------------------------------
(* The line: requests leave it at the front and join it at the end.        *)

LEMMA LineFacts ==
  ASSUME HostInv
  PROVE  toDev \in Seq(Requests) /\ Len(toDev) \in Nat
  BY DEF HostInv

LEMMA SameLine ==
  ASSUME UNCHANGED <<vars, toDev>>, NEW img, NEW j, SameFile(img, j)
  PROVE  SameFile(img, j)'
  BY DEF vars, deviceVars, transferVars, SameFile, IsData, Run, Zero, From, Agrees

\* The request q joins the line.
LEMMA AppendFacts ==
  ASSUME HostInv, NEW q \in Requests, toDev' = Append(toDev, q)
  PROVE  /\ Len(toDev') = Len(toDev) + 1 /\ toDev'[Len(toDev) + 1] = q
         /\ \A i \in 1 .. Len(toDev) : toDev'[i] = toDev[i]
  BY LineFacts

\* Those before it are what they were.
LEMMA BeforeAppended ==
  ASSUME HostInv, NEW q \in Requests, toDev' = Append(toDev, q), UNCHANGED vars,
         NEW img, NEW j \in 0 .. Len(toDev), SameFile(img, j)
  PROVE  SameFile(img, j)'
<1>1. \A i \in 1 .. j : toDev'[i] = toDev[i]
  BY LineFacts, AppendFacts
<1>2. ASSUME NEW i \in 0 .. j PROVE Run(i, j)' <=> Run(i, j)
  BY <1>1 DEF Run, Zero, IsData
<1>3. status' = status /\ received_size' = received_size /\ slot1' = slot1
  BY DEF vars, deviceVars, transferVars
<1>4. ASSUME NEW i \in 1 .. j, IsData(toDev[i])', Run(i, j)' PROVE From(toDev[i], img)'
  BY <1>1, <1>2, <1>4 DEF SameFile, IsData, From
<1>5. Run(0, j)' /\ status' = "RECEIVING" => Agrees(received_size, img)'
  BY <1>2, <1>3 DEF SameFile, Agrees
<1>6. QED BY <1>4, <1>5 DEF SameFile

\* It belongs to an upload of img if it is not a packet, if it is the first of img,
\* or if it is one of img and so was the last on the line.
LEMMA AppendedFile ==
  ASSUME HostInv, NEW q \in Requests, toDev' = Append(toDev, q), UNCHANGED vars,
         NEW img, IsData(q) => From(q, img),
         (IsData(q) /\ q.off = 0) \/ SameFile(img, Len(toDev))
  PROVE  SameFile(img, Len(toDev))'
<1>0. PICK L \in Nat : L = Len(toDev)
  BY LineFacts
<1>1. L \in Nat /\ Len(toDev') = L + 1 /\ toDev'[L + 1] = q
  BY <1>0, AppendFacts
<1>2. ASSUME NEW i \in 0 .. L, Run(i, L + 1)'
      PROVE  SameFile(img, L) /\ Run(i, L)
  <2>1. ~Zero(L + 1)'
    BY <1>1, <1>2 DEF Run
  <2>2. SameFile(img, L)
    BY <1>0, <1>1, <2>1 DEF Zero, IsData
  <2>3. \A k \in 1 .. L : toDev'[k] = toDev[k]
    BY <1>0, AppendFacts
  <2>4. QED BY <1>1, <1>2, <2>2, <2>3 DEF Run, Zero, IsData
<1>3. ASSUME NEW i \in 1 .. L + 1, IsData(toDev[i])', Run(i, L + 1)'
      PROVE  From(toDev[i], img)'
  <2>1. CASE i = L + 1
    BY <1>1, <1>3, <2>1 DEF IsData, From
  <2>2. CASE i \in 1 .. L
    <3>1. toDev'[i] = toDev[i] /\ SameFile(img, L) /\ Run(i, L)
      BY <1>0, <1>1, <1>2, <1>3, <2>2, AppendFacts
    <3>2. QED BY <1>3, <2>2, <3>1 DEF SameFile, IsData, From
  <2>3. QED BY <1>1, <2>1, <2>2
<1>4. ASSUME Run(0, L + 1)', status' = "RECEIVING" PROVE Agrees(received_size, img)'
  <2>1. SameFile(img, L) /\ Run(0, L)
    BY <1>1, <1>2, <1>4
  <2>2. status' = status /\ received_size' = received_size /\ slot1' = slot1
    BY DEF vars, deviceVars, transferVars
  <2>3. QED BY <1>0, <1>4, <2>1, <2>2 DEF SameFile, Agrees
<1>5. QED BY <1>1, <1>3, <1>4 DEF SameFile

\* The first request leaves the line.
LEMMA TailFacts ==
  ASSUME HostInv, toDev # <<>>, toDev' = Tail(toDev)
  PROVE  /\ Len(toDev') \in Nat /\ Len(toDev) = Len(toDev') + 1
         /\ Head(toDev) = toDev[1] /\ \A i \in 1 .. Len(toDev') : toDev'[i] = toDev[i + 1]
  BY LineFacts, EmptySeq

LEMMA ShiftedFile ==
  ASSUME HostInv, toDev # <<>>, toDev' = Tail(toDev),
         NEW img, NEW j \in 0 .. Len(toDev'), SameFile(img, j + 1)
  PROVE  /\ \A i \in 1 .. j : IsData(toDev[i])' /\ Run(i, j)' => From(toDev[i], img)'
         /\ Run(0, j)' => Run(1, j + 1)
<1>1. Len(toDev') \in Nat /\ \A i \in 1 .. Len(toDev') : toDev'[i] = toDev[i + 1]
  BY TailFacts
<1>2. ASSUME NEW i \in 0 .. j, Run(i, j)' PROVE Run(i + 1, j + 1)
  <2>1. ASSUME NEW k \in i + 2 .. j + 1 PROVE ~Zero(k)
    <3>1. k - 1 \in i + 1 .. j /\ k - 1 \in 1 .. Len(toDev') /\ (k - 1) + 1 = k
      BY <1>1
    <3>2. ~Zero(k - 1)'
      BY <1>2, <3>1 DEF Run
    <3>3. toDev'[k - 1] = toDev[k]
      BY <1>1, <3>1
    <3>4. QED BY <3>2, <3>3 DEF Zero, IsData
  <2>2. QED BY <2>1 DEF Run
<1>3. ASSUME NEW i \in 1 .. j, IsData(toDev[i])', Run(i, j)' PROVE From(toDev[i], img)'
  <2>1. toDev'[i] = toDev[i + 1] /\ i + 1 \in 1 .. j + 1
    BY <1>1
  <2>2. Run(i + 1, j + 1)
    BY <1>2, <1>3
  <2>3. QED BY <1>3, <2>1, <2>2 DEF SameFile, IsData, From
<1>4. QED BY <1>2, <1>3

-----------------------------------------------------------------------------
(* The device: what a request does to the bytes it has staged.             *)

\* A chunk that is accepted and programmed.
Writes(q) ==
  /\ IsData(q) /\ q.off = current_offset /\ in_progress /\ status = "RECEIVING"
  /\ FlashWrite(q.off, q.data, Len(q.data))
  /\ received_size' = Add32(received_size, Len(q.data))
  /\ UNCHANGED <<in_progress, status>>

\* A request that leaves the count alone starts no upload, and is no packet that
\* the device has gone on from.
Leaves(q) ==
  /\ received_size' = received_size
  /\ in_progress' => in_progress
  /\ status' = "RECEIVING" => status = "RECEIVING" /\ ~IsData(q)

LEMMA HandleStages ==
  ASSUME InProgressMatchesStatus, NEW q \in Requests, Handle(q)
  PROVE  received_size' = 0 \/ Leaves(q) \/ Writes(q)
<1> USE DEF Reply, deviceVars, transferVars, Leaves, IsData
<1>1. CASE q.cmd \in {"handshake", "get_dev_info", "get_log"}
  BY <1>1 DEF Handle, Handshake, GetDevInfo, UnknownCommand
<1>2. CASE q.cmd = "start_upgrade"
  <2>1. StartUpgrade(q.size, q.crc)
    BY <1>2 DEF Handle
  <2>2. CASE StartUpgradeBusy \/ StartUpgradeTooBig(q.size, q.crc)
    BY <1>2, <2>2 DEF StartUpgradeBusy, StartUpgradeTooBig
  <2>3. CASE StartUpgradeErase(q.size, q.crc)
    BY <2>3 DEF StartUpgradeErase
  <2>4. QED BY <2>1, <2>2, <2>3 DEF StartUpgrade
<1>3. CASE q.cmd = "transfer_data"
  <2>1. TransferData(q.off, q.data)
    BY <1>3 DEF Handle
  <2>2. CASE TransferRefused
    BY <2>2 DEF TransferRefused, InProgressMatchesStatus
  <2>3. CASE TransferAccepted(q.off, q.data)
    <3>1. CASE \E err \in {"OFFSET_ERROR", "FIRMWARE_SIZE", "FLASH_WRITE"}, c \in {1, 255} :
                 TransferFails(c, err)
      BY <3>1 DEF TransferFails
    <3>2. CASE q.off = current_offset /\ TransferWrite(q.off, q.data)
      BY <1>3, <2>3, <3>1, <3>2 DEF TransferWrite, TransferAccepted, Writes
    <3>3. QED BY <2>3, <3>1, <3>2 DEF TransferAccepted
  <2>4. QED BY <2>1, <2>2, <2>3 DEF TransferData
<1>4. CASE q.cmd = "transfer_done"
  <2>1. TransferDone(q.size, q.crc)
    BY <1>4 DEF Handle
  <2>2. QED BY <1>4, <2>1 DEF TransferDone
<1>5. CASE q.cmd = "verify_firmware"
  BY <1>5 DEF Handle, VerifyFirmware
<1>6. CASE q.cmd \in {"reset_run", "cancel_upgrade"}
  BY <1>6 DEF Handle, ResetRun, Reboot, CancelUpgrade
<1>7. CASE q.cmd = "set_boot_flag"
  BY <1>7 DEF Handle, SetBootFlag
<1>8. QED BY <1>1, <1>2, <1>3, <1>4, <1>5, <1>6, <1>7 DEF Handle

\* Nothing is a beginning of every file.
LEMMA NothingAgrees ==
  ASSUME NEW img \in Images, received_size' = 0
  PROVE  Agrees(received_size, img)'
  BY FilesAssumption DEF Agrees, Word

\* What is left alone still agrees.
LEMMA LeavesAgree ==
  ASSUME SysInv, DeviceStep, NEW img \in Images, Leaves(Head(toDev)),
         Agrees(received_size, img)
  PROVE  Agrees(received_size, img)'
<1>1. [Next]_vars
  BY DeviceStepFacts
<1>2. (\A i \in 1 .. received_size : slot1'[i] = slot1[i]) \/ received_size' = 0
  BY <1>1, AcknowledgedStep DEF SysInv
<1>3. CASE received_size' = 0
  BY <1>3, NothingAgrees
<1>4. CASE \A i \in 1 .. received_size : slot1'[i] = slot1[i]
  BY <1>4 DEF Leaves, Agrees
<1>5. QED BY <1>2, <1>3, <1>4

\* A packet of img that is programmed behind nothing, or behind a beginning of img,
\* leaves a beginning of img.
LEMMA WritesAgree ==
  ASSUME SysInv, SysInv', NEW img \in Images, NEW q, From(q, img), Writes(q),
         q.off = 0 \/ Agrees(received_size, img)
  PROVE  Agrees(received_size, img)'
<1> DEFINE n == received_size
           len == Len(q.data)
<1>1. PICK k \in 0 .. PacketCount(img) - 1 : q = Packet(img, k)
  BY DEF From
<1>2. k \in Nat /\ k < PacketCount(img)
  BY <1>1, PacketCountFacts
<1>3. /\ q \in [cmd : {"transfer_data"}, off : Word, data : Payload]
      /\ k * ChunkSize + len <= Len(img) /\ q.off = k * ChunkSize
      /\ \A i \in 1 .. len : q.data[i] = img[k * ChunkSize + i]
  BY <1>1, <1>2, PacketFacts DEF Packet
<1>4. in_progress /\ q.off = n /\ n \in Nat /\ n <= SlotSize
  BY DEF Writes, SysInv, IInv, SlotHoldsReceived, TypeOK, Word
<1>5. len \in Nat /\ len <= MaxPayload
  BY <1>3, PayloadFacts
<1>6. received_size' = n + len
  BY <1>4, <1>5, Add32Exact, ConstantsAssumption DEF Writes
<1>7. n + len <= SlotSize
  <2>1. in_progress' /\ SlotHoldsReceived'
    BY <1>4 DEF Writes, SysInv, IInv
  <2>2. received_size' <= SlotSize
    BY <2>1 DEF SlotHoldsReceived
  <2>3. QED BY <1>6, <2>2
<1>8. n + len <= Len(img) /\ n = k * ChunkSize
  BY <1>3, <1>4
<1>9. ASSUME NEW i \in 1 .. n + len PROVE slot1'[i] = img[i]
  <2>1. i \in 1 .. SlotSize
    BY <1>4, <1>5, <1>7, ConstantsAssumption
  <2>2. slot1'[i] = IF i > n /\ i <= n + len THEN q.data[i - n] ELSE slot1[i]
    BY <1>4, <2>1 DEF Writes, FlashWrite
  <2>3. CASE i > n
    <3>1. i - n \in 1 .. len /\ n + (i - n) = i
      BY <1>4, <1>5, <2>3
    <3>2. QED BY <1>3, <1>8, <2>2, <2>3, <3>1
  <2>4. CASE i <= n
    <3>1. i \in 1 .. n /\ n # 0
      BY <1>4, <2>4
    <3>2. Agrees(n, img)
      BY <1>4, <3>1
    <3>3. QED BY <1>4, <2>2, <2>4, <3>1, <3>2 DEF Agrees
  <2>5. QED BY <1>4, <2>3, <2>4
<1> HIDE DEF n, len
<1>10. QED BY <1>6, <1>8, <1>9 DEF Agrees

LEMMA DeviceImage ==
  ASSUME SysInv, SysInv', ImageInv, DeviceStep
  PROVE  ImageInv'
<1>0. /\ HostInv /\ toDev # <<>> /\ toDev' = Tail(toDev) /\ eng' = eng
      /\ Handle(Head(toDev)) /\ Head(toDev) \in Requests
  BY DeviceStepFacts DEF DeviceStep, SysInv
<1>1. PICK q \in Requests : q = Head(toDev) /\ q = toDev[1]
  BY <1>0, TailFacts
<1>2. received_size' = 0 \/ Leaves(q) \/ Writes(q)
  BY <1>0, <1>1, HandleStages DEF SysInv, IInv
<1>3. PICK L \in Nat : L = Len(toDev') /\ Len(toDev) = L + 1
  BY <1>0, TailFacts
<1>4. ASSUME NEW img \in Images, NEW j \in 0 .. L, SameFile(img, j + 1)
      PROVE  SameFile(img, j)'
  <2>1. /\ \A i \in 1 .. j : IsData(toDev[i])' /\ Run(i, j)' => From(toDev[i], img)'
        /\ Run(0, j)' => Run(1, j + 1)
    BY <1>0, <1>3, <1>4, ShiftedFile
  <2>2. ASSUME Run(0, j)', status' = "RECEIVING" PROVE Agrees(received_size, img)'
    <3>1. Run(1, j + 1)
      BY <2>1, <2>2
    <3>2. ~Zero(1) => Run(0, j + 1)
      BY <3>1 DEF Run
    <3>3. status = "RECEIVING" => Agrees(received_size, img) \/ Zero(1)
      BY <1>4, <3>2 DEF SameFile
    <3>4. CASE Leaves(q)
      <4>1. status = "RECEIVING" /\ ~Zero(1)
        BY <1>1, <2>2, <3>4 DEF Leaves, Zero
      <4>2. QED BY <1>1, <3>3, <3>4, <4>1, LeavesAgree
    <3>5. CASE Writes(q)
      <4>1. IsData(toDev[1]) /\ 1 \in 1 .. j + 1
        BY <1>1, <3>5 DEF Writes
      <4>2. From(q, img)
        BY <1>1, <1>4, <3>1, <4>1 DEF SameFile
      <4>3. q.off = 0 \/ Agrees(received_size, img)
        BY <1>1, <3>3, <3>5 DEF Writes, Zero
      <4>4. QED BY <3>5, <4>2, <4>3, WritesAgree
    <3>6. QED BY <1>2, <3>4, <3>5, NothingAgrees
  <2>3. QED BY <2>1, <2>2 DEF SameFile
<1>5. ASSUME NEW j \in 1 .. L, IsData(toDev[j])'
      PROVE  \E img \in Images : SameFile(img, j)'
  <2>1. j + 1 \in 1 .. Len(toDev) /\ IsData(toDev[j + 1])
    BY <1>0, <1>3, <1>5, TailFacts DEF IsData
  <2>2. PICK img \in Images : SameFile(img, j + 1)
    BY <2>1 DEF ImageInv
  <2>3. QED BY <1>4, <2>2
<1>6. ASSUME NEW e \in Engines, eng[e].stage = "Transferring",
             eng[e].packet > 0 \/ eng[e].io = "wait"
      PROVE  SameFile(eng[e].image, Len(toDev))'
  <2>1. PICK img \in Images : img = eng[e].image
    BY <1>0 DEF HostInv, Thread, Engine
  <2>2. SameFile(img, L + 1)
    BY <1>3, <1>6, <2>1 DEF ImageInv
  <2>3. SameFile(img, L)'
    BY <1>4, <2>2
  <2>4. QED BY <1>0, <1>3, <2>1, <2>3
<1>7. ASSUME in_progress' PROVE \E img \in Images : Agrees(received_size, img)'
  <2>1. CASE received_size' = 0
    BY <2>1, NothingAgrees, HostAssumption
  <2>2. CASE Leaves(q)
    <3>1. PICK img \in Images : Agrees(received_size, img)
      BY <1>7, <2>2 DEF Leaves, ImageInv
    <3>2. QED BY <1>1, <2>2, <3>1, LeavesAgree
  <2>3. CASE Writes(q)
    <3>1. IsData(toDev[1]) /\ 1 \in 1 .. Len(toDev) /\ status' = "RECEIVING"
      BY <1>1, <1>3, <2>3 DEF Writes
    <3>2. PICK img \in Images : SameFile(img, 0 + 1)
      BY <3>1 DEF ImageInv
    <3>3. SameFile(img, 0)'
      BY <1>4, <3>2
    <3>4. Run(0, 0)'
      BY DEF Run
    <3>5. QED BY <3>1, <3>3, <3>4 DEF SameFile
  <2>4. QED BY <1>2, <2>1, <2>2, <2>3
<1>8. \A e \in Engines : eng'[e].stage \in Begun => eng'[e].packet = 0
  BY <1>0 DEF ImageInv
<1>9. QED BY <1>0, <1>3, <1>5, <1>6, <1>7, <1>8 DEF ImageInv

\* Without power there is no line and nothing staged.
LEMMA PowerImage ==
  ASSUME HostInv, ImageInv, PowerCycle
  PROVE  ImageInv'
<1>1. toDev' = <<>> /\ Len(toDev') = 0 /\ eng' = eng
  BY DEF PowerCycle
<1>2. status' = "IDLE" /\ in_progress' = FALSE
  BY DEF PowerCycle, Reboot
<1>3. \A img : SameFile(img, 0)'
  BY <1>2 DEF SameFile
<1>4. QED BY <1>1, <1>2, <1>3 DEF ImageInv

-----------------------------------------------------------------------------
(* The tool. *)

\* A step that leaves the line and the device alone.
LEMMA QuietImage ==
  ASSUME HostInv, ImageInv, UNCHANGED <<vars, toDev>>,
         \A e \in Engines : eng'[e].stage \in Begun => eng'[e].packet = 0,
         \A e \in Engines :
            eng'[e].stage = "Transferring" /\ (eng'[e].packet > 0 \/ eng'[e].io = "wait")
              => SameFile(eng'[e].image, Len(toDev))
  PROVE  ImageInv'
<1>1. PICK L \in Nat : L = Len(toDev)
  BY LineFacts
<1>2. \A j \in 1 .. L : IsData(toDev[j])' => \E img \in Images : SameFile(img, j)'
  BY <1>1, SameLine DEF ImageInv, IsData
<1>3. ASSUME NEW e \in Engines, eng'[e].stage = "Transferring",
             eng'[e].packet > 0 \/ eng'[e].io = "wait"
      PROVE  SameFile(eng[e].image, Len(toDev))'
  <2>1. PICK img : img = eng'[e].image
    OBVIOUS
  <2>2. SameFile(img, L)
    BY <1>1, <1>3, <2>1
  <2>3. SameFile(img, L)'
    BY <2>2, SameLine
  <2>4. QED BY <1>1, <2>1, <2>3
<1>4. in_progress' => \E img \in Images : Agrees(received_size, img)'
  BY DEF ImageInv, Agrees, vars, deviceVars, transferVars
<1>5. QED BY <1>1, <1>2, <1>3, <1>4 DEF ImageInv

\* The thread whose packet joins the line, or none if it is no packet.
LEMMA SendImage ==
  ASSUME HostInv, ImageInv, UNCHANGED vars, NEW q \in Requests,
         toDev' = Append(toDev, q),
         IsData(q) => \E img \in Images :
                        From(q, img) /\ (q.off = 0 \/ SameFile(img, Len(toDev))),
         \A e \in Engines : eng'[e].stage \in Begun => eng'[e].packet = 0,
         \A e \in Engines :
            eng'[e].stage = "Transferring" /\ (eng'[e].packet > 0 \/ eng'[e].io = "wait")
              => /\ IsData(q) => From(q, eng'[e].image)
                 /\ (IsData(q) /\ q.off = 0) \/ SameFile(eng'[e].image, Len(toDev))
  PROVE  ImageInv'
<1>1. PICK L \in Nat : L = Len(toDev) /\ Len(toDev') = L + 1
  BY LineFacts, AppendFacts
<1>2. ASSUME NEW j \in 1 .. L + 1, IsData(toDev[j])'
      PROVE  \E img \in Images : SameFile(img, j)'
  <2>1. CASE j = L + 1
    <3>1. IsData(q)
      BY <1>1, <1>2, <2>1, AppendFacts DEF IsData
    <3>2. PICK img \in Images : From(q, img) /\ (q.off = 0 \/ SameFile(img, Len(toDev)))
      BY <3>1
    <3>3. SameFile(img, Len(toDev))'
      BY <3>1, <3>2, AppendedFile
    <3>4. QED BY <1>1, <2>1, <3>3
  <2>2. CASE j \in 1 .. L
    <3>1. IsData(toDev[j])
      BY <1>1, <1>2, <2>2, AppendFacts DEF IsData
    <3>2. PICK img \in Images : SameFile(img, j)
      BY <1>1, <2>2, <3>1 DEF ImageInv
    <3>3. j \in 0 .. Len(toDev)
      BY <1>1, <2>2
    <3>4. QED BY <3>2, <3>3, BeforeAppended
  <2>3. QED BY <1>1, <2>1, <2>2
<1>3. ASSUME NEW e \in Engines, eng'[e].stage = "Transferring",
             eng'[e].packet > 0 \/ eng'[e].io = "wait"
      PROVE  SameFile(eng[e].image, Len(toDev))'
  <2>1. PICK img : img = eng'[e].image
    OBVIOUS
  <2>2. /\ IsData(q) => From(q, img)
        /\ (IsData(q) /\ q.off = 0) \/ SameFile(img, Len(toDev))
    BY <1>3, <2>1
  <2>3. SameFile(img, Len(toDev))'
    BY <2>2, AppendedFile
  <2>4. QED BY <2>1, <2>3
<1>4. in_progress' => \E img \in Images : Agrees(received_size, img)'
  BY DEF ImageInv, Agrees, vars, deviceVars, transferVars
<1>5. QED BY <1>1, <1>2, <1>3, <1>4 DEF ImageInv

\* A step that takes a thread to its first packet has sent none, and one that stays
\* with the packets goes on to the next only from an answer.
Continues(e) ==
  eng'[e].stage \in Begun \cup {"Transferring"} =>
    /\ eng'[e].io # "wait"
    /\ \/ eng[e].stage \in Begun \cup {"Loading"} /\ eng'[e].packet = eng[e].packet
       \/ /\ eng[e].stage = "Transferring" /\ eng'[e].stage = "Transferring"
          /\ eng'[e].image = eng[e].image
          /\ eng'[e].packet = eng[e].packet \/ eng[e].io = "wait"

LEMMA GotoContinues ==
  ASSUME HostInv, NEW e \in Engines, NEW s, Goto(e, s),
         s \in Begun \cup {"Transferring"} => eng[e].stage \in Begun \cup {"Loading"}
  PROVE  Continues(e)
<1>1. eng'[e].stage = s /\ eng'[e].io = "check" /\ eng'[e].packet = eng[e].packet
  BY DEF Goto, Put, HostInv, Thread, Engine
<1>2. QED BY <1>1 DEF Continues

LEMMA StaysContinues ==
  ASSUME HostInv, NEW e \in Engines, eng'[e].stage = eng[e].stage, eng'[e].io # "wait",
         eng'[e].image = eng[e].image,
         eng'[e].packet = eng[e].packet
           \/ (eng[e].stage = "Transferring" /\ eng[e].io = "wait")
  PROVE  Continues(e)
  BY DEF Continues, Begun

LEMMA FailContinues ==
  ASSUME HostInv, NEW e \in Engines,
         Fail(e) \/ FailShown(e) \/ (\E s : PollThen(e, s)) \/ (\E s : End(e, s))
  PROVE  Continues(e)
<1>0. eng \in [Engines -> Thread] /\ eng[e] \in Engine
  BY DEF HostInv, Thread
<1>1. ASSUME NEW s, PollThen(e, s) PROVE eng'[e].stage = "PollingLogs"
  BY <1>0, <1>1 DEF PollThen, Put, Engine
<1>2. ASSUME NEW s, End(e, s) PROVE eng'[e].stage = "Idle"
  BY <1>0, <1>2 DEF End, Put, NoThread
<1>3. eng'[e].stage = "PollingLogs" \/ eng'[e].stage = "Idle"
  BY <1>1, <1>2 DEF Fail, FailShown
<1>4. QED BY <1>3 DEF Continues, Begun

LEMMA PolledContinues ==
  ASSUME HostInv, NEW e \in Engines, Polled(e)
  PROVE  Continues(e)
<1>1. eng[e].then \in {"Error", "Failing", "Resetting"}
  BY DEF HostInv, Thread, Engine
<1>2. Fail(e) \/ End(e, "Error") \/ Goto(e, "Resetting")
  BY <1>1 DEF Polled
<1>3. QED BY <1>2, FailContinues, GotoContinues DEF Begun

LEMMA DigestContinues ==
  ASSUME HostInv, NEW e \in Engines, NEW r, eng[e].io = "wait", Digest(e, r)
  PROVE  Continues(e)
<1>0. eng[e] \in Thread /\ eng[e].stage \in Stages \cup {"PollingLogs"}
  BY DEF HostInv, Thread, SoundThread
<1> USE DEF Stages, Begun
<1>1. CASE eng[e].stage = "PollingLogs"
  BY <1>1, PolledContinues DEF Digest
<1>2. CASE eng[e].stage = "SettingBootFlag"
  BY <1>2, FailContinues DEF Digest
<1>3. CASE eng[e].stage \in Stages \ {"SettingBootFlag"} /\ IsError(r)
  BY <1>3, FailContinues DEF Digest
<1>4. CASE ~IsError(r)
  <2>1. CASE eng[e].stage = "Handshaking"
    BY <1>4, <2>1, GotoContinues DEF Digest
  <2>2. CASE eng[e].stage = "GettingDeviceInfo"
    BY <1>4, <2>2, GotoContinues, FailContinues DEF Digest
  <2>3. CASE eng[e].stage = "Erasing"
    BY <1>4, <2>3, GotoContinues, FailContinues DEF Digest
  <2>4. CASE eng[e].stage = "Transferring"
    <3>1. Put(e, [eng[e] EXCEPT !.packet = @ + 1, !.io = "check", !.attempt = 1])
      BY <1>4, <2>4 DEF Digest
    <3>2. /\ eng'[e].stage = eng[e].stage /\ eng'[e].image = eng[e].image
          /\ eng'[e].io = "check"
      BY <1>0, <3>1 DEF Put, HostInv, Thread, Engine
    <3>3. QED BY <2>4, <3>2, StaysContinues
  <2>5. CASE eng[e].stage = "Completing"
    BY <1>4, <2>5, GotoContinues DEF Digest
  <2>6. CASE eng[e].stage = "Verifying"
    BY <1>4, <2>6, GotoContinues, FailContinues DEF Digest, Verified
  <2>7. CASE eng[e].stage = "Resetting"
    BY <1>4, <2>7, FailContinues DEF Digest
  <2>8. QED BY <1>0, <1>1, <1>2, <2>1, <2>2, <2>3, <2>4, <2>5, <2>6, <2>7
<1>5. QED BY <1>0, <1>1, <1>2, <1>3, <1>4

LEMMA EngineContinues ==
  ASSUME HostInv, NEW e \in Engines,
         EngineStep(e) \/ RecvTimeout(e), ~SendFrame(e)
  PROVE  Continues(e)
<1>0. eng[e] \in Thread
  BY DEF HostInv
<1>1. CASE LoadFirmware(e)
  BY <1>1, GotoContinues, FailContinues DEF LoadFirmware
<1>2. CASE CheckCancelled(e) \/ CancelInTransfer(e)
  BY <1>2, FailContinues DEF CheckCancelled, CancelInTransfer
<1>3. CASE CheckGoOn(e)
  <2>1. CASE Goto(e, "Completing")
    BY <2>1, GotoContinues DEF Begun
  <2>2. CASE Put(e, [eng[e] EXCEPT !.io = "lock"])
    <3>1. /\ eng'[e].stage = eng[e].stage /\ eng'[e].image = eng[e].image
          /\ eng'[e].io = "lock" /\ eng'[e].packet = eng[e].packet
      BY <1>0, <2>2 DEF Put, HostInv, Thread, Engine
    <3>2. QED BY <3>1, StaysContinues
  <2>3. QED BY <1>3, <2>1, <2>2 DEF CheckGoOn
<1>4. CASE RecvFrame(e)
  BY <1>4, DigestContinues DEF RecvFrame
<1>5. CASE NotConnected(e) \/ RecvTimeout(e)
  <2>1. NoAnswer(e)
    BY <1>5 DEF NotConnected, RecvTimeout
  <2>2. CASE Polled(e) \/ FailShown(e)
    BY <2>2, PolledContinues, FailContinues
  <2>3. CASE Put(e, [eng[e] EXCEPT !.io = "check", !.attempt = @ + 1])
    <3>1. /\ eng'[e].stage = eng[e].stage /\ eng'[e].image = eng[e].image
          /\ eng'[e].io = "check" /\ eng'[e].packet = eng[e].packet
      BY <1>0, <2>3 DEF Put, HostInv, Thread, Engine
    <3>2. QED BY <3>1, StaysContinues
  <2>4. QED BY <2>1, <2>2, <2>3 DEF NoAnswer
<1>6. QED BY <1>1, <1>2, <1>3, <1>4, <1>5 DEF EngineStep

\* The only thread.
LEMMA EngineImage ==
  ASSUME InOrder, HostInv, ImageInv, NEW e \in Engines,
         EngineStep(e) \/ RecvTimeout(e), UNCHANGED vars
  PROVE  ImageInv'
<1>0. /\ eng[e] \in Thread /\ eng[e].packet \in Nat /\ eng[e].image \in Images
      /\ \A f \in Engines : f = e
  BY DEF InOrder, HostInv, Thread, Engine
<1>1. CASE SendFrame(e)
  <2>1. PICK q \in Requests : q = StageRequest(e) /\ toDev' = Append(toDev, q)
    BY <1>1, StageRequestFacts DEF SendFrame
  <2>2. /\ eng'[e].stage = eng[e].stage /\ eng'[e].image = eng[e].image
        /\ eng'[e].packet = eng[e].packet /\ eng[e].io = "lock"
    BY <1>0, <1>1 DEF SendFrame, Put, HostInv, Thread, Engine
  <2>3. \A f \in Engines : eng'[f].stage \in Begun => eng'[f].packet = 0
    BY <1>0, <2>2 DEF ImageInv
  <2>4. CASE eng[e].stage = "Transferring"
    <3>1. q = Packet(eng[e].image, eng[e].packet)
      BY <2>1, <2>4 DEF StageRequest
    <3>2. eng[e].packet < PacketCount(eng[e].image)
      BY <1>0, <2>2, <2>4 DEF Thread, SoundThread
    <3>3. From(q, eng[e].image)
      <4>1. PacketCount(eng[e].image) \in Nat
        BY <1>0, PacketCountFacts
      <4>2. eng[e].packet \in 0 .. PacketCount(eng[e].image) - 1
        BY <1>0, <3>2, <4>1
      <4>3. QED BY <3>1, <4>2 DEF From
    <3>4. IsData(q) /\ q.off = eng[e].packet * ChunkSize
      BY <3>1 DEF Packet, IsData
    <3>5. eng[e].packet = 0 => q.off = 0
      BY <3>4, HostAssumption
    <3>6. eng[e].packet > 0 => SameFile(eng[e].image, Len(toDev))
      BY <2>4 DEF ImageInv
    <3>7. q.off = 0 \/ SameFile(eng[e].image, Len(toDev))
      BY <1>0, <3>5, <3>6
    <3>8. QED BY <1>0, <2>1, <2>2, <2>3, <3>3, <3>4, <3>7, SendImage
  <2>5. CASE eng[e].stage # "Transferring"
    <3>1. ~IsData(q)
      BY <2>1, <2>5 DEF StageRequest, Request, Declare, IsData
    <3>2. QED BY <1>0, <2>1, <2>2, <2>3, <2>5, <3>1, SendImage
  <2>6. QED BY <2>4, <2>5
<1>2. CASE ~SendFrame(e)
  <2>1. Continues(e)
    BY <1>2, EngineContinues
  <2>2. eng[e].stage \in Begun \cup {"Loading"} => eng[e].packet = 0
    BY <1>0 DEF ImageInv, Thread, SoundThread
  <2>3. \A f \in Engines : eng'[f].stage \in Begun => eng'[f].packet = 0
    BY <1>0, <2>1, <2>2 DEF Continues, Begun
  <2>4. ASSUME eng'[e].stage = "Transferring", eng'[e].packet > 0 \/ eng'[e].io = "wait"
        PROVE  SameFile(eng'[e].image, Len(toDev))
    <3>1. eng'[e].packet > 0
      BY <2>1, <2>4 DEF Continues
    <3>2. /\ eng[e].stage = "Transferring" /\ eng'[e].image = eng[e].image
          /\ eng'[e].packet = eng[e].packet \/ eng[e].io = "wait"
      BY <2>1, <2>2, <2>4, <3>1 DEF Continues
    <3>3. QED BY <3>1, <3>2 DEF ImageInv
  <2>5. CASE toDev' = toDev
    BY <1>0, <2>3, <2>4, <2>5, QuietImage
  <2>6. CASE toDev' # toDev
    <3>1. CancelInTransfer(e)
      BY <1>2, <2>6 DEF EngineStep, LoadFirmware, CheckCancelled, CheckGoOn, RecvFrame,
         NotConnected, RecvTimeout, linkVars
    <3>2. PICK q \in Requests : q = Request("cancel_upgrade") /\ toDev' = Append(toDev, q)
      BY <2>6, <3>1 DEF CancelInTransfer, Request, Requests, Bare
    <3>3. ~IsData(q)
      BY <3>2 DEF IsData, Request
    <3>4. QED BY <1>0, <2>3, <2>4, <3>2, <3>3, SendImage
  <2>7. QED BY <2>5, <2>6
<1>3. QED BY <1>1, <1>2

LEMMA ButtonImage ==
  ASSUME HostInv, ImageInv, UNCHANGED vars,
         PressStart \/ (\E cmd \in Buttons : PressOther(cmd)) \/ CommandStep \/ ButtonTimeout
  PROVE  ImageInv'
<1>1. CASE eng' = eng /\ toDev' = toDev
  BY <1>1, QuietImage DEF ImageInv
<1>2. ASSUME NEW e \in Engines, RunUpgrade(e), eng' # eng PROVE ImageInv'
  <2>1. toDev' = toDev
    BY <1>2 DEF RunUpgrade, linkVars
  <2>2. PICK img \in Images :
          eng' = [eng EXCEPT ![e] = [eng[e] EXCEPT !.stage = "Loading", !.image = img]]
    BY <1>2 DEF RunUpgrade, Put
  <2>3. eng'[e].stage = "Loading" /\ \A f \in Engines : f # e => eng'[f] = eng[f]
    BY <2>2 DEF HostInv, Thread, Engine
  <2>4. QED BY <2>1, <2>3, QuietImage DEF ImageInv, Begun
<1>3. CASE ButtonSend
  <2>1. gui[1] \in ButtonCommands \cap Bare /\ eng' = eng
    BY <1>3, GuiFacts DEF ButtonSend, Executes, HostInv
  <2>2. PICK q \in Requests : q = Request(gui[1]) /\ toDev' = Append(toDev, q)
    BY <1>3, <2>1 DEF ButtonSend, Request, Requests
  <2>3. ~IsData(q)
    BY <2>1, <2>2 DEF IsData, Request, Bare
  <2>4. QED BY <2>1, <2>2, <2>3, SendImage DEF ImageInv
<1>4. QED
  BY <1>1, <1>2, <1>3 DEF PressStart, PressOther, Press, CommandStep, RunUpgrade, Disconnect,
     Connect, ButtonNotConnected, ButtonRecv, ButtonTimeout, linkVars

-----------------------------------------------------------------------------
LEMMA ImageStep ==
  ASSUME InOrder, SysInv, SysInv', ImageInv, [SysNext]_sysVars
  PROVE  ImageInv'
<1>0. HostInv
  BY DEF SysInv
<1>1. CASE HostStep \/ Timeout
  BY <1>0, <1>1, EngineImage, ButtonImage DEF HostStep, HostNext, Timeout
<1>2. CASE DeviceStep \/ PowerCycle
  BY <1>0, <1>2, DeviceImage, PowerImage
<1>3. CASE UNCHANGED sysVars
  BY <1>0, <1>3, QuietImage DEF sysVars, hostVars, linkVars, ImageInv
<1>4. ~LoseRequest /\ ~CorruptData
  BY DEF InOrder, LoseRequest, CorruptData
<1>5. QED BY <1>1, <1>2, <1>3, <1>4 DEF SysNext

LEMMA ImageInit == SysInit => ImageInv
<1> SUFFICES ASSUME SysInit PROVE ImageInv
  OBVIOUS
<1>1. toDev = <<>> /\ ~in_progress /\ \A e \in Engines : eng[e].stage = "Idle"
  BY DEF SysInit, Init, HostInit, NoThread
<1>2. QED BY <1>1 DEF ImageInv, Begun

LEMMA ImageIsOne == SysInv /\ ImageInv => NoMixedImage
<1> SUFFICES ASSUME SysInv, ImageInv, in_progress
             PROVE  \E i \in Images : IsPrefixOf(Prefix(received_size), i)
  BY DEF NoMixedImage
<1>1. PICK img \in Images : Agrees(received_size, img)
  BY DEF ImageInv
<1>2. /\ received_size \in Nat /\ received_size <= SlotSize
      /\ slot1 \in [1 .. SlotSize -> Byte]
  BY DEF SysInv, IInv, SlotHoldsReceived, TypeOK, Word
<1>3. img \in Seq(Byte) /\ Len(img) \in Nat
  BY FilesAssumption
<1>4. Len(Prefix(received_size)) = received_size
  BY <1>2, PrefixFacts
<1>5. Prefix(received_size) = SubSeq(img, 1, received_size)
  <2>1. received_size <= Len(img) /\ \A i \in 1 .. received_size : slot1[i] = img[i]
    BY <1>1 DEF Agrees
  <2>2. SubSeq(img, 1, received_size) = [i \in 1 .. received_size |-> img[i]]
    BY <1>2, <1>3, <2>1
  <2>3. QED BY <2>1, <2>2 DEF Prefix
<1>6. QED BY <1>1, <1>4, <1>5 DEF IsPrefixOf, Agrees

\* With one upgrade at a time on a line that keeps order and content, whatever is
\* answered late, retried, cancelled or started anew, and wherever the power fails:
\* what is staged is the beginning of one of the chosen files.
THEOREM OneImageStaged ==
  ASSUME InOrder
  PROVE  SysSpec => []NoMixedImage
<1>1. SysInv /\ SysInv' /\ ImageInv /\ [SysNext]_sysVars => ImageInv'
  BY ImageStep
<1>2. QED BY <1>1, ImageInit, ImageIsOne, SysInvariant, PTL DEF SysSpec
=============================================================================
