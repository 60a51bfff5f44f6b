------------------------------ MODULE OtaSystem ------------------------------
(***************************************************************************)
(* The PC tool and the device over the serial line.  The device takes one  *)
(* frame at a time from the line and sends one response; the host pairs    *)
(* responses with requests by order of arrival only.                       *)
(***************************************************************************)
EXTENDS OtaDevice, OtaHost

CONSTANT Faults   \* what may go wrong on the line, a subset of LineFaults

LineFaults == {"late",     \* an answer can take longer than the timeout
               "loss",     \* a request or a response can be lost
               "corrupt",  \* a byte of firmware can change on the line
               "power"}    \* the device can lose power

ASSUME FaultsAssumption == Faults \subseteq LineFaults

\* Files are shorter than 4 GiB, and a chunk fits a frame.
ASSUME FilesAssumption ==
  /\ \A i \in Images : i \in Seq(Byte) /\ Len(i) \in Word
  /\ Images \subseteq Crcs
  /\ ChunkSize <= MaxPayload

sysVars == <<vars, hostVars>>

\* ota_frame_process: the handler of a request.
Handle(req) ==
  \/ req.cmd = "handshake"       /\ Handshake
  \/ req.cmd = "get_dev_info"    /\ GetDevInfo
  \/ req.cmd = "start_upgrade"   /\ StartUpgrade(req.size, req.crc)
  \/ req.cmd = "transfer_data"   /\ TransferData(req.off, req.data)
  \/ req.cmd = "transfer_done"   /\ TransferDone(req.size, req.crc)
  \/ req.cmd = "verify_firmware" /\ VerifyFirmware
  \/ req.cmd = "reset_run"       /\ ResetRun
  \/ req.cmd = "cancel_upgrade"  /\ CancelUpgrade
  \/ req.cmd = "set_boot_flag"   /\ SetBootFlag(req.flag)
  \/ req.cmd = "get_log"         /\ UnknownCommand

\* A response is lost on the line, because the UART is still sending, or
\* because the tool has closed the port.
DeviceStep ==
  /\ toDev # <<>>
  /\ Handle(Head(toDev))
  /\ toDev' = Tail(toDev)
  /\ \/ conn /\ toPc' = Append(toPc, resp')
     \/ (~conn \/ "loss" \in Faults) /\ UNCHANGED toPc
  /\ UNCHANGED <<eng, windowVars, bounds>>

LoseRequest ==
  /\ "loss" \in Faults /\ toDev # <<>>
  /\ toDev' = Tail(toDev)
  /\ UNCHANGED <<vars, eng, windowVars, toPc, bounds>>

\* Frames carry no checksum: a flipped data byte arrives as data.
CorruptData ==
  /\ "corrupt" \in Faults /\ toDev # <<>> /\ Head(toDev).cmd = "transfer_data"
  /\ \E data \in [DOMAIN Head(toDev).data -> Byte] :
       toDev' = [toDev EXCEPT ![1].data = data]
  /\ UNCHANGED <<vars, eng, windowVars, toPc, bounds>>

\* The flash operation of the request being handled, which the power loss ends.
CutShort(req) ==
  \/ req.cmd = "start_upgrade" /\ req.size <= SlotSize /\ EraseCutShort
  \/ /\ req.cmd = "transfer_data" /\ req.off = current_offset
     /\ WriteCutShort(req.data)

PowerCycle ==
  /\ "power" \in Faults
  /\ Reboot
  /\ resp' = NoResponse
  /\ UNCHANGED slot1 \/ (toDev # <<>> /\ CutShort(Head(toDev)))
  /\ toDev' = <<>>
  /\ UNCHANGED <<eng, windowVars, toPc, bounds>>

HostStep == HostNext /\ UNCHANGED vars

\* Without "late", the host gives up only when no answer can come any more.
Timeout ==
  /\ "late" \in Faults \/ toDev = <<>>
  /\ (\E e \in Engines : RecvTimeout(e)) \/ ButtonTimeout
  /\ UNCHANGED vars

SysInit ==
  /\ Init /\ HostInit
  /\ slot1 = [i \in 1 .. SlotSize |-> Erased]

SysNext == HostStep \/ DeviceStep \/ LoseRequest \/ CorruptData \/ PowerCycle \/ Timeout

SysSpec == SysInit /\ [][SysNext]_sysVars

\* The scheduler runs each engine's thread and the button's command, the main
\* loop runs the device, and a timeout expires; nothing is asked of the user
\* or of the faults.  The engine's own steps are those of EngineStep.
Fairness ==
  /\ WF_sysVars(DeviceStep)
  /\ WF_sysVars(Timeout)
  /\ \A e \in Engines : WF_sysVars(EngineStep(e) /\ UNCHANGED vars)
  /\ WF_sysVars(CommandStep /\ UNCHANGED vars)

FairSysSpec == SysSpec /\ Fairness

-----------------------------------------------------------------------------
(* Properties. *)

IsPrefixOf(s, t) == Len(s) <= Len(t) /\ s = SubSeq(t, 1, Len(s))

SysTypeOK ==
  /\ TypeOK
  /\ eng \in [Engines -> Engine]
  /\ \A e \in Engines : eng[e].packet <= Packets(e)
  /\ shown \in Stages \cup Resting /\ conn \in BOOLEAN
  /\ cancel_flag \in BOOLEAN /\ overlap \in BOOLEAN /\ reported \in Images

\* The mutex: of all threads and buttons one at most waits for an answer.
OneExchange ==
  /\ \A e, f \in Engines : eng[e].io = "wait" /\ eng[f].io = "wait" => e = f
  /\ ~(gui[2] = "wait" /\ \E e \in Engines : eng[e].io = "wait")

\* What the device holds of an upgrade is always the beginning of one of the
\* chosen files, never a mix of two, whatever was retried, answered late,
\* cancelled or lost with the power of the device: packets of an earlier run can
\* only land at offset 0. Single frames arrive unchanged.
NoMixedImage ==
  in_progress => \E i \in Images : IsPrefixOf(Prefix(received_size), i)

\* While the window shows an upgrade as complete the slot holds the file that
\* was chosen for it, although no frame carries a checksum, flash writes can fail
\* and the device can lose its power between and inside any two exchanges; unless
\* two upgrades have run at once.
CompleteMeansStored == shown = "Complete" /\ ~overlap => IsPrefixOf(reported, slot1)

\* Even with upgrades running side by side, an engine that goes on from its
\* verification leaves one whole file behind. A second start is refused while the
\* first upgrade is received, but after a power loss, which the first engine does not
\* notice, the second one's start is accepted and its packets and the rest of the
\* first one's land in the slot alternately; only the verification sees the mix.
VerifiedIsAFile ==
  [][\A e \in Engines :
       eng[e].stage = "Verifying" /\ eng'[e].stage = "SettingBootFlag"
         => \E i \in Images : IsPrefixOf(i, slot1)]_sysVars

\* The frame an engine or a button takes for its answer answers its request.
AnswersMatch ==
  [][/\ \A e \in Engines :
          eng[e].io = "wait" /\ eng'[e].io # "wait" /\ toPc # <<>>
            => Head(toPc).cmd = StageRequest(e).cmd
     /\ gui[2] = "wait" /\ gui' = NoButton /\ toPc # <<>>
          => Head(toPc).cmd = gui[1]]_sysVars

\* When the engine has logged "Boot flag set" and goes on to the reset, the
\* device has set it.
BootFlagIsSet ==
  \A e \in Engines : eng[e].stage = "Resetting" /\ eng[e].io = "check" => boot_flag = 1

\* An upgrade ends: with retries bounded and every wait timed, the thread ends
\* whatever the line does and whatever the user presses meanwhile.
RunsEnd == \A e \in Engines : Alive(e) ~> ~Alive(e)

\* The button's command returns.
ButtonsReturn == (gui # NoButton) ~> (gui = NoButton)
=============================================================================
