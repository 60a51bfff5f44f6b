------------------------------- MODULE OtaHost -------------------------------
(***************************************************************************)
(* The PC tool: the upgrade threads (ota/engine.rs), the serial connection *)
(* they share with the buttons of the window (serial/mod.rs, port.rs), the *)
(* commands behind those buttons (commands/*.rs), and which of them the    *)
(* window enables (App.tsx, OtaControls.tsx, SerialPanel.tsx).             *)
(*                                                                         *)
(* An exchange locks the connection, sends one frame and takes the next    *)
(* frame from the queue the reader thread fills, whatever that frame       *)
(* answers.  A frame is a record; the bytes are below this model.          *)
(***************************************************************************)
EXTENDS Integers, Sequences

CONSTANTS
  Engines,     \* threads: as many upgrades as can run at once
  Images,      \* the firmware files a user may choose (sequences of bytes)
  FlashTotal,  \* flash_total_size in the answer to get_dev_info
  ChunkSize,   \* bytes per transfer_data frame
  MaxRetries,  \* OtaConfig.max_retries
  Buttons,     \* the buttons the user presses, besides "start upgrade"
  MaxRuns,     \* bound: upgrades started
  MaxPresses   \* bound: other buttons pressed

\* The buttons of the window, besides "start upgrade".
ButtonCommands ==
  {"handshake", "get_dev_info", "verify_firmware", "reset_run",
   "cancel_upgrade", "connect_serial", "disconnect_serial"}

ASSUME HostAssumption ==
  /\ FlashTotal \in Nat
  /\ ChunkSize \in Nat \ {0}
  /\ MaxRetries \in Nat \ {0}
  /\ Images # {}
  /\ Buttons \subseteq ButtonCommands

VARIABLES
  eng,          \* thread |-> where it is in do_upgrade, see Engine
  shown,        \* the UpgradeStage the window shows
  conn,         \* SerialManager.conn is some connection
  cancel_flag,
  gui,          \* the command in progress: <<command, "lock" or "wait">>
  toDev, toPc,  \* frames on their way, toPc ending in frame_rx
  overlap,      \* history: a run began while another thread was alive
  reported,     \* history: the file of the last run reported complete
  runs, presses \* counters for the bounds

windowVars == <<shown, conn, cancel_flag, gui>>
linkVars   == <<toDev, toPc>>
bounds     == <<overlap, reported, runs, presses>>
hostVars   == <<eng, windowVars, linkVars, bounds>>

\* Where a thread is: not running, before its first event ("Loading"), in a
\* stage, in poll_logs.
Stages == {"Handshaking", "GettingDeviceInfo", "Erasing", "Transferring",
           "Completing", "Verifying", "SettingBootFlag", "Resetting"}

\* io:      "check", "lock" (holds a request, waits for the mutex), "wait"
\* attempt: 1 .. MaxRetries; packet: index of the packet being transferred
\* then:    where poll_logs returns to; image: the firmware of the run
Engine == [stage   : Stages \cup {"Idle", "Loading", "PollingLogs"},
           io      : {"check", "lock", "wait"},
           attempt : 1 .. MaxRetries,
           packet  : Nat,
           then    : {"Error", "Failing", "Resetting"},
           image   : Images]

NoImage  == CHOOSE i \in Images : TRUE
NoThread == [stage |-> "Idle", io |-> "check", attempt |-> 1, packet |-> 0,
             then |-> "Error", image |-> NoImage]

Alive(e) == eng[e].stage # "Idle"
Resting  == {"Idle", "Complete", "Cancelled", "Error"}   \* not isBusy
NoButton == <<"none", "idle">>

Request(cmd) == [cmd |-> cmd]

Packets(e) == (Len(eng[e].image) + ChunkSize - 1) \div ChunkSize

\* Packet i (from 0) of split_into_packets: an offset and at most ChunkSize bytes.
Packet(image, i) ==
  LET off == i * ChunkSize
      end == IF off + ChunkSize < Len(image) THEN off + ChunkSize ELSE Len(image)
  IN  [cmd |-> "transfer_data", off |-> off, data |-> SubSeq(image, off + 1, end)]

\* A request that declares the file.
Declare(cmd, image) == [cmd |-> cmd, size |-> Len(image), crc |-> image]

\* The request each stage sends.
StageRequest(e) ==
  CASE eng[e].stage = "Handshaking"       -> Request("handshake")
    [] eng[e].stage = "GettingDeviceInfo" -> Request("get_dev_info")
    [] eng[e].stage = "Erasing"           -> Declare("start_upgrade", eng[e].image)
    [] eng[e].stage = "Transferring"      -> Packet(eng[e].image, eng[e].packet)
    [] eng[e].stage = "Completing"        -> Declare("transfer_done", eng[e].image)
    [] eng[e].stage = "Verifying"         -> Request("verify_firmware")
    [] eng[e].stage = "SettingBootFlag"   -> [cmd |-> "set_boot_flag", flag |-> 1]
    [] eng[e].stage = "Resetting"         -> Request("reset_run")
    [] OTHER                              -> Request("get_log")

\* is_error_response: exactly four bytes of 0xFF.
IsError(r) == r.code = 255 /\ r.len = 4

\* Somebody is inside with_conn.
Locked == gui[2] = "wait" \/ \E e \in Engines : eng[e].io = "wait"

HostInit ==
  /\ eng = [e \in Engines |-> NoThread]
  /\ shown = "Idle" /\ conn = TRUE
  /\ cancel_flag = FALSE /\ gui = NoButton
  /\ toDev = <<>> /\ toPc = <<>>
  /\ overlap = FALSE /\ reported = NoImage /\ runs = 0 /\ presses = 0

-----------------------------------------------------------------------------
(* A thread of the engine. *)

Put(e, state) == eng' = [eng EXCEPT ![e] = state]

\* emit_stage, and on to the stage's first send_frame.
Goto(e, s) ==
  /\ Put(e, [eng[e] EXCEPT !.stage = s, !.io = "check", !.attempt = 1])
  /\ shown' = s

\* poll_logs: one exchange without retries or cancellation, result ignored.
PollThen(e, s) ==
  Put(e, [eng[e] EXCEPT !.stage = "PollingLogs", !.io = "lock", !.then = s])

\* do_upgrade returns an error: logs are polled before it is emitted ...
Fail(e) == PollThen(e, "Error") /\ UNCHANGED shown

\* ... but some errors have been emitted by then.
FailShown(e) == PollThen(e, "Error") /\ shown' = "Error"

\* The thread ends with its last event.
End(e, s) ==
  /\ Put(e, NoThread)
  /\ shown' = s

\* The file is read by the thread: the window knows of the run only after it.
LoadFirmware(e) ==
  /\ eng[e].stage = "Loading"
  /\ Goto(e, "Handshaking") \/ FailShown(e)
  /\ UNCHANGED <<conn, cancel_flag, gui, linkVars, bounds>>

\* is_cancelled between the steps, or in send_frame before an attempt.
CheckCancelled(e) ==
  /\ eng[e].stage \in Stages /\ eng[e].io = "check" /\ cancel_flag
  /\ Fail(e)
  /\ UNCHANGED <<conn, cancel_flag, gui, linkVars, bounds>>

\* The top of the transfer loop also tells the device, and does not wait.
CancelInTransfer(e) ==
  /\ eng[e].stage = "Transferring" /\ eng[e].io = "check"
  /\ eng[e].attempt = 1 /\ eng[e].packet < Packets(e)
  /\ cancel_flag /\ ~Locked
  /\ toDev' = IF conn THEN Append(toDev, Request("cancel_upgrade")) ELSE toDev
  /\ PollThen(e, "Error") /\ shown' = "Cancelled"
  /\ UNCHANGED <<conn, cancel_flag, gui, toPc, bounds>>

GoOnOneTooFar(e) ==   \* variant: one packet more than the file has
  /\ eng[e].stage \in Stages /\ eng[e].io = "check" /\ ~cancel_flag
  /\ IF eng[e].stage = "Transferring" /\ eng[e].packet > Packets(e)
       THEN Goto(e, "Completing")
       ELSE Put(e, [eng[e] EXCEPT !.io = "lock"]) /\ UNCHANGED shown
  /\ UNCHANGED <<conn, cancel_flag, gui, linkVars, bounds>>

CheckGoOn(e) ==
  /\ eng[e].stage \in Stages /\ eng[e].io = "check" /\ ~cancel_flag
  /\ IF eng[e].stage = "Transferring" /\ eng[e].packet >= Packets(e)
       THEN Goto(e, "Completing")
       ELSE Put(e, [eng[e] EXCEPT !.io = "lock"]) /\ UNCHANGED shown
  /\ UNCHANGED <<conn, cancel_flag, gui, linkVars, bounds>>

SendUnlocked(e) ==   \* variant: the mutex is not taken
  /\ eng[e].io = "lock" /\ conn
  /\ toDev' = Append(toDev, StageRequest(e))
  /\ Put(e, [eng[e] EXCEPT !.io = "wait"])
  /\ UNCHANGED <<windowVars, toPc, bounds>>

SendFrame(e) ==
  /\ eng[e].io = "lock" /\ ~Locked /\ conn
  /\ toDev' = Append(toDev, StageRequest(e))
  /\ Put(e, [eng[e] EXCEPT !.io = "wait"])
  /\ UNCHANGED <<windowVars, toPc, bounds>>

\* A result is looked at only if the answer has the five bytes of one.
VerifyIgnored(e, r) == Goto(e, "SettingBootFlag")   \* variant: the result is not looked at
Verified(e, r) ==
  IF r.len >= 5 /\ r.code # 0 THEN FailShown(e) ELSE Goto(e, "SettingBootFlag")

TooLarge(e, r) == r.len >= 34 /\ Len(eng[e].image) > FlashTotal

\* poll_logs returns, with or without an answer.
Polled(e) ==
  CASE eng[e].then = "Failing" -> Fail(e)
    [] eng[e].then = "Error"   -> End(e, "Error")
    [] OTHER                   -> Goto(e, eng[e].then)

\* What the engine makes of the frame it took for the answer.
Digest(e, r) ==
  CASE eng[e].stage = "PollingLogs" -> Polled(e)
    [] eng[e].stage = "SettingBootFlag" ->
         /\ PollThen(e, IF IsError(r) THEN "Failing" ELSE "Resetting")
         /\ UNCHANGED shown
    [] eng[e].stage \in Stages \ {"SettingBootFlag"} /\ IsError(r) -> Fail(e)
    [] eng[e].stage = "Handshaking" /\ ~IsError(r) -> Goto(e, "GettingDeviceInfo")
    [] eng[e].stage = "GettingDeviceInfo" /\ ~IsError(r) ->
         IF TooLarge(e, r) THEN FailShown(e) ELSE Goto(e, "Erasing")
    [] eng[e].stage = "Erasing" /\ ~IsError(r) ->
         IF r.len >= 4 /\ r.code = 0 THEN Goto(e, "Transferring") ELSE Fail(e)
    [] eng[e].stage = "Transferring" /\ ~IsError(r) ->
         /\ Put(e, [eng[e] EXCEPT !.packet = @ + 1, !.io = "check", !.attempt = 1])
         /\ shown' = "Transferring"
    [] eng[e].stage = "Completing" /\ ~IsError(r) -> Goto(e, "Verifying")
    [] eng[e].stage = "Verifying" /\ ~IsError(r) -> Verified(e, r)
    [] eng[e].stage = "Resetting" /\ ~IsError(r) -> End(e, "Complete")

RecvFrame(e) ==
  /\ eng[e].io = "wait" /\ toPc # <<>>
  /\ Digest(e, Head(toPc))
  /\ toPc' = Tail(toPc)
  /\ reported' = IF shown' = "Complete" THEN eng[e].image ELSE reported
  /\ UNCHANGED <<conn, cancel_flag, gui, toDev, overlap, runs, presses>>

RetryForEver(e) ==   \* variant: attempts are not counted
  /\ Put(e, [eng[e] EXCEPT !.io = "check"])
  /\ UNCHANGED shown

\* with_conn returned an error: another attempt, or the run fails.
NoAnswer(e) ==
  IF eng[e].stage = "PollingLogs" THEN Polled(e)
  ELSE IF eng[e].attempt < MaxRetries
    THEN Put(e, [eng[e] EXCEPT !.io = "check", !.attempt = @ + 1]) /\ UNCHANGED shown
    ELSE FailShown(e)

RecvTimeout(e) ==
  /\ eng[e].io = "wait" /\ toPc = <<>>
  /\ NoAnswer(e)
  /\ UNCHANGED <<conn, cancel_flag, gui, linkVars, bounds>>

NotConnected(e) ==
  /\ eng[e].io = "lock" /\ ~Locked /\ ~conn
  /\ NoAnswer(e)
  /\ UNCHANGED <<conn, cancel_flag, gui, linkVars, bounds>>

EngineStep(e) ==
  \/ LoadFirmware(e) \/ CheckCancelled(e) \/ CancelInTransfer(e) \/ CheckGoOn(e)
  \/ SendFrame(e) \/ RecvFrame(e) \/ NotConnected(e)

-----------------------------------------------------------------------------
(* The buttons.  A press enters the command; the commands run one at a     *)
(* time and all take the mutex.  Cancel is enabled while the window shows  *)
(* a running upgrade and raises the flag at once; disconnecting is enabled *)
(* while connected and resets what the window shows at once.               *)

Enabled(cmd) ==
  CASE cmd = "cancel_upgrade"    -> shown \notin Resting
    [] cmd = "disconnect_serial" -> conn
    [] cmd = "connect_serial"    -> ~conn
    [] OTHER                     -> conn /\ shown \in Resting

Press(cmd) ==
  /\ gui = NoButton /\ Enabled(cmd)
  /\ gui' = <<cmd, "lock">>
  /\ cancel_flag' = (cancel_flag \/ cmd = "cancel_upgrade")
  /\ shown' = IF cmd = "disconnect_serial" THEN "Idle" ELSE shown
  /\ UNCHANGED <<eng, conn, linkVars>>

PressStart ==
  /\ runs < MaxRuns /\ \E e \in Engines : ~Alive(e)
  /\ Press("start_upgrade")
  /\ runs' = runs + 1
  /\ UNCHANGED <<overlap, reported, presses>>

PressOther(cmd) ==
  /\ presses < MaxPresses
  /\ Press(cmd)
  /\ presses' = presses + 1
  /\ UNCHANGED <<overlap, reported, runs>>

\* The command has the mutex.
Executes(cmd) == gui = <<cmd, "lock">> /\ ~Locked
Returns == gui' = NoButton

\* start_upgrade: is_connected, then run_upgrade spawns a thread.
RunUpgrade(e) ==
  /\ Executes("start_upgrade") /\ Returns
  /\ ~Alive(e)
  /\ IF conn
       THEN /\ \E chosen \in Images :
                 Put(e, [eng[e] EXCEPT !.stage = "Loading", !.image = chosen])
            /\ cancel_flag' = FALSE
            /\ overlap' = (overlap \/ \E o \in Engines : Alive(o))
       ELSE UNCHANGED <<eng, cancel_flag, overlap>>
  /\ UNCHANGED <<shown, conn, linkVars, reported, runs, presses>>

\* The connection is dropped, and with it the queue of frames.
Disconnect ==
  /\ Executes("disconnect_serial") /\ Returns
  /\ conn' = FALSE /\ toPc' = <<>>
  /\ UNCHANGED <<eng, shown, cancel_flag, toDev, bounds>>

\* Opening the port may fail.
Connect ==
  /\ Executes("connect_serial") /\ Returns
  /\ conn' \in BOOLEAN
  /\ UNCHANGED <<eng, shown, cancel_flag, linkVars, bounds>>

Exchanging == gui[1] \notin {"start_upgrade", "disconnect_serial", "connect_serial"}

ButtonUnlocked ==   \* variant: the mutex is not taken
  /\ Exchanging /\ gui[2] = "lock" /\ conn
  /\ toDev' = Append(toDev, Request(gui[1]))
  /\ gui' = <<gui[1], "wait">>
  /\ UNCHANGED <<eng, shown, conn, cancel_flag, toPc, bounds>>

ButtonSend ==
  /\ Exchanging /\ Executes(gui[1]) /\ conn
  /\ toDev' = Append(toDev, Request(gui[1]))
  /\ gui' = <<gui[1], "wait">>
  /\ UNCHANGED <<eng, shown, conn, cancel_flag, toPc, bounds>>

ButtonNotConnected ==
  /\ Exchanging /\ Executes(gui[1]) /\ ~conn /\ Returns
  /\ UNCHANGED <<eng, shown, conn, cancel_flag, linkVars, bounds>>

ButtonRecv ==
  /\ gui[2] = "wait" /\ toPc # <<>> /\ Returns
  /\ toPc' = Tail(toPc)
  /\ UNCHANGED <<eng, shown, conn, cancel_flag, toDev, bounds>>

ButtonRetries ==   \* variant: a button's command is sent again and again
  /\ gui[2] = "wait" /\ toPc = <<>>
  /\ gui' = <<gui[1], "lock">>
  /\ UNCHANGED <<eng, shown, conn, cancel_flag, linkVars, bounds>>

ButtonTimeout ==
  /\ gui[2] = "wait" /\ toPc = <<>> /\ Returns
  /\ UNCHANGED <<eng, shown, conn, cancel_flag, linkVars, bounds>>

CommandStep ==
  \/ \E e \in Engines : RunUpgrade(e)
  \/ Disconnect \/ Connect
  \/ ButtonSend \/ ButtonNotConnected \/ ButtonRecv

HostNext ==
  \/ \E e \in Engines : EngineStep(e)
  \/ PressStart
  \/ \E cmd \in Buttons : PressOther(cmd)
  \/ CommandStep
=============================================================================
