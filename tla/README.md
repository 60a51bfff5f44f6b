# A verification project for zephyr_stm32h743

The repository is a collection of Zephyr applications for an STM32H743 board.
Most are demonstrations of one kernel object or one peripheral; one,
`app90_ota`, is a distributed program: firmware on the board and a desktop tool
(Tauri: a Rust backend, a React window) that upgrade the board's firmware over a
serial line. This directory holds TLA+ models of the programs, the TLC
configurations that check them, and theorems that TLAPS checks: about the device's
upgrade state machine, the upgrade over the line, the receive path, the tool's
decoder and the demonstrations. The models are translated from the source; comments
and protocol documents are used only as claims to compare it with.

To repeat: `tlc -config X.cfg M` for the runs below, `tlapm M.tla` for each of the
seven modules named `*_proofs` and for `Induction` (up to a quarter of an hour
each). `PROJECT.json` relates every definition to source lines and
lists runs, hazards, findings and, for every property, a plausible bug (a
*variant* operator, defined in the module just before the definition it would
replace) that breaks it.

## 1. Inventory

### The OTA upgrade (`app90_ota`)

| Component | State | Operations | What is hard |
|---|---|---|---|
| Command handlers, `src/ota_handler.c` | `ota_state`: status, error, `in_progress`, `boot_flag`, declared size and CRC, received size, offset, running CRC; the flash slot `slot1` | ten commands, each handler runs to completion in the main loop and sends one response | each handler tests another part of the state; flash operations fail half way; power fails; 32-bit sums |
| Receive and transmit path, `src/ota_protocol.c`, `main.c` | `rx_buf`, `rx_len`, the UART's DMA position and next buffer; the `ota_frame_t` an answer is sent from | `uart_cb` (interrupt), `ota_process_rx` every 10 ms, `ota_frame_parse`, `ota_send_response` | one buffer has two uses, `rx_len` is shared with the interrupt without a lock, answers are sent out of a stack that is gone |
| Upgrade engine, `rust/.../ota/engine.rs` | for each run a thread with its stage, attempt and packet; one cancel flag for all | `run_upgrade`, `send_frame` with retries, `poll_logs`, cancellation | threads beside the buttons and beside each other; retries, late answers, cancellation anywhere |
| Serial connection, `serial/port.rs`, `serial/mod.rs` | the connection if there is one, its mutex, a queue of frames (`frame_rx`) filled by a reader thread | connect, disconnect, `send_and_recv`, `recv_frame` with timeout | answers are paired with requests by order of arrival only; the port can go away in a run |
| Stream decoder, `protocol/codec.rs`, `frame.rs` | `buf`, `expected_len` | `feed` | reads split frames anywhere, garbage looks like frames |
| Commands and window, `commands/*.rs`, `src/*.tsx` | the stage shown, which enables the buttons | the buttons, cancel | commands compete with the engines for the connection; the window may be idle while an engine is not |

The tool sends a request frame and waits; the device's UART interrupt collects
bytes, its main loop parses a frame, calls the handler, which changes
`ota_state` and the flash and sends a response frame; the tool's reader thread
decodes it into the queue from which whoever holds the mutex takes it. What
makes it correct:

- the staging slot always holds a clean prefix of *one* image, written into
  erased flash; a positive verification means that the slot holds the declared
  image; success reported to the user means that the chosen file is stored;
- every frame sent is executed, once and in order; every answer is taken for the
  request it answers; the device has done what the tool reports;
- an upgrade ends, whatever the line does.

### The demonstrations

`app32_mutex`, `app33_event`, `app34_signal`, `app35_mq`, `app36_fifo`,
`app37_lifo`, `app38_mailbox`, `app39_pipe`, `app40_zbus` and `app41_work_queue`
each start a few threads around one kernel object. Their state is the kernel
object, the place of each thread in its loop, and time: most of what they rely on
is enforced by nothing but the lengths of their sleeps, which is what is worth
checking. Two are driven by interrupts: `app05_uart_dma` echoes what the UART
receives, `app02_key_interrupt` logs two keys. Four talk to a medium and judge
it: `app10_eeprom`, `app20_sdcard`, `app21_sdcard_speed`, `app81_flash_fs`; what
matters is what their verdicts are worth when a call fails, a write is short, a
medium is full, or power fails, and that every path gives back what it took.
`app70_ethernet` serves one TCP connection after another from one loop that
also reads the console. `app01_led`, `app30_task`, `app31_semaphore`,
`app50_spiflash`, `app80_shell` and `app95_bootloader` are not modelled
(section 8).

## 2. Modules

| Module | Models | State and actions |
|---|---|---|
| `OtaDevice` | `ota_handler.c` | the fields of `ota_state`, the slot's content, the last response; one action per handler (its early returns and failures as disjuncts), `PowerLoss` |
| `StagedImage` | abstract specification | an image that is begun empty, grows at its end, is sealed, dropped or broken |
| `OtaDeviceStaging` | refinement | what of `OtaDevice` is the phase and the image of `StagedImage` |
| `OtaHost` | engines, connection, buttons | `eng` maps each thread to its `stage` (the engine's `UpgradeStage`), its packet and attempt, and `io`, where a `send_frame` has got to: checking the cancel flag, waiting for the mutex, waiting for the answer; `gui` is a button's command in the same way; `shown` is the stage the window shows |
| `OtaSystem` | both with the line | `toDev`, `toPc` carry frames in order; `DeviceStep` dispatches as `ota_frame_process`; line faults are chosen by the constant `Faults` |
| `OtaRx` | receive and transmit path, byte by byte | both DMA directions, the interrupt, and one action per access of the main loop to `rx_len` |
| `FrameChannel` | abstract specification | what a host may expect of the receive path: each frame is delivered, in order; implemented by `OtaRx` (`ChannelSpec`) |
| `FrameDecoder` | `FrameDecoder::feed` | one `Feed` per read, the rounds of its loop as a recursive function |
| `Sleeping` | `k_msleep` | a timer for each thread; time passes when no thread can run |
| `MutexDemo`, `EventDemo`, `SignalDemo`, `MsgqDemo`, `FifoAlloc`, `FifoPool`, `LifoDemo`, `MailboxDemo`, `PipeDemo`, `ZbusDemo`, `WorkQueue` | app32 to app41 | one action per kernel call of each thread |
| `UartEcho`, `KeyInterrupt` | app05, app02 | one action per event of the callbacks |
| `FileSystem` | external: Zephyr's file systems | a file is a sequence of cells; opening, writing (short when the medium is full), reading, closing, power loss; FAT may lose what LittleFS keeps |
| `SdCard`, `SdSpeed`, `FlashFs` | app20, app21, app81 | one action per call with its errors, and the reset after which the program runs again on what it left |
| `Eeprom` | app10 | write, write cycle, read, verdict |
| `TcpConsole` | app70 | set-up, accept, the two halves of the loop in `handle_client`, the peer |
| `Demos` | the demonstrations together | `app` is the program that is flashed, chosen in the initial state; a step is one of its steps, the other programs' variables stay as they are |
| `MCOtaDevice`, `MCOtaSystem`, `MCOtaRx`, `MCFrameDecoder`, `MCDemos` | values for TLC | |
| `OtaSystem_proofs`, `OtaRx_proofs`, `FrameDecoder_proofs`, `Demos_proofs`, `DemoBuffers_proofs`, `DemoTiming_proofs`, `DemoStorage_proofs` | theorems | section 6 |
| `Induction` | lemmas | induction over the natural numbers and recursive functions, for the proofs that need them |

Abstractions that matter when reading them:

- **A handler is one step.** Handlers run in the main loop, which nothing
  preempts but the UART interrupt, and that touches only the receive buffer.
  `STATUS_ERASING` exists only inside one handler and is therefore not seen. A
  power loss inside an erase or a write is a disjunct of `PowerLoss`.
- **A CRC is the sequence of bytes it was computed over**, so
  `crc32_ieee_update` is concatenation. The code only compares CRCs; collisions
  are left out.
- **Sizes keep their width**: `Add32` wraps at `U32`, which stands for 2^32.
- **A response is its first byte and its length.** That is all the tool looks
  at: `is_error_response` wants exactly four bytes of 0xFF. Refusals are four,
  five or one byte long, depending on the handler; the models keep that, because
  it decides what the tool takes for success.
- **Frames in `OtaSystem` are records**, never fragments: framing is the subject
  of `OtaRx` and `FrameDecoder`, where frames are scaled down to a mark, a
  length, data and a tail.
- **Undefined behaviour** is a choice: the `memcpy` in `uart_cb` whose source and
  target overlap gives either a correct copy or a smeared one; the 0 that
  `app39_pipe` writes behind a full buffer hits either nothing or the count of
  reads; the memory an answer is sent from starts with any byte at its end.
  Every call of `ota_send_response` is taken to have its `ota_frame_t` at the
  same place of the stack, as all are called from the same depth.
- **The window** gets events at once and in order. A start pressed while another
  command runs is not queued. Disconnecting makes the window idle at once
  (`App.tsx:68`), whatever the engine's thread does; the last event of an old
  thread makes it idle again.
- **The kernel, drivers, file systems and sockets are external**, modelled
  from what their callers see. `k_event_wait` with `reset = true` clears when the
  wait begins; a last `k_mutex_unlock` hands the mutex to the waiter; a full
  zbus subscriber queue makes `zbus_chan_pub` wait with the channel locked and
  then fail after the message has been stored; whether `k_pipe_read` waits for
  all it asked for is left open; any file operation can fail, and closing a file
  that fails to close gives it up all the same.
- **Bytes in the demonstrations** are abstracted to what the verdicts compare: a
  byte of a pipe is the number of its message, a cell of a file one write unit.
- **Time in the demonstrations.** A thread takes no time between kernel calls and
  sleeps for at least as long as it asked, at most `Slack` units longer (the
  kernel rounds up to ticks, and other threads run first). Where no property
  depends on durations (`MutexDemo`, `EventDemo`, `MailboxDemo`) a sleep takes
  any time. The two examples in one program share nothing, so one behaviour
  runs one of them (`WorkQueue` runs both, as its `main` waits between them).

## 3. Runs

| Run | Module, cfg | Checks | States |
|---|---|---|---|
| `device` | `MCOtaDevice` | the device alone under any sequence of commands with any size, offset and data, failing flash and power losses: type, the five invariants that the proofs combine, `AcknowledgedKept`, and that it implements `StagedImage` | 43 237 |
| `system_reliable` | `MCOtaSystem_reliable` | the line flips bytes and the device can lose its power at any moment, inside a flash operation too; two upgrades of two files in two threads, which can run at once, and one press of verify or disconnect: success means stored unless two upgrades overlapped (`CompleteMeansStored`), even then a verification passes on one whole file (`VerifiedIsAFile`), exchanges never overlap (`OneExchange`), every answer is the right one (`AnswersMatch`) | 3 512 417 |
| `system_faulty` | `MCOtaSystem_faulty` | lost and late frames, a cancellation, a disconnection and a reconnection, two presses: an upgrade ends (`RunsEnd`), buttons return (`ButtonsReturn`) | 540 454 |
| `system_twofiles` | `MCOtaSystem_twofiles` | two upgrades of two files one after the other, late answers, retries, power losses: the slot never holds a mix (`NoMixedImage`) | 2 141 898 |
| `rx` | `MCOtaRx` | the six ways of sending below: nothing is lost (`NothingLost`), of frames reported whole, with the interrupt anywhere, the first one executed out of turn in the first lap has been executed before (`WholeFramesStayWhole`), answers arrive whole (`AnswersWhole`), and the receive path implements the ordered channel `FrameChannel` with its liveness (`ChannelSpec`) | 128 892 |
| `decoder` | `MCFrameDecoder` | every garbage of five bytes before two good frames in every split into reads gives what a decoder without a buffer gives (`SplitIrrelevant`) | 16 845 |
| `demos` | `MCDemos` | each demonstration: what its threads, callbacks and verdicts rely on holds (section 5) | 67 559 |
| `system_answers` | `MCOtaSystem_answers` | *violated*: `AnswersMatch` after a cancellation | |
| `system_bootflag` | `MCOtaSystem_bootflag` | *violated*: `BootFlagIsSet` without any fault | |
| `rx_wrap` | `MCOtaRx_wrap` | *violated*: `EveryFrameAnswered` when a frame crosses the end of `rx_buf` | |
| `tx_tail` | `MCOtaRx_tail` | *violated*: `AnswersEndInTail` | |
| `fifo_reput` | `FifoPool`, `FifoPool_reput.cfg` | *violated*: `NoReputWhileQueued` | |

### Bounds, and why they are enough

- `device`: a slot of three cells, chunks of at most two bytes, 32-bit words
  scaled to six values, so that sums wrap within reach; images shorter than,
  equal to and longer than the slot; one byte that looks erased. An upgrade
  takes two or three chunks, so a chunk can come first, in the middle and last,
  and every handler is called in every status. Nothing counts steps: the state
  space is finite by itself.
- `system_*`: files of two bytes sent one by one (two packets: a first and a
  last), two attempts (three where no answer is late), one or two upgrades and
  at most two presses (`MaxRuns`, `MaxPresses`). Two upgrades of different files
  are what it takes to mix images; two threads (`Engines`) and one
  disconnection or one error shown early are what it takes to start the second
  beside the first; two attempts are what it takes to repeat a command that was
  executed. A power loss between the exchanges of two engines is what it takes
  to have both write into one slot. Nothing in these runs stops the user, so they say
  `CHECK_DEADLOCK FALSE`: when the counters are used up and the engine rests the
  system really rests.
- `rx`: frames of 3 to 5 bytes, of which the data includes the header's mark, and
  `RxSize` 12, so that the fourth wraps at a frame boundary; 10 in `rx_wrap`, so
  that the third is cut. `Modes`: three frames back to back reported in any
  pieces; three frames by a host that waits for each answer; four frames with
  the interrupt anywhere in the pass; two frames behind one, two or three bytes
  of garbage, as many as the shortest frame. An answer is four bytes out of a
  structure with room for one more (`MaxData`), enough for the tail to lie
  behind what is sent. The DMA's buffer is never used up between two passes, so
  the drop of bytes that do not fit happens only after the first lap.
- `decoder`: prefix 3, suffix 1; five garbage bytes are enough for a false mark
  with a length that swallows the beginning of a good frame. It ends at the end
  of the stream (`CHECK_DEADLOCK FALSE`).
- `demos`: buffers and queues have their real sizes where they are small
  (message queues 5 and 3, pool 4, `cmd_pool` 6, subscriber queue 4, pipes of 64
  and 32 bytes with messages of 7 and commands of 33) and 3 instead of 64
  in the echo and of 1024 in the console, times are in units of 100 ms to 1 s, `Slack` is
  one to three units, numbers are modulo 3 (`Numbers`). The heap has three
  cells: room for one block with its node, and for a block without a node.
  Files have at most six cells (`MaxRoom`; the medium may be full at any length
  below), `app21`'s chunks are 3 of 2 bytes, so a file can end at and within a
  chunk; two cells lost and two different time stamps tell an old text from a
  new one. The EEPROM test sends 4 bytes to pages of 2 and 4 for the program's
  16 to 8 and 16. The console knows two keys and two waiting bytes (`MaxQueued`).

### Fairness

`OtaSystem`: weak fairness of the device's main loop, each engine's thread, the
button's command and the expiry of timeouts; none for the user, and none for
faults. The Zephyr scheduler and the operating system of the PC justify it; a
mutex that is released is eventually taken because exchanges are finite (the
engine's `CancelInTransfer` has no fairness of its own: `CheckCancelled` is
enabled with it). `OtaRx`: the host sends, bytes arrive and leave, the main loop
runs; strong fairness for the interrupts, because an interrupt that is pending
when the main loop begins a pass is served when it sleeps. `TcpConsole`: the
200 ms of `console_getchar` end, `accept` takes a connection that waits, `recv`
does not block (`MSG_DONTWAIT`), `send` returns once the peer is gone; fairness
presses no key. Other demonstrations: weak fairness of each thread.

## 4. What the OTA runs show

**Device.** `in_progress` is set exactly outside IDLE, which is what makes
`transfer_done`'s single test enough. What is counted as received is in the
slot in order (`SlotHoldsReceived`), and chunks only ever hit erased cells
(`ErasedAhead`), through failing erases and writes, refused commands and power
losses; so "verify OK" means that the slot holds the declared image
(`VerifiedIsStored`) although the tail of the frame is never looked at. The one
crack is in `CompleteSize`: a start refused for its size has already overwritten
the declared size and CRC, so an upgrade that was complete can no longer be
verified.

**System.** As long as answers are neither lost nor late, every answer goes to
its request, and a flipped byte of firmware is caught by the verification. With
late answers that is no longer so: the queue of frames may be one answer behind,
and the tool may report success over a slot it has not verified. Still no mix of
two images arises from upgrades one after the other: packets of an earlier run
can only be refused or land at offset 0.

The window can be idle while an engine still runs, so two engines can be
started; the connection's mutex keeps their exchanges apart, but nothing keeps
their commands apart. As long as the device keeps its power it refuses the
second start while the first upgrade is received, so commands interleave only
around the ends of a transfer; then "complete" may be reported for the file that
was not stored. A power loss, which the first engine does not notice, opens the
device for the second one's start, and from then on it takes the packets of both
that fit its offset: the slot may get a mix of both files (`system_reliable`
reaches that, up to a verification that fails). The size and
CRC that the verification compares with are those of the last accepted
`transfer_done`, which are those of a whole file; that is why what an engine
goes on with is one (`VerifiedIsAFile`). A second start also lowers the cancel
flag and so revives a run that was being cancelled. None of this is promised
otherwise in the documents. `CANCEL` may overtake the engine's
`START` at the mutex, in which case the device ends in RECEIVING after a
cancellation; nothing promises otherwise either.

**Receive and transmit path.** If interrupts come only while the main loop
sleeps, nothing is lost and the path is an ordered channel; garbage in front of
a frame, not longer than a frame, may make `ota_frame_parse` return too short a
length, with the effect that the frame is executed again, but never after a
later one. The unlocked read-modify-write of `rx_len` can lose a frame or execute
one twice; where the interrupt falls in the pass `ChannelSpec` therefore promises
nothing. If the UART reports each frame whole, the first frame executed out of
turn in the first lap is at least one executed before (`WholeFramesStayWhole`).
For frames reported in pieces not even that holds: a piece reported between the
`memmove` and `rx_len -= ...` is put behind the old length, moved bytes of an
older frame stay in front of it, and a frame that nobody sent can be executed. The
UART reports a frame whole only if no pause within it lasts as long as its idle
timeout. A host that waits for its
answers gets each whole although the memory it is sent from belongs to nobody
any more, since the next answer is not built before.

`OtaSystem` takes answers to be well formed, as its tool would otherwise drop
every one of them (finding 4). Also as meant: the two structures of 65 KB that a
handler's answer needs on the main stack, for which `app90_ota/prj.conf` sets no
size, and the asynchronous UART API, which it does not enable.

**Findings** (details and quotations in `PROJECT.json`):

1. After a cancellation in the transfer the engine does not receive the answer
   to its `CANCEL`; every later exchange takes the answer before its own
   (`system_answers`).
2. `verify_firmware` leaves the status VERIFYING, so the `set_boot_flag` and
   `reset_run` that the tool sends next are always refused, with a single 0xFF
   that the tool does not take for an error: it reports the boot flag set and the
   upgrade complete while the device has refused both (`system_bootflag`).
3. `uart_cb` offers the accumulation buffer to the DMA as its next buffer; a
   frame that crosses the end of `rx_buf` is overwritten by its own end and never
   answered (`rx_wrap`).
4. `ota_frame_build` writes the tail where `ota_frame_t` has it, behind room for
   65 535 bytes of data, and `uart_tx` sends only the frame's length: answers end
   in whatever was on the stack, and the tool drops frames without the tail
   (`tx_tail`).
5. `app36_fifo` puts an item that is still in the FIFO, which its own comment
   forbids, after 18 s (`fifo_reput`).

Differences between code and documents that were noticed and are modelled as the
code has them: refusals of five bytes or one byte where `pc_mcu.md` says four
bytes of 0xFF; the handshake sends the minor version byte first; the sequence
number of the tool's frames is always 0; `cancel_upgrade` keeps `boot_flag`;
`boot_flag` is lost at a reset and no swap is ever requested of MCUboot;
`app38_mailbox/src/main.c:65` says that the synchronous sender goes on once its
message has been processed, but the receiver releases it before that. Of the
demonstrations:

- `app37_lifo/src/main.c:90`, `:115`, `:120`, `:185-186` and `doc/IPC.md:320` say
  that an urgent command, pushed after a normal one, is executed before it. It
  never is: the executor takes each command before the next one is pushed, so the
  stack never has two (`LifoPaced`) and commands are executed in the order they are
  pushed.
- `app33_event/src/main.c:68`, `:129` and `doc/IPC.md:136` say that `reset = true`
  clears the events after a successful wait. `k_event_wait` clears when the wait
  begins: the events it returns stay set, and those posted between two waits are
  lost (`EventFresh` relies on it).
- `app21_sdcard_speed/src/main.c:258` prints "Data integrity: PASSED", also over a
  file that is short or empty, or left by an earlier run.
- `app20_sdcard/src/main.c:66` announces to "open (create or overwrite)" a file
  that is opened without `FS_O_TRUNC`: a longer old text keeps its end. And
  "SD Card Test Completed Successfully!" does not cover the file in the directory,
  which may be short or wrong.
- `app81_flash_fs` returns 0 whether or not `fs_unmount` or anything before it has
  failed.

## 5. What the demonstrations' run shows

- `app32`: what the reader copies under the mutex belongs together; every waiter
  gets the mutex or gives up.
- `app33`: what a wait returns was posted after it began, because it begins with
  clearing the rest; so the fusion thread combines readings that are both new, and
  the events of its 300 ms of work are discarded. It comes through again and again
  all the same.
- `app34`: the pauses of the commander are long enough for every command to be
  executed once before the next overwrites it.
- `app35`: no reading in the queue is ever older than eight periods (the bound
  is exact), and the handler never waits its five seconds in vain.
- `app36`: a failed `k_fifo_alloc_put` leaks nothing. In the second example items
  are put again while queued (finding 5): the list loses items but stays a chain
  without a loop, because the item put again is always its head.
- `app37`: the three seconds before the first pop are enough for all pushes; the
  executor keeps pace, with the effect that no urgent command ever overtakes a
  normal one; `cmd_pool`, which is indexed without a bound, lasts for as
  long as `main` runs the example.
- `app38`: the receiver's late fetch gets the data that belongs to its message.
- `app39`: no read returns bytes of two messages, although a command of 33 bytes
  goes into a pipe of 32 and is read 8 bytes at a time: the reset at every third
  read throws away what is left. That holds under the conditions the property
  states: the 0 written behind a full buffer of 8 does not hit the count of
  reads, and in the first example a read returns with what there is.
- `app40`: from the fifth message on every publication fails after 100 ms because
  nobody takes from the subscriber's queue, and yet both observers see every
  message that is stored.
- `app41`: the pauses of `main` are long enough for the delayed work, and for the
  urgent work behind the long one in its queue, to be done when it says so.
- `app02`: edges can share an interrupt and the callback reads the level late,
  yet when no interrupt is due the last line logged tells how the key is. A
  set-up that fails half way leaves the interrupts enabled before it enabled.
- `app20`: "PASSED" means that `test.txt` begins with the text of this run,
  although short writes count as success and the file is opened without
  `FS_O_TRUNC`; a longer old text keeps its end, and the file in the directory is
  written but never verified: it may be short or wrong.
- `app21`: "PASSED" says that no byte that is there is wrong, not that all is
  there: `fs_sync`, `fs_close` and short writes are not looked at, and the file may
  be empty.
- `app81`: a run that reports no error leaves both files exactly as they should
  be, whatever a run before it was doing when power failed.
- `app10`: 16 bytes are sent at once, which a chip of 8-byte pages (the device
  tree's) wraps around: the verdict then is FAILED, and it is SUCCESS only where
  the data is stored.
- `app20`, `app21`, `app70`, `app81`: every path, those of errors included, closes
  its files and sockets and frees its buffer. `app81` calls `fs_unmount` on every
  path behind a mount, which may fail; `app20` and `app21` never unmount.
- `app70`: a peer that hangs up is noticed although nobody types, so the next one
  is served. Data is received into the buffer of the line being typed; the line
  that `send` is given is the one typed when none comes meanwhile, and not
  otherwise. How much of it `send` sends is not looked at.
- `app05`: the echo may have holes but is never garbled, and a sender that waits
  for its echo gets all of it.

## 6. Proofs

TLC checks small instances; the theorems below hold for every value of the
constants that satisfies the assumptions of the modules, which every run
evaluates:

- `ConstantsAssumption`: a slot is far smaller than the word its sizes are
  counted in, `SlotSize + MaxPayload < U32`;
- `HostAssumption`, `FilesAssumption`, `FaultsAssumption`: sizes, chunks and
  retries are not negative or zero where the code's constants are not; a file's
  length fits 32 bits and a chunk fits a frame;
- `RxAssumption`, `DecoderAssumption`, `DemosAssumption`: types, and sizes the
  code fixes above zero.

A theorem that needs more names it as a hypothesis:

| Hypothesis | Says | Where it holds |
|---|---|---|
| `Timely` | no answer comes after its timeout, and nobody cancels | `system_reliable`; without it `AnswersMatch` is false (finding 1). Frames may be lost or changed, and power may fail |
| `InOrder` | one upgrade at a time; nothing is lost or changed on the line (answers may be late, power may fail) | `system_twofiles` |
| `OneLap` | frames are built as `ota_frame_build` builds them and, in the modes that are `Clean` (no preemption, no garbage), fit `rx_buf` once | `rx`; beyond the first lap lies finding 3 |
| `Quiet`, `Distinct` | garbage only where preemption already voids every promise; no two frames are equal | the modes of `rx` but the three with garbage, where a frame can be executed twice |
| `2 <= POOL_SIZE` | `app36` has more than one reserve item | the code has 4; an only item that is put again is linked to itself |
| `BUF_SIZE <= RxTimeout + 2` | the end of a buffer is echoed by the time the line counts as idle | the code: 64 bytes, and a timeout of 60 ms, hundreds of byte times at 115 200 baud; with a buffer longer by one TLC finds `EchoSound` violated |
| `ZbusPunctual`, `LifoPunctual`, `MsgqPunctual` | sleeps end at most 14, 2 and 1 units late | `demos` with 1; one unit more and TLC finds each property violated, so none can be weakened |
| `WorkPunctual` | sleeps in `app41` end at most half a second late | likewise exact |

### The device (`OtaSystem_proofs`)

- `TypeCorrect`, `Safety`: `IInv`, the conjunction of the type invariant and the
  five state invariants. None of them is inductive alone:
  what a write adds to `SlotHoldsReceived` needs the flash behind the offset to
  be in range (`ErasedAhead`), the CRC that a verification recomputes stays the
  running CRC only because a completed upgrade has its size (`CompleteSize`),
  and all need `InProgressMatchesStatus` to know which statuses to consider.
- Each of the five as a theorem of its own (`ProgressIsExact`,
  `ReceivedIsStored`, `WritesHitErasedFlash`, `CompleteHasItsSize`,
  `VerifyIsSound`).
- `AcknowledgedIsKept`: the action property, by cases on the handlers, from
  `IInv` in both states.
- `ImplementsStagedImage`: every handler is a step of `StagedImage` or a stutter.

There is one lemma per handler that changes the state (`StartStep`,
`TransferStep`, `DoneStep`, `VerifyStep`, and `IntoIdle`, `IntoError` for what
several handlers share); `Add32Exact`, `WriteExtendsPrefix` and `WriteKeepsPrefix`
hold the arithmetic and the facts about sequences.

### The system

For any number of threads, files, retries, presses and any faults
(`OtaSystem_proofs`):

- `SysTypeCorrect`, `OneExchangeAtATime` and `DeviceInSystem` (the device's `IInv`
  holds in the system) from `SysInvariant`. Its `SysInv` adds to `IInv` the types
  of threads, frames and buttons, that only what the connection's mutex allows is
  waiting for an answer, and the bounds of the packet number in each stage, so
  that every packet sent lies within its file and the 32-bit sums of the device
  do not wrap. The lemma `SysStepIsDevice` is what carries the device's proof
  over: a step of the system is a step of the device or leaves it alone.

With `Timely`:

- `OneFrameOnTheLine`, `AnswersAnswer`: while someone waits, request or answer or
  neither is under way, and nothing else (`ExchangeInv`); when nobody does, the
  line is empty. So the answer taken is the answer to the request.
- `VerifiedLeavesAFile`: whatever mix a power loss has led to, what is staged was
  declared with the CRC of a file, so a positive answer to `verify_firmware` that is
  under way speaks of a whole file, and nobody else writes before it is taken
  (`AnswerInv`, from `VerifyIsSound`).
- `CompleteIsStored`: `StoredInv` follows an upgrade that no other overlaps: what
  is declared is its file from the answer to its start on, or, after a power loss,
  nothing; the slot holds it from the answer to its verification on, and still does
  when it is reported. A step of an engine,
  which retries, polls the logs or is cancelled at any place, is first reduced to
  one of eight ways a thread may go on (`EngineMoves`).

With `InOrder`:

- `OneImageStaged` (`NoMixedImage`). What the device holds depends on packets that
  are still on the line from runs that have been given up. `ImageInv` says for
  every request on the line that the packets since the last offset 0 before it,
  and, if there is none, what the device has already received, are of one file.

### The receive path (`OtaRx_proofs`)

- `ReceiveTypes` from `InBuffer`, for every mode: no index leaves `rx_buf`,
  whatever interrupts whatever and whatever the line carries.
- `FramesInOrderOnce` (for the clean modes, with any frames in any pieces),
  `AnswersAreWhole` and `ImplementsChannel` from `RxInv`. Its core `LapInv` says
  where the frames lie: the UART writes them into `rx_buf` one behind the other,
  and what has been reported and not executed is held in front of that. So
  `uart_cb` copies to the same or an earlier place (`CopiedForward`), which is why
  its overlapping `memcpy` is harmless in the first lap. `AnswerInv` adds that a host that waits has
  all four bytes of an answer before `resp` is written again.
  `ImplementsChannel` is the safety half of `ChannelSpec`.
- `NothingIsLost`: what has been sent is the concatenation of the frames, a fold.
  `LayoutExists` builds the stream and the place of every frame in it by
  induction (see `Induction` below); `LapInv` then says where each of its bytes is.
- `ReportedWholeStaysWhole`, where frames are reported whole but the interrupt may fall between any two accesses of the
  main loop to `rx_len`. `RaceInv` keeps, as long as every frame so far came in
  turn, both values of `rx_len` that may end up in it: the one that was read
  before the interrupt and the one the interrupt leaves. Whichever it is, the
  parser finds whole frames of the stream in front of it (`Raced`), the next one
  or one that has been there before; so the first frame out of turn is an old
  one, not a piece of two.

### The decoder (`FrameDecoder_proofs`)

- `SplittingIsIrrelevant`: for every set of streams, any mark, any tail and
  lengths of any size, what `feed` has returned is what the stream so far means.
  `DecoderInv` says that the buffer is the stream from some place `p` to the last
  byte fed, and that what has been returned, followed by the frames from `p` on,
  is the meaning not just of what has been fed but of every longer prefix: a byte
  that is dropped can never become part of a frame. One round of the loop keeps
  it (`Holds`); every round but the last takes two bytes or more, so there are
  enough rounds, and after the last the decoder waits for bytes that only a
  further read can bring (`Waits`).

### Induction

The library's theorems about induction take a predicate as a parameter, which the
provers cannot instantiate. `Induction` derives what is needed here from one fact
of the library without such a parameter, that the finite sets of numbers are
well-founded under inclusion: a set of numbers has a least element
(`LeastNatural`), a *set* closed under the successor holds all of them
(`NaturalInduction`, `StrongInduction`), and a function with a given first value
and step exists (`PrimitiveRecursion`). The rounds of `feed`, the meaning of a
stream and the layout of the frames are recursive functions that these lemmas
reach.

### The demonstrations

`Demos_proofs` shows once that a behaviour of `Demos` is one of the program that
is flashed (`StepsApart`, `Behaviour`); each theorem then needs the inductive
invariant of its program only:

- `MutexReadsCohere`: owner, count and places of the threads agree, and
  the data belongs together whenever the writer is not between its two writes.
- `EventsAreFresh`: while the thread waits, the events set are those posted since
  it began, as it began with clearing them; `MailboxKeepsData`: by where sender and receiver are.
- `KeyLogFollows`: the last line differs from the level only while an interrupt
  is pending or its callback has not read yet.
- `SignalsExecuted`, for every slack: as long as the signal is set or being worked
  on, the sender's pause has not ended.
- `LineIsSent`: the safety part of `ConsoleServes`, `send` of `app70` is given the
  line as typed when nothing is received into its buffer meanwhile.
- `DemoBuffers_proofs`:
  - `FifosAreSound`, for any heap and any number of items. `AllocInv` pairs every
    block with its node and keeps the pairs apart (`Apart`), so that no cell is
    counted twice or freed while it is queued. `PoolInv` says that the list holds
    the items from its head to the one put last in the order of the pool, each
    linked to the next; an item that is put again is the head of a list that has
    run once around the pool, and everything behind it drops out.
  - `PipeReadsAreAligned`, for any lateness of the two threads, where the 0 behind a
    full buffer hits nothing that matters and a read of the first example returns
    with what there is. `PipeInv` follows
    how many bytes of the current command are in the pipe at each count of reads:
    enough for all reads before the reset, of one message only.
  - `EchoIsNeverGarbled`, without a hypothesis: the transmission under way is of
    bytes that the DMA has not come round to writing again (`EchoSending`,
    `EchoOrder`). `EchoIsFaithful` adds that a sender that waits for its echo gets
    all of it (`EchoPolite`).
- `DemoTiming_proofs`: `ZbusReachesBoth`, `LifoKeepsPace`, `MsgqKeepsPace`,
  `WorkIsShown`. Here
  the invariants are about sums of timers: how long until the next push, and
  how much is left in the stack or queue by then. The bounds on the slack say how
  much lateness the programs' sleeps leave room for. `WorkInv` has, for each piece
  of work `main` submits, by when it is in its queue, at work and shown, measured
  against what is left of the pause of `main`.
- `DemoStorage_proofs`: `VerdictsHold` and `EverythingReturned` for the four
  programs that judge a medium, with any chunk, page and file sizes, any errors,
  short writes, lost tails and resets. For each program: which files are open
  and what is allocated at each place (`CardPlace`, `SpeedPlace`, `FlashPlace`),
  and what the cells of its file are as far as it has got (`CardInv`, `SpeedInv`,
  `FlashInv`, `EepromInv`); for `app21`, whose verdict compares chunk by
  chunk, cell `i` of a file of any size is cell `i % ChunkSize` of chunk
  `i \div ChunkSize`. `OverwriteCells`, `WrittenCells` and `NextPart` are what the
  operators of `FileSystem` return.

- `DemosAreTyped` (in the same module, which reaches all the invariants): every
  variable of every demonstration keeps its type, for any slack, errors and
  resets. Most of it is part of the invariants above; the programs whose theorems
  have a hypothesis keep their types without it (`PoolTyped`, `ZbusTyped`,
  `LifoTyped`, `MsgqTyped`, `WorkInv`).

### Only model-checked

- Liveness and `ENABLED`, out of the prover's reach: `RunsEnd`, `ButtonsReturn`,
  `MutexGranted`, `EventWaitsEnd`, the half of `ConsoleServes` that says a peer that
  hangs up is noticed, the liveness of `ChannelSpec`.
- `ChannelSpec` in the three modes with garbage, where `ota_frame_parse` may return
  too short a length; `ImplementsChannel` assumes `Quiet`.

Every other property of a passing run is a theorem.

## 7. Plan

Done: the device and its proofs, tool and system, receive path and decoder,
demonstrations; engines side by side, connecting and disconnecting, garbage and
transmission in `OtaRx`, its refinement of an ordered channel, the programs that
store; the proofs of section 6. Left: `ImplementsChannel` with garbage, for which
`LapInv` would have to say what lies in front of a frame that is executed again.

## 8. Not modelled, and why

- OTA: a port error in the middle of a run (it counts as a lost frame), listing
  ports, the failure of `flash_area_open`, the bytes of payloads, the version and
  the model name, the window's layout, logging. A `data_len` above
  65 515 would wrap the 16-bit total in `ota_frame_parse`; the tool never sends
  one, and garbage in `OtaRx` contains no header.
- MCUboot's swap and everything behind a reset: not in this repository
  (`app95_bootloader` configures it).
- `app30_task`: two threads that print. `app31_semaphore`: an empty file.
  `app01_led`: toggles pins. `app50_spiflash`: erase, write, read back
  and print, without a verdict. `app80_shell`: commands of Zephyr's shell that set
  a pin and its flag together, one command at a time.
- Listings, statistics and speeds of `app20` and `app21`, which are only printed;
  errors of the calls that enable reception in `app05`; a read of a pin that fails
  in `app02`, which would be logged as "released".
- `LifoDemo` stops at the overrun of `cmd_pool`, behind which anything may happen.
- Priorities of threads: the demonstrations' properties hold for every order in
  which threads that can run do run.
