------------------------------- MODULE Demos -------------------------------
(***************************************************************************)
(* The demonstration programs, checked together: a behaviour runs the one  *)
(* that is flashed, the variables of the others keep their initial values. *)
(***************************************************************************)
EXTENDS Integers

CONSTANTS
  Slack,          \* bound: program |-> how many units late its sleepers may wake
  MaxWrites,      \* bound: updates by the writer of app32
  Heap,           \* the heap of app36
  POOL_SIZE,      \* items in data_pool of app36
  Numbers,        \* bound: messages of app38 and app39 are numbered modulo Numbers
  MaxValid,       \* messages of app40 that are valid
  QueueSize,      \* of sensor_sub in app40
  BUF_SIZE,       \* of app05 and of app70
  RxTimeout,      \* RX_TIMEOUT_US of app05 in byte times
  MaxBytes,       \* bound: bytes app05 receives
  MaxRoom,        \* bound: cells a file may have
  ChunkSize, ChunkCount,     \* of app21
  TestDataSize, PageSizes,   \* of app10
  Characters,     \* that can be typed into app70
  MaxQueued       \* bound: bytes that wait in a socket of app70

Sleepers == {"alloc", "pool", "lifo", "msgq", "signal", "zbus", "work", "pipe"}

ASSUME DemosAssumption ==
  /\ Slack \in [Sleepers -> Nat]
  /\ MaxWrites \in Nat /\ POOL_SIZE \in Nat \ {0} /\ Numbers \in Nat \ {0}
  /\ MaxValid \in Nat /\ QueueSize \in Nat
  /\ BUF_SIZE \in Nat \ {0} /\ RxTimeout \in Nat \ {0} /\ MaxBytes \in Nat
  /\ MaxRoom \in Nat /\ ChunkSize \in Nat \ {0} /\ ChunkCount \in Nat
  /\ TestDataSize \in Nat \ {0} /\ PageSizes \subseteq Nat \ {0}
  /\ MaxQueued \in Nat

VARIABLES
  app,   \* the program that is flashed
  m_active, m_pc, m_owner, m_count, m_depth, m_counter, m_buffer, m_seen,
  a_timer, a_used, a_fifo, a_held,
  p_timer, p_index, p_head, p_tail, p_link, p_reput,
  l_example, l_timer, l_stack, l_idx, l_popped, l_overrun,
  q_example, q_timer, q_queue, q_pending, q_last, q_waiting,
  e_example, e_events, e_turn, e_waiter, e_received, e_posted,
  s_example, s_timer, s_signaled, s_result, s_state, s_next, s_pc, s_due,
  b_example, b_sender, b_data, b_mbox, b_receiver, b_rx, b_sem,
  z_timer, z_count, z_chan, z_locked, z_queued, z_heard, z_seen,
  u_polite, u_burst, u_received, u_buf, u_cur, u_pos, u_from, u_next, u_idx,
  u_gap, u_tx, u_echo, u_dropped,
  k_done, k_returned, k_level, k_pending, k_isr, k_log,
  w_timer, w_steps, w_queues, w_busy, w_log,
  i_example, i_greedy, i_behind, i_timer, i_number, i_pipe, i_buf, i_waiting,
  i_resets, i_got,
  d_disk, d_file, d_room,   \* the medium of the three storage programs
  c_step, c_phase, c_run, c_buf, c_verdict,
  v_pc, v_chunk, v_heap, v_ok, v_verdict,
  f_step, f_phase, f_mounted, f_failed,
  r_page, r_memory, r_busy, r_step, r_data, r_result,
  t_pc, t_sockets, t_peer, t_queued, t_buf, t_idx, t_typed, t_dirty, t_out

mutexVars == <<m_active, m_pc, m_owner, m_count, m_depth, m_counter,
               m_buffer, m_seen>>
allocVars == <<a_timer, a_used, a_fifo, a_held>>
poolVars == <<p_timer, p_index, p_head, p_tail, p_link, p_reput>>
lifoVars == <<l_example, l_timer, l_stack, l_idx, l_popped, l_overrun>>
msgqVars == <<q_example, q_timer, q_queue, q_pending, q_last, q_waiting>>
eventVars == <<e_example, e_events, e_turn, e_waiter, e_received, e_posted>>
signalVars == <<s_example, s_timer, s_signaled, s_result, s_state, s_next,
                s_pc, s_due>>
mailboxVars == <<b_example, b_sender, b_data, b_mbox, b_receiver, b_rx, b_sem>>
zbusVars == <<z_timer, z_count, z_chan, z_locked, z_queued, z_heard, z_seen>>
echoVars == <<u_polite, u_burst, u_received, u_buf, u_cur, u_pos, u_from,
              u_next, u_idx, u_gap, u_tx, u_echo, u_dropped>>
keyVars == <<k_done, k_returned, k_level, k_pending, k_isr, k_log>>
workVars == <<w_timer, w_steps, w_queues, w_busy, w_log>>
pipeVars == <<i_example, i_greedy, i_behind, i_timer, i_number, i_pipe, i_buf,
              i_waiting, i_resets, i_got>>
mediumVars == <<d_disk, d_file, d_room>>
cardVars == <<c_step, c_phase, c_run, c_buf, c_verdict>>
speedVars == <<v_pc, v_chunk, v_heap, v_ok, v_verdict>>
flashFsVars == <<f_step, f_phase, f_mounted, f_failed>>
eepromVars == <<r_page, r_memory, r_busy, r_step, r_data, r_result>>
tcpVars == <<t_pc, t_sockets, t_peer, t_queued, t_buf, t_idx, t_typed,
             t_dirty, t_out>>

Mutex == INSTANCE MutexDemo WITH
  MaxWrites <- MaxWrites, active <- m_active, pc <- m_pc, owner <- m_owner,
  count <- m_count, depth <- m_depth, shared_counter <- m_counter,
  shared_buffer <- m_buffer, seen <- m_seen

Alloc == INSTANCE FifoAlloc WITH
  Slack <- Slack["alloc"], Heap <- Heap,
  timer <- a_timer, used <- a_used, fifo <- a_fifo, held <- a_held

Pool == INSTANCE FifoPool WITH
  Slack <- Slack["pool"], POOL_SIZE <- POOL_SIZE, timer <- p_timer,
  pool_index <- p_index, head <- p_head, tail <- p_tail, link <- p_link,
  reput <- p_reput

Lifo == INSTANCE LifoDemo WITH
  Slack <- Slack["lifo"], example <- l_example, timer <- l_timer, stack <- l_stack,
  idx <- l_idx, popped <- l_popped, overrun <- l_overrun

Msgq == INSTANCE MsgqDemo WITH
  Slack <- Slack["msgq"], example <- q_example, timer <- q_timer, queue <- q_queue,
  pending <- q_pending, last <- q_last, waiting <- q_waiting

Event == INSTANCE EventDemo WITH
  example <- e_example, events <- e_events, turn <- e_turn,
  waiter <- e_waiter, received <- e_received, posted <- e_posted

Signal == INSTANCE SignalDemo WITH
  Slack <- Slack["signal"], example <- s_example, timer <- s_timer,
  signaled <- s_signaled, result <- s_result, state <- s_state, next <- s_next,
  pc <- s_pc, due <- s_due

Mailbox == INSTANCE MailboxDemo WITH
  Numbers <- Numbers, example <- b_example, sender <- b_sender, data <- b_data,
  mbox <- b_mbox, receiver <- b_receiver, rx <- b_rx, done_sem <- b_sem

Zbus == INSTANCE ZbusDemo WITH
  Slack <- Slack["zbus"], MaxValid <- MaxValid, QueueSize <- QueueSize,
  timer <- z_timer, count <- z_count, chan <- z_chan, locked <- z_locked,
  queued <- z_queued, heard <- z_heard, seen <- z_seen

Echo == INSTANCE UartEcho WITH
  BUF_SIZE <- BUF_SIZE, Timeout <- RxTimeout, MaxBytes <- MaxBytes, polite <- u_polite,
  burst <- u_burst, received <- u_received, rx_buf <- u_buf, cur <- u_cur,
  pos <- u_pos, from <- u_from, next_buf <- u_next, rx_buf_idx <- u_idx,
  gap <- u_gap, tx <- u_tx, echo <- u_echo, dropped <- u_dropped

Key == INSTANCE KeyInterrupt WITH
  done <- k_done, returned <- k_returned, level <- k_level,
  pending <- k_pending, isr <- k_isr, log <- k_log

Work == INSTANCE WorkQueue WITH
  Slack <- Slack["work"], timer <- w_timer, steps <- w_steps, queues <- w_queues,
  busy <- w_busy, log <- w_log

Pipe == INSTANCE PipeDemo WITH
  Slack <- Slack["pipe"], Numbers <- Numbers, example <- i_example, greedy <- i_greedy,
  behind <- i_behind, timer <- i_timer, number <- i_number, pipe <- i_pipe,
  buf <- i_buf, waiting <- i_waiting, reset_count <- i_resets, got <- i_got

Card == INSTANCE SdCard WITH
  Atomic <- FALSE, MaxRoom <- MaxRoom, Bad <- "bad", disk <- d_disk,
  file <- d_file, room <- d_room, step <- c_step, phase <- c_phase,
  run <- c_run, read_buf <- c_buf, verdict <- c_verdict

Speed == INSTANCE SdSpeed WITH
  Atomic <- FALSE, MaxRoom <- MaxRoom, Bad <- -1, ChunkSize <- ChunkSize,
  ChunkCount <- ChunkCount, disk <- d_disk, file <- d_file, room <- d_room, pc <- v_pc,
  chunk <- v_chunk, heap <- v_heap, verify_ok <- v_ok, verdict <- v_verdict

LittleFs == INSTANCE FlashFs WITH
  Atomic <- TRUE, MaxRoom <- MaxRoom, Bad <- "bad", disk <- d_disk,
  file <- d_file, room <- d_room, step <- f_step, phase <- f_phase,
  mounted <- f_mounted, failed <- f_failed

At24 == INSTANCE Eeprom WITH
  TestDataSize <- TestDataSize, PageSizes <- PageSizes, page <- r_page,
  memory <- r_memory, busy <- r_busy, step <- r_step, read_data <- r_data,
  result <- r_result

Tcp == INSTANCE TcpConsole WITH
  BUF_SIZE <- BUF_SIZE, Keys <- Characters, MaxQueued <- MaxQueued, pc <- t_pc,
  sockets <- t_sockets, peer <- t_peer, queued <- t_queued, buf <- t_buf,
  idx <- t_idx, typed <- t_typed, dirty <- t_dirty, out <- t_out

-----------------------------------------------------------------------------

Apps == {"mutex", "alloc", "pool", "lifo", "msgq", "event", "signal",
         "mailbox", "zbus", "echo", "key", "work", "pipe", "sdcard", "speed",
         "flashfs", "eeprom", "tcp"}

StorageApps == {"sdcard", "speed", "flashfs"}

\* The programs that are not flashed need one initial state only.
Init ==
  /\ app \in Apps
  /\ Mutex!Init   /\ (app # "mutex"   => m_active = {"recursive"})
  /\ Lifo!Init    /\ (app # "lifo"    => l_example = 1)
  /\ Msgq!Init    /\ (app # "msgq"    => q_example = 1)
  /\ Event!Init   /\ (app # "event"   => e_example = "any")
  /\ Signal!Init  /\ (app # "signal"  => s_example = 1)
  /\ Mailbox!Init /\ (app # "mailbox" => b_example = "sync")
  /\ Echo!Init    /\ (app # "echo"    => u_polite = TRUE)
  /\ Alloc!Init /\ Pool!Init /\ Zbus!Init
  /\ Key!Init     /\ (app # "key"     => k_level = [k \in Key!Keys |-> 0])
  /\ Pipe!Init    /\ (app # "pipe"    =>
                       i_example = 1 /\ i_greedy = TRUE /\ i_behind = "nothing")
  /\ Card!Init /\ Speed!Init /\ LittleFs!Init
  /\ (app \notin StorageApps => d_room = 0)
  /\ At24!Init    /\ (app # "eeprom"  => r_page = 2)
  /\ Work!Init /\ Tcp!Init

\* A step of program a leaves the variables of the others alone.
Only(a) ==
  /\ UNCHANGED app
  /\ a # "mutex"   => UNCHANGED mutexVars
  /\ a # "alloc"   => UNCHANGED allocVars
  /\ a # "pool"    => UNCHANGED poolVars
  /\ a # "lifo"    => UNCHANGED lifoVars
  /\ a # "msgq"    => UNCHANGED msgqVars
  /\ a # "event"   => UNCHANGED eventVars
  /\ a # "signal"  => UNCHANGED signalVars
  /\ a # "mailbox" => UNCHANGED mailboxVars
  /\ a # "zbus"    => UNCHANGED zbusVars
  /\ a # "echo"    => UNCHANGED echoVars
  /\ a # "key"     => UNCHANGED keyVars
  /\ a # "work"    => UNCHANGED workVars
  /\ a # "pipe"    => UNCHANGED pipeVars
  /\ a # "sdcard"  => UNCHANGED cardVars
  /\ a # "speed"   => UNCHANGED speedVars
  /\ a # "flashfs" => UNCHANGED flashFsVars
  /\ a \notin StorageApps => UNCHANGED mediumVars
  /\ a # "eeprom"  => UNCHANGED eepromVars
  /\ a # "tcp"     => UNCHANGED tcpVars

vars == <<app, mutexVars, allocVars, poolVars, lifoVars, msgqVars,
          eventVars, signalVars, mailboxVars, zbusVars, echoVars, keyVars,
          workVars, pipeVars, mediumVars, cardVars, speedVars, flashFsVars,
          eepromVars, tcpVars>>

\* Programs that come to an end: nothing happens any more.
Ended ==
  /\ \/ app = "work" /\ Work!Ended
     \/ app = "tcp" /\ Tcp!Ended
  /\ UNCHANGED vars

Next ==
  \/ app = "mutex"   /\ Mutex!Next   /\ Only("mutex")
  \/ app = "alloc"   /\ Alloc!Next   /\ Only("alloc")
  \/ app = "pool"    /\ Pool!Next    /\ Only("pool")
  \/ app = "lifo"    /\ Lifo!Next    /\ Only("lifo")
  \/ app = "msgq"    /\ Msgq!Next    /\ Only("msgq")
  \/ app = "event"   /\ Event!Next   /\ Only("event")
  \/ app = "signal"  /\ Signal!Next  /\ Only("signal")
  \/ app = "mailbox" /\ Mailbox!Next /\ Only("mailbox")
  \/ app = "zbus"    /\ Zbus!Next    /\ Only("zbus")
  \/ app = "echo"    /\ Echo!Next    /\ Only("echo")
  \/ app = "key"     /\ Key!Next      /\ Only("key")
  \/ app = "work"    /\ Work!Next     /\ Only("work")
  \/ app = "pipe"    /\ Pipe!Next     /\ Only("pipe")
  \/ app = "sdcard"  /\ Card!Next     /\ Only("sdcard")
  \/ app = "speed"   /\ Speed!Next    /\ Only("speed")
  \/ app = "flashfs" /\ LittleFs!Next /\ Only("flashfs")
  \/ app = "eeprom"  /\ At24!Next     /\ Only("eeprom")
  \/ app = "tcp"     /\ Tcp!Next      /\ Only("tcp")
  \/ Ended

\* The fairness of the programs whose properties need it, see their modules.
Spec ==
  /\ Init /\ [][Next]_vars
  /\ \A t \in Mutex!Threads : WF_mutexVars(app = "mutex" /\ Mutex!Step(t))
  /\ WF_eventVars(app = "event" /\ Event!Produce)
  /\ WF_eventVars(app = "event" /\ Event!WaiterStep)
  /\ \A bit \in Event!Sensors : WF_eventVars(app = "event" /\ Event!Sense(bit))
  /\ WF_tcpVars(app = "tcp" /\ Tcp!NoKey) /\ WF_tcpVars(app = "tcp" /\ Tcp!Accept)
  /\ WF_tcpVars(app = "tcp" /\ (Tcp!Recv \/ Tcp!RecvNothing \/ Tcp!HangUp))
  /\ WF_tcpVars(app = "tcp" /\ t_peer = "closed" /\ Tcp!Send)

-----------------------------------------------------------------------------
(* Properties: those of the programs, stated in their modules.  The ones of  *)
(* a program that is not flashed are about its initial state.                *)

\* Every variable has its type.
DemosTypeOK ==
  /\ Mutex!TypeOK /\ Alloc!TypeOK /\ Pool!TypeOK /\ Lifo!TypeOK /\ Msgq!TypeOK
  /\ Event!TypeOK /\ Signal!TypeOK /\ Mailbox!TypeOK /\ Zbus!TypeOK /\ Echo!TypeOK
  /\ Key!TypeOK /\ Work!TypeOK /\ Pipe!TypeOK /\ At24!TypeOK /\ Tcp!TypeOK
  /\ app = "sdcard"  => Card!TypeOK
  /\ app = "speed"   => Speed!TypeOK
  /\ app = "flashfs" => LittleFs!TypeOK

\* app32: a reader never sees a counter without the buffer that goes with it.
MutexCoherentRead == Mutex!CoherentRead
\* app32: whoever waits for a mutex gets it or gives up.
MutexGranted == Mutex!Granted
\* app36: a failed put leaks nothing, no block in the FIFO is freed, and items put
\* again while they are in the FIFO never close it to a loop.
FifoSound == Alloc!HeapAccounted /\ Pool!ListIsChain
\* app37: tasks come out in reverse, the executor takes each command before the
\* next one is pushed, and cmd_pool is not overrun before the demonstration is
\* over.
LifoPaced == Lifo!InOrder /\ Lifo!PoolLastsForMain
\* app35: no reading in the queue is older than eight periods, and the handler
\* never waits its 5 s in vain.
MsgqPaced == Msgq!NotTooOld /\ Msgq!HandlerIsServed
\* app33: a wait ends on events posted after it began, because it clears the
\* others when it begins.
EventFresh == Event!FreshEvents
\* app33: every wait ends although it discards events.
EventWaitsEnd == Event!WaitsEnd
\* app34: every command is executed once, before it can be overwritten.
SignalExecutedOnce == Signal!ExecutedOnce
\* app38: a message's data is fetched before its buffer is used again.
MailboxDataMatches == Mailbox!DataMatchesInfo
\* app40: every stored message reaches the subscriber and the listener.
ZbusBothObserve == Zbus!BothObserve
\* app05: the echo is never garbled, whoever sends, and a sender that waits for
\* its echo gets all of it.
EchoSound == Echo!EchoInOrder /\ Echo!PoliteEcho
\* app02: when no interrupt is due, what was logged last is how the key is.
KeyLogIsLevel == Key!LogIsLevel
\* app41: what main announces has been shown.
WorkShown == Work!AllShown
\* app39: no read returns bytes of two messages, while the 0 written behind a full
\* buffer hits nothing that matters and a read returns with what there is.
PipeAligned == Pipe!ReadsAligned
\* What the storage programs say of their medium when they are through:
\* app20, "PASSED": test.txt begins with the text of this run;
\* app21, "PASSED": no byte of the file that is there is wrong;
\* app81, no error: hello.txt and data.bin hold what was written, nothing else;
\* app10, "SUCCESS" or "FAILED": the chip's page holds 16 bytes, or does not.
\* That app21's file is complete, or that app20 has stored its second file, is
\* neither looked at by the programs nor true.
StorageTruthful ==
  /\ app = "sdcard"  => Card!PassedIsStored
  /\ app = "speed"   => Speed!PassedIsRight
  /\ app = "flashfs" => LittleFs!RunLeavesBoth
  /\ At24!ResultTellsPage
\* On every path, those of errors too: app20, app21 and app81 close their files,
\* app21 frees its buffer, app81 calls fs_unmount before it returns if it has
\* mounted, and app70 closes its sockets.  (app20 and app21 never unmount.)
ResourcesReturned ==
  /\ app = "sdcard"  => Card!AllClosed
  /\ app = "speed"   => Speed!AllReleased
  /\ app = "flashfs" => LittleFs!AllReleased
  /\ Tcp!AllClosed
\* app70: send is given the line as it was typed unless data came meanwhile, and
\* a peer that hangs up is noticed although nobody types.
ConsoleServes == []Tcp!LineAsTyped /\ Tcp!HangUpNoticed
=============================================================================
