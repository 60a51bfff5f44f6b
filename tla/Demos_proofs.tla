---------------------------- MODULE Demos_proofs ----------------------------
(***************************************************************************)
(* Proofs about the demonstration programs.  For every program: what a     *)
(* step of the composition does to its variables (StepsApart), an          *)
(* inductive invariant over them, and the theorem.                         *)
(***************************************************************************)
EXTENDS Demos, SequenceTheorems, TLAPS

\* The program that is flashed takes the step, the others stand still.
LEMMA StepsApart ==
  ASSUME [Next]_vars
  PROVE  /\ app' = app
         /\ Mutex!Next \/ UNCHANGED mutexVars
         /\ Alloc!Next \/ UNCHANGED allocVars
         /\ Pool!Next \/ UNCHANGED poolVars
         /\ Lifo!Next \/ UNCHANGED lifoVars
         /\ Msgq!Next \/ UNCHANGED msgqVars
         /\ Event!Next \/ UNCHANGED eventVars
         /\ Signal!Next \/ UNCHANGED signalVars
         /\ Mailbox!Next \/ UNCHANGED mailboxVars
         /\ Zbus!Next \/ UNCHANGED zbusVars
         /\ Echo!Next \/ UNCHANGED echoVars
         /\ Key!Next \/ UNCHANGED keyVars
         /\ Work!Next \/ UNCHANGED workVars
         /\ Pipe!Next \/ UNCHANGED pipeVars
         /\ At24!Next \/ UNCHANGED eepromVars
         /\ Tcp!Next \/ UNCHANGED tcpVars
         /\ app = "sdcard"  => Card!Next     \/ UNCHANGED <<cardVars, mediumVars>>
         /\ app = "speed"   => Speed!Next    \/ UNCHANGED <<speedVars, mediumVars>>
         /\ app = "flashfs" => LittleFs!Next \/ UNCHANGED <<flashFsVars, mediumVars>>
<1>1. CASE UNCHANGED vars
  BY <1>1 DEF vars, mutexVars, allocVars, poolVars, lifoVars, msgqVars, eventVars,
      signalVars, mailboxVars, zbusVars, echoVars, keyVars, workVars, pipeVars,
      mediumVars, cardVars, speedVars, flashFsVars, eepromVars, tcpVars
<1>2. CASE app = "mutex" /\ Mutex!Next /\ Only("mutex")
  BY <1>2 DEF Only, StorageApps
<1>3. CASE app = "alloc" /\ Alloc!Next /\ Only("alloc")
  BY <1>3 DEF Only, StorageApps
<1>4. CASE app = "pool" /\ Pool!Next /\ Only("pool")
  BY <1>4 DEF Only, StorageApps
<1>5. CASE app = "lifo" /\ Lifo!Next /\ Only("lifo")
  BY <1>5 DEF Only, StorageApps
<1>6. CASE app = "msgq" /\ Msgq!Next /\ Only("msgq")
  BY <1>6 DEF Only, StorageApps
<1>7. CASE app = "event" /\ Event!Next /\ Only("event")
  BY <1>7 DEF Only, StorageApps
<1>8. CASE app = "signal" /\ Signal!Next /\ Only("signal")
  BY <1>8 DEF Only, StorageApps
<1>9. CASE app = "mailbox" /\ Mailbox!Next /\ Only("mailbox")
  BY <1>9 DEF Only, StorageApps
<1>10. CASE app = "zbus" /\ Zbus!Next /\ Only("zbus")
  BY <1>10 DEF Only, StorageApps
<1>11. CASE app = "echo" /\ Echo!Next /\ Only("echo")
  BY <1>11 DEF Only, StorageApps
<1>12. CASE app = "key" /\ Key!Next /\ Only("key")
  BY <1>12 DEF Only, StorageApps
<1>13. CASE app = "work" /\ Work!Next /\ Only("work")
  BY <1>13 DEF Only, StorageApps
<1>14. CASE app = "pipe" /\ Pipe!Next /\ Only("pipe")
  BY <1>14 DEF Only, StorageApps
<1>15. CASE app = "sdcard" /\ Card!Next /\ Only("sdcard")
  BY <1>15 DEF Only, StorageApps
<1>16. CASE app = "speed" /\ Speed!Next /\ Only("speed")
  BY <1>16 DEF Only, StorageApps
<1>17. CASE app = "flashfs" /\ LittleFs!Next /\ Only("flashfs")
  BY <1>17 DEF Only, StorageApps
<1>18. CASE app = "eeprom" /\ At24!Next /\ Only("eeprom")
  BY <1>18 DEF Only, StorageApps
<1>19. CASE app = "tcp" /\ Tcp!Next /\ Only("tcp")
  BY <1>19 DEF Only, StorageApps
<1> QED
  BY <1>1, <1>2, <1>3, <1>4, <1>5, <1>6, <1>7, <1>8, <1>9,
     <1>10, <1>11, <1>12, <1>13, <1>14, <1>15, <1>16, <1>17, <1>18, <1>19 DEF Next, Ended

LEMMA Behaviour == Spec => Init /\ [][Next]_vars
BY PTL DEF Spec

-----------------------------------------------------------------------------
(* app33: the event example. *)

\* While the thread waits, the events that are set are those posted since.
EventInv ==
  /\ Event!TypeOK
  /\ e_waiter = "wait" => e_events = e_posted /\ ~Event!Satisfied(e_events)
  /\ EventFresh

LEMMA EventHolds == Spec => []EventInv
<1>1. Init => EventInv
  BY DEF Init, Event!Init, EventInv, EventFresh, Event!FreshEvents, Event!TypeOK
<1>2. ASSUME EventInv, [Next]_vars PROVE EventInv'
  <2>1. CASE UNCHANGED eventVars
    BY <1>2, <2>1 DEF eventVars, EventInv, EventFresh, Event!FreshEvents,
      Event!TypeOK, Event!Satisfied, Event!Bits
  <2>2. CASE Event!Next
    BY <1>2, <2>2 DEF EventInv, EventFresh, Event!FreshEvents, Event!TypeOK,
      Event!Satisfied, Event!Bits, Event!Next, Event!Produce, Event!Sense,
      Event!Sensors, Event!WaiterStep, Event!Wait, Event!Work, Event!Post
  <2> QED BY <1>2, <2>1, <2>2, StepsApart
<1> QED BY <1>1, <1>2, Behaviour, PTL

\* app33: the thread never works on events from before its wait.
THEOREM EventsAreFresh == Spec => []EventFresh
<1>1. EventInv => EventFresh
  BY DEF EventInv
<1> QED BY EventHolds, <1>1, PTL

-----------------------------------------------------------------------------
(* app32: the mutex examples. *)

\* A thread inside its critical section owns the mutex, and only then is it
\* locked; the recursive thread has locked it once more than it is deep.
MutexOwned ==
  /\ \A t \in m_active :
       m_pc[t] \in {"busy", "half", "done"} <=> m_owner = t
  /\ m_owner = "nobody" <=> m_count = 0
  /\ "recursive" \notin m_active => m_count <= 1
  /\ "recursive" \in m_active => m_pc["recursive"] # "pended"
  /\ m_owner = "recursive" => m_count = m_depth + 1
  /\ m_owner # "recursive" => m_depth = 0

\* The buffer belongs to the counter unless the writer is between the two.
MutexData ==
  /\ "writer" \in m_active =>
       /\ m_pc["writer"] # "half" => m_counter = m_buffer
       /\ m_pc["writer"] \in {"pended", "busy"} => m_counter < MaxWrites
  /\ "reader" \in m_active =>
       /\ m_pc["reader"] = "half" => m_seen[1] = m_counter
       /\ m_pc["reader"] = "done" => m_seen[1] = m_seen[2]

MutexInv == Mutex!TypeOK /\ MutexOwned /\ MutexData

LEMMA MutexInit == Init => MutexInv
BY DemosAssumption DEF DemosAssumption, Init, Mutex!Init, MutexInv, MutexOwned,
  MutexData, Mutex!TypeOK, Mutex!Examples, Mutex!MaxDepth, Mutex!Nobody

LEMMA MutexStep == MutexInv /\ Mutex!Next => MutexInv'
<1> SUFFICES ASSUME MutexInv, Mutex!Next PROVE MutexInv'
  OBVIOUS
<1> USE DemosAssumption DEF DemosAssumption
<1> USE DEF MutexInv, MutexOwned, MutexData, Mutex!TypeOK, Mutex!Examples,
  Mutex!MaxDepth, Mutex!Nobody
<1>1. ASSUME NEW t \in Mutex!Threads, Mutex!Lock(t) PROVE MutexInv'
  BY <1>1 DEF Mutex!Lock, Mutex!LockCall, Mutex!Threads, Mutex!data
<1>2. ASSUME NEW t \in Mutex!Threads, Mutex!Unlock(t) PROVE MutexInv'
  BY <1>2 DEF Mutex!Unlock, Mutex!UnlockCall, Mutex!Threads, Mutex!data
<1>3. CASE Mutex!Write
  BY <1>3 DEF Mutex!Write, Mutex!At
<1>4. CASE Mutex!Read
  BY <1>4 DEF Mutex!Read, Mutex!At
<1>5. CASE Mutex!Recurse
  BY <1>5 DEF Mutex!Recurse, Mutex!LockCall, Mutex!data
<1>6. CASE Mutex!Return
  BY <1>6 DEF Mutex!Return, Mutex!UnlockCall, Mutex!data
<1>7. CASE Mutex!LockTimeout
  BY <1>7 DEF Mutex!LockTimeout, Mutex!data
<1> QED BY <1>1, <1>2, <1>3, <1>4, <1>5, <1>6, <1>7 DEF Mutex!Next, Mutex!Step

LEMMA MutexHolds == Spec => []MutexInv
<1>1. MutexInv /\ [Next]_vars => MutexInv'
  <2>1. MutexInv /\ UNCHANGED mutexVars => MutexInv'
    BY DEF mutexVars, MutexInv, MutexOwned, MutexData, Mutex!TypeOK
  <2> QED BY <2>1, MutexStep, StepsApart
<1> QED BY MutexInit, <1>1, Behaviour, PTL

\* app32: the reader never prints a counter with another one's buffer.
THEOREM MutexReadsCohere == Spec => []MutexCoherentRead
<1>1. MutexInv => MutexCoherentRead
  BY DEF MutexInv, MutexData, MutexCoherentRead, Mutex!CoherentRead
<1> QED BY MutexHolds, <1>1, PTL

-----------------------------------------------------------------------------
(* app02: the key interrupt. *)

\* A level that is logged or about to be logged is the key's, or an edge of the
\* key is pending; edges are latched from the time the last callback is set.
KeyInv ==
  /\ Key!TypeOK
  /\ \A k \in Key!Keys :
       /\ Key!Done("enable", k) => Key!Done("callback", k)
       /\ k \in k_pending \/ (Len(k_isr) > 0 /\ k_isr[1] = k) \/ k_log[k] # -1
            => Key!Done("enable", k)
       /\ k \notin k_pending /\ Len(k_isr) = 2 /\ k_isr[1] = k
            => k_isr[2] = k_level[k]
       /\ k \notin k_pending /\ (k_isr = <<>> \/ k_isr[1] # k) /\ k_log[k] # -1
            => k_log[k] = k_level[k]

LEMMA KeyInit == Init => KeyInv
<1> SUFFICES ASSUME Key!Init PROVE KeyInv
  BY DEF Init
<1>1. \A op, k : ~Key!Done(op, k)
  BY DEF Key!Init, Key!Done
<1>2. Key!TypeOK
  <2>1. k_isr \in {<<>>}
    BY DEF Key!Init
  <2>2. k_done \in 0 .. Len(Key!Setup)
    BY DEF Key!Init, Key!Setup
  <2> QED BY <2>1, <2>2 DEF Key!Init, Key!TypeOK
<1> QED BY <1>1, <1>2 DEF Key!Init, KeyInv

\* What isr holds is told by its length.
LEMMA KeyIsr ==
  ASSUME Key!TypeOK
  PROVE  /\ Len(k_isr) = 1 => \E e \in Key!Keys : k_isr = <<e>>
         /\ Len(k_isr) = 2 => \E e \in Key!Keys, l \in {0, 1} : k_isr = <<e, l>>
<1>1. CASE k_isr = <<>>
  BY <1>1
<1>2. CASE k_isr \in {<<e>> : e \in Key!Keys}
  BY <1>2
<1>3. CASE k_isr \in Key!Keys \X {0, 1}
  <2>1. PICK e \in Key!Keys, l \in {0, 1} : k_isr = <<e, l>>
    BY <1>3
  <2> QED BY <2>1
<1> QED BY <1>1, <1>2, <1>3 DEF Key!TypeOK

LEMMA KeyStep == KeyInv /\ Key!Next => KeyInv'
<1> SUFFICES ASSUME KeyInv, Key!Next PROVE KeyInv'
  OBVIOUS
<1>1. CASE Key!SetupStep
  BY SMTT(30), <1>1 DEF KeyInv, Key!TypeOK, Key!SetupStep, Key!Keys, Key!Setup, Key!Done
<1>2. CASE Key!SetupFails
  BY <1>2 DEF KeyInv, Key!TypeOK, Key!SetupFails, Key!Done
<1>3. ASSUME NEW e \in Key!Keys, Key!Edge(e) PROVE KeyInv'
  BY <1>3 DEF KeyInv, Key!TypeOK, Key!Edge, Key!Keys, Key!Latched, Key!Done
<1>4. ASSUME NEW e \in Key!Keys, Key!Enter(e) PROVE KeyInv'
  BY SMTT(30), <1>4 DEF KeyInv, Key!TypeOK, Key!Enter, Key!Keys, Key!Done
<1>5. CASE Key!ReadLevel
  <2>1. PICK e \in Key!Keys : k_isr = <<e>>
    BY <1>5, KeyIsr DEF KeyInv, Key!ReadLevel
  <2>2. k_isr' = <<e, k_level[e]>>
    BY <1>5, <2>1 DEF Key!ReadLevel
  <2> QED BY <1>5, <2>1, <2>2 DEF KeyInv, Key!TypeOK, Key!ReadLevel, Key!Done
<1>6. CASE Key!LogLevel
  <2>1. PICK e \in Key!Keys, l \in {0, 1} : k_isr = <<e, l>>
    BY <1>6, KeyIsr DEF KeyInv, Key!LogLevel
  <2>2. k_isr' = <<>> /\ k_log' = [k_log EXCEPT ![e] = l]
    BY <1>6, <2>1 DEF Key!LogLevel
  <2> QED BY <1>6, <2>1, <2>2 DEF KeyInv, Key!TypeOK, Key!LogLevel, Key!Done
<1> QED BY <1>1, <1>2, <1>3, <1>4, <1>5, <1>6 DEF Key!Next

LEMMA KeyHolds == Spec => []KeyInv
<1>1. KeyInv /\ [Next]_vars => KeyInv'
  <2>1. KeyInv /\ UNCHANGED keyVars => KeyInv'
    BY DEF keyVars, KeyInv, Key!TypeOK, Key!Done
  <2> QED BY <2>1, KeyStep, StepsApart
<1> QED BY KeyInit, <1>1, Behaviour, PTL

\* app02: when no interrupt is due the log shows the key as it is.
THEOREM KeyLogFollows == Spec => []KeyLogIsLevel
<1>1. KeyInv => KeyLogIsLevel
  BY DEF KeyInv, KeyLogIsLevel, Key!LogIsLevel
<1> QED BY KeyHolds, <1>1, PTL

-----------------------------------------------------------------------------
(* app38: the mailbox examples. *)

\* The sender's buffer is not filled again while a message refers to it: the
\* message is in the mailbox, or taken without its data, or the semaphore tells
\* that its data has been fetched.
MailboxInv ==
  /\ Mailbox!TypeOK
  /\ b_example = "sync" =>
       /\ b_receiver # "got" /\ b_sem = 0
       /\ \/ b_sender = "ready" /\ b_mbox = <<>>
          \/ b_sender = "blocked" /\ b_mbox = <<b_data>>
  /\ b_example = "async" =>
       \/ b_sender = "ready" /\ b_mbox = <<>> /\ b_receiver # "got" /\ b_sem = 0
       \/ /\ b_sender \in {"sent", "taking"}
          /\ \/ b_mbox = <<b_data>> /\ b_receiver # "got" /\ b_sem = 0
             \/ b_mbox = <<>> /\ b_receiver = "got" /\ b_rx[1] = b_data /\ b_sem = 0
             \/ b_mbox = <<>> /\ b_receiver # "got" /\ b_sem = 1
  /\ MailboxDataMatches

LEMMA MailboxInit == Init => MailboxInv
<1> SUFFICES ASSUME Mailbox!Init PROVE MailboxInv
  BY DEF Init
<1>1. Mailbox!TypeOK
  <2>1. 0 \in 0 .. Numbers - 1
    BY DemosAssumption DEF DemosAssumption
  <2> QED BY <2>1 DEF Mailbox!Init, Mailbox!TypeOK
<1> QED
  BY <1>1 DEF Mailbox!Init, MailboxInv, MailboxDataMatches, Mailbox!DataMatchesInfo

LEMMA MailboxStep == MailboxInv /\ Mailbox!Next => MailboxInv'
<1> SUFFICES ASSUME MailboxInv, Mailbox!Next PROVE MailboxInv'
  OBVIOUS
<1> USE DEF MailboxInv, Mailbox!TypeOK, MailboxDataMatches, Mailbox!DataMatchesInfo
<1>1. CASE Mailbox!Put
  <2>1. (b_data + 1) % Numbers \in 0 .. Numbers - 1
    BY DemosAssumption DEF DemosAssumption
  <2>2. b_mbox = <<>> /\ b_mbox' = <<b_data'>>
    <3>1. b_mbox = <<>>
      BY <1>1 DEF Mailbox!Put
    <3> QED BY <1>1, <3>1 DEF Mailbox!Put
  <2> QED BY <1>1, <2>1, <2>2 DEF Mailbox!Put
<1>2. CASE Mailbox!Wait
  BY <1>2 DEF Mailbox!Wait
<1>3. CASE Mailbox!Taken
  BY <1>3 DEF Mailbox!Taken
<1>4. CASE Mailbox!GetWithData
  <2>1. b_mbox = <<b_data>>
    BY <1>4 DEF Mailbox!GetWithData
  <2>2. b_mbox' = <<>> /\ b_rx' = <<b_data, b_data>>
    BY <1>4, <2>1 DEF Mailbox!GetWithData
  <2> QED BY <1>4, <2>1, <2>2 DEF Mailbox!GetWithData
<1>5. CASE Mailbox!GetMessage
  BY <1>5 DEF Mailbox!GetMessage
<1>6. CASE Mailbox!FetchData
  BY <1>6 DEF Mailbox!FetchData
<1>7. CASE Mailbox!Worked
  BY <1>7 DEF Mailbox!Worked
<1> QED
  BY <1>1, <1>2, <1>3, <1>4, <1>5, <1>6, <1>7
  DEF Mailbox!Next, Mailbox!SenderStep, Mailbox!ReceiverStep

LEMMA MailboxHolds == Spec => []MailboxInv
<1>1. MailboxInv /\ [Next]_vars => MailboxInv'
  <2>1. MailboxInv /\ UNCHANGED mailboxVars => MailboxInv'
    BY DEF mailboxVars, MailboxInv, Mailbox!TypeOK, MailboxDataMatches,
      Mailbox!DataMatchesInfo
  <2> QED BY <2>1, MailboxStep, StepsApart
<1> QED BY MailboxInit, <1>1, Behaviour, PTL

\* app38: the receiver works on the data that was sent with the message.
THEOREM MailboxKeepsData == Spec => []MailboxDataMatches
<1>1. MailboxInv => MailboxDataMatches
  BY DEF MailboxInv
<1> QED BY MailboxHolds, <1>1, PTL

-----------------------------------------------------------------------------
(* app34: the signal examples. *)

\* As long as the signal is set or being worked on, its next raise is to come.
SignalInv ==
  /\ Signal!TypeOK
  /\ s_next <= Len(Signal!Cmds)
  /\ s_signaled \/ s_pc # "poll" => s_timer["raiser"] > 0
  /\ s_pc = "read" => s_signaled /\ s_state
  /\ s_pc = "reset" => s_due = <<>>
  /\ s_signaled /\ s_pc # "reset" => s_due = <<s_result>>
  /\ SignalExecutedOnce

LEMMA SignalInit == Init => SignalInv
<1> SUFFICES ASSUME Signal!Init PROVE SignalInv
  BY DEF Init
<1>1. /\ s_timer \in [{"raiser"} -> 0 .. 5 + Slack["signal"]]
      /\ s_timer["raiser"] > 0
  BY DemosAssumption DEF DemosAssumption, Sleepers, Signal!Init
<1>2. s_next <= Len(Signal!Cmds)
  BY DEF Signal!Init, Signal!Cmds
<1>3. s_due \in Seq(0 .. 3) /\ Len(s_due) <= 1
  BY DEF Signal!Init
<1>4. Signal!TypeOK
  <2>1. s_signaled \in BOOLEAN /\ s_state \in BOOLEAN
    BY DEF Signal!Init
  <2>2. s_result \in 0 .. 3 /\ s_next \in 1 .. 3 /\ s_pc \in {"poll", "read", "reset"}
    BY DEF Signal!Init
  <2> QED BY <1>1, <1>3, <2>1, <2>2 DEF Signal!Init, Signal!TypeOK
<1>5. SignalExecutedOnce
  BY <1>3 DEF Signal!Init, SignalExecutedOnce, Signal!ExecutedOnce
<1> QED BY <1>1, <1>2, <1>4, <1>5 DEF Signal!Init, SignalInv

LEMMA SignalStep == SignalInv /\ Signal!Next => SignalInv'
<1> SUFFICES ASSUME SignalInv, Signal!Next PROVE SignalInv'
  OBVIOUS
<1>0. Slack["signal"] \in Nat
  BY DemosAssumption DEF DemosAssumption, Sleepers
<1> USE DEF SignalInv, Signal!TypeOK, SignalExecutedOnce, Signal!ExecutedOnce
<1>1. CASE Signal!Raise
  <2>1. s_due = <<>> /\ s_pc = "poll" /\ ~s_signaled
    BY <1>1 DEF Signal!Raise, Signal!Awake
  <2>2. /\ s_due' = <<s_result'>> /\ s_result' \in 0 .. 3
        /\ s_next' \in 1 .. 3 /\ s_next' <= Len(Signal!Cmds)'
    BY <1>1, <2>1 DEF Signal!Raise, Signal!Cmds
  <2>3. PICK late \in 0 .. Slack["signal"], n \in 3 .. 5 :
          s_timer' = [s_timer EXCEPT !["raiser"] = n + late]
    <3>1. Signal!Pauses[s_next'] \in 3 .. 5
      BY <1>1, <2>2 DEF Signal!Raise, Signal!Pauses, Signal!Cmds
    <3> QED BY <1>1, <3>1 DEF Signal!Raise, Signal!Sleep
  <2> QED BY <1>0, <1>1, <2>1, <2>2, <2>3 DEF Signal!Raise
<1>2. CASE Signal!Poll
  BY <1>2 DEF Signal!Poll, Signal!Cmds
<1>3. CASE Signal!Read
  BY <1>3 DEF Signal!Read, Signal!Cmds
<1>4. CASE Signal!Reset
  BY <1>4 DEF Signal!Reset, Signal!Cmds
<1>5. CASE Signal!Tick
  BY <1>0, <1>5 DEF Signal!Tick, Signal!Cmds, Signal!Pass, Signal!Awake
<1> QED BY <1>1, <1>2, <1>3, <1>4, <1>5 DEF Signal!Next

LEMMA SignalHolds == Spec => []SignalInv
<1>1. SignalInv /\ [Next]_vars => SignalInv'
  <2>1. SignalInv /\ UNCHANGED signalVars => SignalInv'
    BY DEF signalVars, SignalInv, Signal!TypeOK, Signal!Cmds, SignalExecutedOnce,
      Signal!ExecutedOnce
  <2> QED BY <2>1, SignalStep, StepsApart
<1> QED BY SignalInit, <1>1, Behaviour, PTL

\* app34: every command is executed once, before the next one is raised, however
\* late the raiser wakes.
THEOREM SignalsExecuted == Spec => []SignalExecutedOnce
<1>1. SignalInv => SignalExecutedOnce
  BY DEF SignalInv
<1> QED BY SignalHolds, <1>1, PTL

-----------------------------------------------------------------------------
(* app70: the console. *)

\* The descriptors that are open where the server is, and, unless data has come
\* over it, the line that is being typed at the beginning of buf.
TcpInv ==
  /\ t_sockets = CASE t_pc \in {"socket", "ended"} -> {}
                   [] t_pc \in {"bind", "listen", "accept"} -> {"serv"}
                   [] OTHER -> {"serv", "client"}
  /\ t_buf \in [1 .. BUF_SIZE -> Characters \cup {"newline", "received"}]
  /\ t_typed \in Seq(Characters)
  /\ t_pc \in {"getchar", "recv", "send"} =>
       /\ t_idx = Len(t_typed) /\ t_idx < BUF_SIZE
       /\ ~t_dirty => \A c \in 1 .. t_idx : t_buf[c] = t_typed[c]
  /\ Tcp!LineAsTyped

LEMMA TcpInit == Init => TcpInv
  BY DemosAssumption DEF DemosAssumption, Init, Tcp!Init, TcpInv, Tcp!LineAsTyped, Tcp!Cells,
    Tcp!Received

LEMMA TcpStep == TcpInv /\ Tcp!Next => TcpInv'
<1> SUFFICES ASSUME TcpInv, Tcp!Next PROVE TcpInv'
  OBVIOUS
<1>0. BUF_SIZE \in Nat \ {0} /\ Len(t_typed) \in Nat
  BY DemosAssumption DEF DemosAssumption, TcpInv
<1>1. CASE Tcp!Socket \/ Tcp!BindAndListen
  BY <1>1 DEF TcpInv, Tcp!LineAsTyped, Tcp!Socket, Tcp!BindAndListen
<1>2. CASE Tcp!Accept
  BY <1>0, <1>2 DEF TcpInv, Tcp!LineAsTyped, Tcp!Accept
<1>3. CASE Tcp!NoKey \/ Tcp!RecvNothing
  BY <1>3 DEF TcpInv, Tcp!LineAsTyped, Tcp!NoKey, Tcp!RecvNothing
<1>4. ASSUME NEW k \in Characters, Tcp!KeyCharacter(k) PROVE TcpInv'
  <2> USE DEF TcpInv, Tcp!KeyCharacter
  <2>1. /\ Tcp!LineAsTyped' /\ t_pc = "getchar" /\ t_pc' = "recv"
        /\ t_dirty' = t_dirty /\ t_sockets' = t_sockets
    BY <1>4 DEF Tcp!LineAsTyped
  <2>2. CASE t_idx < BUF_SIZE - 1
    <3>1. /\ t_buf' = [t_buf EXCEPT ![t_idx + 1] = k] /\ t_idx' = t_idx + 1
          /\ t_typed' = Append(t_typed, k)
      BY <1>4, <2>2
    <3>2. t_typed' \in Seq(Characters) /\ t_idx' = Len(t_typed') /\ t_idx' < BUF_SIZE
      BY <1>0, <2>1, <2>2, <3>1
    <3>3. t_buf' \in [1 .. BUF_SIZE -> Characters \cup {"newline", "received"}]
      BY <3>1
    <3>4. ~t_dirty => \A c \in 1 .. t_idx' : t_buf'[c] = t_typed'[c]
      BY <1>0, <2>1, <2>2, <3>1
    <3> QED BY <2>1, <3>2, <3>3, <3>4
  <2>3. CASE ~(t_idx < BUF_SIZE - 1)
    BY <1>4, <2>1, <2>3
  <2> QED BY <2>2, <2>3
<1>5. CASE Tcp!KeyBackspace
  BY <1>0, <1>5 DEF TcpInv, Tcp!LineAsTyped, Tcp!KeyBackspace
<1>6. CASE Tcp!KeyEnter
  <2> USE DEF TcpInv, Tcp!KeyEnter
  <2>1. /\ t_pc = "getchar" /\ t_pc' = "send" /\ t_idx' = t_idx /\ t_typed' = t_typed
        /\ t_dirty' = t_dirty /\ t_sockets' = t_sockets
        /\ t_buf' = [t_buf EXCEPT ![t_idx + 1] = "newline"]
        /\ t_out' = [c \in 1 .. t_idx + 1 |-> t_buf'[c]]
    BY <1>6 DEF Tcp!Newline
  <2>2. /\ t_buf' \in [1 .. BUF_SIZE -> Characters \cup {"newline", "received"}]
        /\ t_buf'[t_idx + 1] = "newline" /\ \A c \in 1 .. t_idx : t_buf'[c] = t_buf[c]
    BY <1>0, <2>1
  <2>3. ASSUME ~t_dirty PROVE t_out' = t_typed \o <<"newline">>
    BY <1>0, <2>1, <2>2, <2>3
  <2> QED BY <2>1, <2>2, <2>3 DEF Tcp!LineAsTyped, Tcp!Newline
<1>7. CASE Tcp!Send
  BY <1>0, <1>7 DEF TcpInv, Tcp!LineAsTyped, Tcp!Send
<1>8. CASE Tcp!Recv
  <2>1. /\ t_pc = "recv" /\ t_pc' = "getchar" /\ t_dirty' = (t_dirty \/ t_idx > 0)
        /\ UNCHANGED <<t_sockets, t_idx, t_typed>>
    BY <1>8 DEF Tcp!Recv
  <2>2. t_buf' \in [1 .. BUF_SIZE -> Characters \cup {"newline", "received"}]
    <3>1. PICK n : t_buf' = [c \in 1 .. BUF_SIZE |-> IF c <= n + 1 THEN "received" ELSE t_buf[c]]
      BY <1>8 DEF Tcp!Recv, Tcp!Cells, Tcp!Received
    <3> QED BY <3>1 DEF TcpInv
  <2>3. ASSUME ~t_dirty', NEW c \in 1 .. t_idx PROVE FALSE
    <3>1. t_idx > 0
      BY <1>0, <2>1, <2>3 DEF TcpInv
    <3> QED BY <2>1, <2>3, <3>1
  <2> QED BY <2>1, <2>2, <2>3 DEF TcpInv, Tcp!LineAsTyped
<1>9. CASE Tcp!HangUp
  BY <1>0, <1>9 DEF TcpInv, Tcp!LineAsTyped, Tcp!HangUp
<1>10. CASE Tcp!Peer
  BY <1>10 DEF TcpInv, Tcp!LineAsTyped, Tcp!Peer, Tcp!PeerConnects, Tcp!PeerSends,
    Tcp!PeerCloses
<1> QED BY <1>1, <1>2, <1>3, <1>4, <1>5, <1>6, <1>7, <1>8, <1>9, <1>10
  DEF Tcp!Next, Tcp!Server, Tcp!Keyboard

LEMMA ConsoleHolds == Spec => []TcpInv
<1>1. TcpInv /\ [Next]_vars => TcpInv'
  <2>1. TcpInv /\ UNCHANGED tcpVars => TcpInv'
    BY DEF tcpVars, TcpInv, Tcp!LineAsTyped
  <2> QED BY <2>1, TcpStep, StepsApart
<1> QED BY TcpInit, <1>1, Behaviour, PTL

\* app70: a line is sent as it was typed unless data came while it was.
THEOREM LineIsSent == Spec => []Tcp!LineAsTyped
<1>1. TcpInv => Tcp!LineAsTyped
  BY DEF TcpInv
<1> QED BY ConsoleHolds, <1>1, PTL
=============================================================================
