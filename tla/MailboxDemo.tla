---------------------------- MODULE MailboxDemo ----------------------------
(***************************************************************************)
(* app38_mailbox.  First example: a synchronous k_mbox_put, whose message  *)
(* the receiver takes with its data at once.  Second example: k_mbox_async_*)
(* put, whose data the receiver fetches later, out of the sender's own     *)
(* buffer; a semaphore then tells the sender.  The examples share nothing, *)
(* so a behaviour runs one of them.  Sleeps may take any time.             *)
(***************************************************************************)
EXTENDS Integers, Sequences

CONSTANT Numbers   \* bound: messages are numbered modulo Numbers

VARIABLES
  example,     \* "sync" or "async"
  sender,      \* "ready", "blocked" (in k_mbox_put), "sent" or "taking"
  data,        \* the sender's buffer: the number written into it
  mbox,        \* messages in the mailbox: their info
  receiver,    \* "waiting", "got" (message without data) or "working"
  rx,          \* the receiver's copy: <<info, data>>
  done_sem

vars == <<example, sender, data, mbox, receiver, rx, done_sem>>

Init ==
  /\ example \in {"sync", "async"}
  /\ sender = "ready" /\ data = 0 /\ mbox = <<>>
  /\ receiver = "waiting" /\ rx = <<0, 0>> /\ done_sem = 0

\* The sender fills its buffer and puts the message.
Put ==
  /\ sender = "ready"
  /\ data' = (data + 1) % Numbers
  /\ mbox' = Append(mbox, data')
  /\ sender' = IF example = "sync" THEN "blocked" ELSE "sent"
  /\ UNCHANGED <<example, receiver, rx, done_sem>>

\* 500 ms later the asynchronous sender waits for the semaphore.
NoWait ==   \* variant: the semaphore is not waited for
  /\ sender = "sent" /\ sender' = "ready"
  /\ UNCHANGED <<example, data, mbox, receiver, rx, done_sem>>

Wait ==
  /\ sender = "sent" /\ sender' = "taking"
  /\ UNCHANGED <<example, data, mbox, receiver, rx, done_sem>>

Taken ==
  /\ sender = "taking" /\ done_sem > 0
  /\ done_sem' = done_sem - 1 /\ sender' = "ready"
  /\ UNCHANGED <<example, data, mbox, receiver, rx>>

\* k_mbox_get with a buffer copies the data and releases the sender.
GetWithData ==
  /\ example = "sync" /\ receiver = "waiting" /\ mbox # <<>>
  /\ rx' = <<Head(mbox), data>> /\ mbox' = Tail(mbox)
  /\ sender' = "ready" /\ receiver' = "working"
  /\ UNCHANGED <<example, data, done_sem>>

\* k_mbox_get without a buffer takes the message only.
GetMessage ==
  /\ example = "async" /\ receiver = "waiting" /\ mbox # <<>>
  /\ rx' = <<Head(mbox), rx[2]>> /\ mbox' = Tail(mbox)
  /\ receiver' = "got"
  /\ UNCHANGED <<example, sender, data, done_sem>>

\* k_mbox_data_get: copy, and give the semaphore (its limit is 1).
FetchData ==
  /\ receiver = "got"
  /\ rx' = <<rx[1], data>> /\ receiver' = "working"
  /\ done_sem' = 1
  /\ UNCHANGED <<example, sender, data, mbox>>

Worked ==
  /\ receiver = "working" /\ receiver' = "waiting"
  /\ UNCHANGED <<example, sender, data, mbox, rx, done_sem>>

SenderStep   == Put \/ Wait \/ Taken
ReceiverStep == GetWithData \/ GetMessage \/ FetchData \/ Worked

Next == SenderStep \/ ReceiverStep

Spec == Init /\ [][Next]_vars

-----------------------------------------------------------------------------
(* Properties. *)

TypeOK ==
  /\ example \in {"sync", "async"}
  /\ sender \in {"ready", "blocked", "sent", "taking"}
  /\ receiver \in {"waiting", "got", "working"}
  /\ data \in 0 .. Numbers - 1 /\ mbox \in Seq(0 .. Numbers - 1)
  /\ rx \in (0 .. Numbers - 1) \X (0 .. Numbers - 1)
  /\ done_sem \in {0, 1}

\* The data the receiver works on is the data sent with its message: the sender
\* does not fill its buffer again while the message still refers to it.
DataMatchesInfo == receiver = "working" => rx[1] = rx[2]
=============================================================================
