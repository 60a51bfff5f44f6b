------------------------------ MODULE MsgqDemo ------------------------------
(***************************************************************************)
(* app35_mq.  First example: a sensor puts readings without waiting, a     *)
(* slower processor gets them.  Second example: a sender waits up to 1 s   *)
(* for room, a slower handler up to 5 s for a command.  The examples share *)
(* nothing, so a behaviour runs one of them.  A unit of time is 500 ms.    *)
(*                                                                         *)
(* The numbers put into the messages only grow.  A message is represented  *)
(* by its age: how many have been made since.                              *)
(***************************************************************************)
EXTENDS Sleeping, Sequences

VARIABLES
  example,   \* 1 or 2
  queue,     \* ages, oldest first
  pending,   \* the command for which the sender waits, <<>> or <<age>>
  last,      \* the age of the message last processed, <<>> or <<age>>
  waiting    \* the handler is in k_msgq_get, its timer is the timeout

vars == <<example, timer, queue, pending, last, waiting>>

Capacity == IF example = 1 THEN 5 ELSE 3

InitImpatient ==   \* variant: the handler waits 1 s only
  /\ example \in {1, 2}
  /\ timer = [producer |-> IF example = 1 THEN 3 ELSE 4,
              consumer |-> IF example = 1 THEN 0 ELSE 2]
  /\ queue = <<>> /\ pending = <<>> /\ last = <<>>
  /\ waiting = TRUE

Init ==
  /\ example \in {1, 2}
  /\ timer = [producer |-> IF example = 1 THEN 3 ELSE 4,
              consumer |-> IF example = 1 THEN 0 ELSE 10]
  /\ queue = <<>> /\ pending = <<>> /\ last = <<>>
  /\ waiting = TRUE

Older(ages) == [i \in DOMAIN ages |-> ages[i] + 1]

-----------------------------------------------------------------------------

\* The sensor drops its reading when the queue is full.
SensorPut ==
  /\ example = 1 /\ Awake("producer") /\ Sleep("producer", 3)
  /\ queue' = IF Len(queue) < Capacity THEN Older(queue) \o <<0>> ELSE Older(queue)
  /\ last' = Older(last)
  /\ UNCHANGED <<example, pending, waiting>>

\* The sender puts its command, or begins to wait for room.
SenderPut ==
  /\ example = 2 /\ Awake("producer") /\ pending = <<>>
  /\ last' = Older(last)
  /\ IF Len(queue) < Capacity
       THEN /\ queue' = Older(queue) \o <<0>> /\ Sleep("producer", 4)
            /\ UNCHANGED pending
       ELSE /\ queue' = Older(queue) /\ Sleep("producer", 2)
            /\ pending' = <<0>>
  /\ UNCHANGED <<example, waiting>>

\* -EAGAIN: the command is given up.
PutTimeout ==
  /\ Awake("producer") /\ pending # <<>>
  /\ pending' = <<>> /\ Sleep("producer", 4)
  /\ UNCHANGED <<example, queue, last, waiting>>

CanGet == queue # <<>> /\ (waiting \/ Awake("consumer"))

\* The oldest message is taken, and a waiting sender's command comes in.
Get ==
  /\ CanGet /\ waiting' = FALSE
  /\ last' = <<Head(queue)>>
  /\ queue' = Tail(queue) \o pending /\ pending' = <<>>
  /\ \E late \in 0 .. Slack : timer' =
       [consumer |-> late + (IF example = 1 THEN 4 ELSE 7),
        producer |-> IF pending = <<>> THEN timer.producer ELSE 4]
  /\ UNCHANGED example

\* The processor waits for ever, the handler 5 s.
WaitForMessage ==
  /\ ~waiting /\ Awake("consumer") /\ queue = <<>>
  /\ waiting' = TRUE
  /\ IF example = 1 THEN UNCHANGED timer ELSE Sleep("consumer", 10)
  /\ UNCHANGED <<example, queue, pending, last>>

Tick ==
  /\ ~Awake("producer") /\ ~CanGet
  /\ waiting \/ ~Awake("consumer")
  /\ Pass /\ UNCHANGED <<example, queue, pending, last, waiting>>

Next == SensorPut \/ SenderPut \/ PutTimeout \/ Get \/ WaitForMessage \/ Tick

Spec == Init /\ [][Next]_vars

-----------------------------------------------------------------------------
(* Properties. *)

TypeOK ==
  /\ example \in {1, 2}
  /\ \A t \in {"producer", "consumer"} : timer[t] \in 0 .. 10 + Slack
  /\ queue \in Seq(Nat) /\ Len(queue) <= Capacity
  /\ pending \in Seq(Nat) /\ Len(pending) <= 1
  /\ last \in Seq(Nat) /\ Len(last) <= 1
  /\ waiting \in BOOLEAN

\* The queue drops the newest reading, so the processor works on old ones: but
\* nothing in it is ever older than eight periods of the sensor, 12 s.
NotTooOld == \A i \in DOMAIN queue : queue[i] <= 8

\* The handler's wait of 5 s never ends without a command, so its branch for
\* the timeout is never taken: the sender sends too often for that.
HandlerIsServed ==
  (example = 2 /\ waiting /\ Awake("consumer")) => queue # <<>>
=============================================================================
