------------------------------ MODULE ZbusDemo ------------------------------
(***************************************************************************)
(* app40_zbus: a publisher, a channel with a validator, a listener called  *)
(* for every publication, and a subscriber that reads the channel every    *)
(* 500 ms but never takes anything from its queue of notifications, so     *)
(* that a publication waits 100 ms for room there, with the channel        *)
(* locked, and fails.  A message is its number: the validator accepts the  *)
(* first MaxValid.  A unit of time is 100 ms.                              *)
(***************************************************************************)
EXTENDS Sleeping

CONSTANTS
  MaxValid,   \* the last count whose temperature and humidity are in range
  QueueSize   \* of sensor_sub

VARIABLES
  count,      \* the publisher's; all above MaxValid count as one
  chan,       \* the message in the channel; 0 is its initial value
  locked,     \* the publisher holds the channel and waits for room
  queued,     \* notifications in the subscriber's queue
  heard,      \* the message the listener was last called with
  seen        \* the message the subscriber last read

vars == <<timer, count, chan, locked, queued, heard, seen>>

Init ==
  /\ timer = [publisher |-> 20, subscriber |-> 0]
  /\ count = 0 /\ chan = 0 /\ locked = FALSE /\ queued = 0
  /\ heard = 0 /\ seen = 0

Accept(n) == TRUE   \* variant: the validator accepts everything
Valid(n) == n <= MaxValid

\* zbus_chan_pub: validate, store, notify the subscriber, call the listener.
PublishRefused ==
  /\ Awake("publisher") /\ ~locked
  /\ count' = IF count > MaxValid THEN count ELSE count + 1
  /\ ~Valid(count')
  /\ Sleep("publisher", 20)
  /\ UNCHANGED <<chan, locked, queued, heard, seen>>

Publish ==
  /\ Awake("publisher") /\ ~locked
  /\ count' = IF count > MaxValid THEN count ELSE count + 1
  /\ Valid(count')
  /\ chan' = count'
  /\ IF queued < QueueSize
       THEN /\ queued' = queued + 1 /\ heard' = chan'
            /\ Sleep("publisher", 20) /\ UNCHANGED locked
       ELSE /\ locked' = TRUE /\ Sleep("publisher", 1)
            /\ UNCHANGED <<queued, heard>>
  /\ UNCHANGED seen

\* The 100 ms are over: the publication fails, the other observers are called.
PublishFails ==
  /\ Awake("publisher") /\ locked
  /\ heard' = chan /\ locked' = FALSE
  /\ Sleep("publisher", 20)
  /\ UNCHANGED <<count, chan, queued, seen>>

\* zbus_chan_read does not wait for a publication, only for the lock.
ReadSlowly ==   \* variant: a pause of 2.5 s
  /\ Awake("subscriber") /\ ~locked
  /\ seen' = chan /\ Sleep("subscriber", 25)
  /\ UNCHANGED <<count, chan, locked, queued, heard>>

Read ==
  /\ Awake("subscriber") /\ ~locked
  /\ seen' = chan /\ Sleep("subscriber", 5)
  /\ UNCHANGED <<count, chan, locked, queued, heard>>

Tick ==
  /\ ~Awake("publisher") /\ (locked \/ ~Awake("subscriber"))
  /\ Pass /\ UNCHANGED <<count, chan, locked, queued, heard, seen>>

Next == PublishRefused \/ Publish \/ PublishFails \/ Read \/ Tick

Spec == Init /\ [][Next]_vars

-----------------------------------------------------------------------------
(* Properties. *)

TypeOK ==
  /\ timer \in [{"publisher", "subscriber"} -> 0 .. 20 + Slack]
  /\ count \in 0 .. MaxValid + 1 /\ chan \in 0 .. MaxValid
  /\ locked \in BOOLEAN /\ queued \in 0 .. QueueSize
  /\ heard \in 0 .. MaxValid /\ seen \in 0 .. MaxValid

\* Every message stored in the channel reaches both observers, also when its
\* publication is reported as failed.  The subscriber polls, and its
\* notifications pile up, but it has read each message before the publisher
\* stores the next; the listener has been called with it.
BothObserve ==
  /\ timer.publisher = 0 /\ ~locked => seen = chan
  /\ ~locked => heard = chan
=============================================================================
