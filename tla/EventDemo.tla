----------------------------- MODULE EventDemo -----------------------------
(***************************************************************************)
(* app33_event.  First example: a producer posts two events in turn, a     *)
(* consumer waits for either.  Second example: two sensors post one event  *)
(* each, a fusion thread waits for both.  The examples share nothing, so a *)
(* behaviour runs one of them.  Sleeps may take any time.                  *)
(*                                                                         *)
(* With reset = true, k_event_wait and k_event_wait_all clear the events   *)
(* when the wait begins; what ends the wait stays set. The comments of the *)
(* program have it the other way round, "cleared after a successful wait". *)
(***************************************************************************)
EXTENDS Integers

VARIABLES
  example,    \* "any" or "all"
  events,     \* the bits of the k_event
  turn,       \* what the producer posts next
  waiter,     \* the consumer or the fusion: "start", "wait" or "work"
  received,   \* what its wait returned
  posted      \* what has been posted since its wait began

vars == <<example, events, turn, waiter, received, posted>>

Bits   == IF example = "any" THEN {"READY", "DATA"} ELSE {"SENSOR_A", "SENSOR_B"}
AllBits == {"READY", "DATA", "SENSOR_A", "SENSOR_B"}

Init ==
  /\ example \in {"any", "all"}
  /\ events = {} /\ turn = "READY"
  /\ waiter = "start" /\ received = {} /\ posted = {}

\* k_event_post, which ends the wait if it is for what is now set.
Satisfied(set) == IF example = "any" THEN set # {} ELSE set = Bits

Post(bit) ==
  /\ events' = events \cup {bit} /\ posted' = posted \cup {bit}
  /\ IF waiter = "wait" /\ Satisfied(events')
       THEN waiter' = "work" /\ received' = events'
       ELSE UNCHANGED <<waiter, received>>

Produce ==
  /\ example = "any"
  /\ Post(turn) /\ turn' = IF turn = "READY" THEN "DATA" ELSE "READY"
  /\ UNCHANGED example

Sense(bit) ==
  /\ example = "all" /\ bit \in Bits
  /\ Post(bit) /\ UNCHANGED <<example, turn>>

WaitUncleared ==   \* variant: reset = false
  /\ waiter = "start"
  /\ posted' = {}
  /\ IF Satisfied(events) THEN waiter' = "work" /\ received' = events
                          ELSE waiter' = "wait" /\ UNCHANGED received
  /\ UNCHANGED <<example, events, turn>>

\* k_event_wait(.., reset = true, K_FOREVER).
Wait ==
  /\ waiter = "start"
  /\ events' = {} /\ posted' = {} /\ waiter' = "wait"
  /\ UNCHANGED <<example, turn, received>>

\* The consumer prints, the fusion sleeps 300 ms; then both wait again.
WorkForEver ==   \* variant: the thread does not come back
  /\ waiter = "work" /\ waiter' = "over"
  /\ UNCHANGED <<example, events, turn, received, posted>>
Work ==
  /\ waiter = "work" /\ waiter' = "start"
  /\ UNCHANGED <<example, events, turn, received, posted>>

Sensors == {"SENSOR_A", "SENSOR_B"}
WaiterStep == Wait \/ Work

Next == Produce \/ (\E bit \in Sensors : Sense(bit)) \/ WaiterStep

Spec == Init /\ [][Next]_vars

\* Sleeps end, and a thread that can run runs.
Fairness ==
  /\ WF_vars(Produce) /\ WF_vars(WaiterStep)
  /\ \A bit \in Sensors : WF_vars(Sense(bit))
FairSpec == Spec /\ Fairness

-----------------------------------------------------------------------------
(* Properties. *)

TypeOK ==
  /\ example \in {"any", "all"}
  /\ events \subseteq Bits /\ received \subseteq Bits /\ posted \subseteq Bits
  /\ turn \in {"READY", "DATA"}
  /\ waiter \in {"start", "wait", "work"}

\* A wait ends on what was posted after it began: the fusion combines a reading
\* of A with a reading of B that are both new, and the consumer never takes an
\* event twice. It is the clearing at the beginning of the wait that makes it so,
\* and what it costs are the events posted while the thread was at work.
FreshEvents == waiter = "work" => received \subseteq posted /\ Satisfied(received)

\* However often events are cleared unseen, the waiting thread comes through
\* again and again.
WaitsEnd == (waiter = "wait") ~> (waiter = "start")
=============================================================================
