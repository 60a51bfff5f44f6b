----------------------------- MODULE SignalDemo -----------------------------
(***************************************************************************)
(* app34_signal.  First example: a sender raises a k_poll_signal every two *)
(* seconds, a waiter polls it.  Second example: a commander raises it with *)
(* READ, WRITE and ERASE in turn, a worker executes.  A signal holds one   *)
(* result and no count: a second raise before the reset overwrites the     *)
(* first.  The examples share nothing, so a behaviour runs one of them.  A *)
(* unit of time is 500 ms.                                                 *)
(***************************************************************************)
EXTENDS Sleeping, Sequences

VARIABLES
  example,          \* 1 or 2
  signaled, result, \* the k_poll_signal
  state,            \* basic_events[0].state is K_POLL_STATE_SIGNALED
  next,             \* the place in the raiser's loop
  pc,               \* the poller: "poll", "read" or "reset"
  due               \* commands raised and not executed

vars == <<example, timer, signaled, result, state, next, pc, due>>

\* What the raiser's loop raises, and the pauses before each raise: the second
\* example also pauses 500 ms after each raise.
Cmds   == IF example = 1 THEN <<0>> ELSE <<1, 2, 3>>
Pauses == IF example = 1 THEN <<4>> ELSE <<3, 5, 5>>

Init ==
  /\ example \in {1, 2}
  /\ timer = [raiser |-> IF example = 1 THEN 4 ELSE 2]
  /\ signaled = FALSE /\ result = 0 /\ state = FALSE
  /\ next = 1 /\ pc = "poll" /\ due = <<>>

Raise ==
  /\ Awake("raiser")
  /\ signaled' = TRUE /\ result' = Cmds[next]
  /\ next' = (next % Len(Cmds)) + 1
  /\ Sleep("raiser", Pauses[next'])
  /\ due' = Append(due, Cmds[next])
  /\ UNCHANGED <<example, state, pc>>

\* k_poll returns at once when the signal is set, else when it is raised.
Poll ==
  /\ pc = "poll" /\ signaled
  /\ state' = TRUE /\ pc' = "read"
  /\ UNCHANGED <<example, timer, signaled, result, next, due>>

\* The command is taken from the signal and executed.
Read ==
  /\ pc = "read" /\ state
  /\ due' = IF due = <<>> THEN due ELSE Tail(due)
  /\ pc' = "reset"
  /\ UNCHANGED <<example, timer, signaled, result, state, next>>

StateOnly ==   \* variant: the signal itself is not reset
  /\ pc = "reset"
  /\ state' = FALSE /\ pc' = "poll"
  /\ UNCHANGED <<example, timer, signaled, result, next, due>>

Reset ==
  /\ pc = "reset"
  /\ signaled' = FALSE /\ state' = FALSE /\ pc' = "poll"
  /\ UNCHANGED <<example, timer, result, next, due>>

Tick ==
  /\ ~Awake("raiser") /\ pc = "poll" /\ ~signaled
  /\ Pass
  /\ UNCHANGED <<example, signaled, result, state, next, pc, due>>

Next == Raise \/ Poll \/ Read \/ Reset \/ Tick

Spec == Init /\ [][Next]_vars

-----------------------------------------------------------------------------
(* Properties. *)

TypeOK ==
  /\ example \in {1, 2} /\ timer \in [{"raiser"} -> 0 .. 5 + Slack]
  /\ signaled \in BOOLEAN /\ result \in 0 .. 3 /\ state \in BOOLEAN
  /\ next \in 1 .. 3 /\ pc \in {"poll", "read", "reset"}
  /\ due \in Seq(0 .. 3)

\* Every command raised is executed, once, before the next one is raised: the
\* signal is set exactly while a command is due or has just been executed.
ExecutedOnce ==
  /\ Len(due) <= 1
  /\ signaled <=> due # <<>> \/ pc = "reset"
  /\ due # <<>> => result = due[1]
=============================================================================
