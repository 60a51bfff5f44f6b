---------------------------- MODULE KeyInterrupt ----------------------------
(***************************************************************************)
(* app02_key_interrupt.  main sets up two keys step by step and gives up   *)
(* at the first step that fails; the interrupts already enabled stay       *)
(* enabled.  A key's interrupt comes at both edges, and its callback logs  *)
(* not the edge but the level it reads, by which time the key may have     *)
(* moved again.                                                            *)
(***************************************************************************)
EXTENDS Integers, Sequences

Keys == {"KEY0", "KEY1"}

VARIABLES
  done,       \* how many steps of Setup have been done
  returned,   \* main has given up
  level,      \* key |-> 1 when it is held down
  pending,    \* keys whose edge is latched in the interrupt controller
  isr,        \* the callback that runs: <<>>, <<key>> or <<key, level read>>
  log         \* key |-> the level last logged, -1 before

vars == <<done, returned, level, pending, isr, log>>

Setup ==
  <<[op |-> "ready",     key |-> "KEY0"], [op |-> "ready",     key |-> "KEY1"],
    [op |-> "configure", key |-> "KEY0"], [op |-> "configure", key |-> "KEY1"],
    [op |-> "callback",  key |-> "KEY0"], [op |-> "callback",  key |-> "KEY1"],
    [op |-> "enable",    key |-> "KEY0"], [op |-> "enable",    key |-> "KEY1"]>>

Done(op, k) == \E i \in 1 .. done : Setup[i] = [op |-> op, key |-> k]

Init ==
  /\ done = 0 /\ returned = FALSE
  /\ level \in [Keys -> {0, 1}]
  /\ pending = {} /\ isr = <<>>
  /\ log = [k \in Keys |-> -1]

SetupStep ==
  /\ ~returned /\ done < Len(Setup)
  /\ done' = done + 1
  /\ UNCHANGED <<returned, level, pending, isr, log>>

SetupFails ==
  /\ ~returned /\ done < Len(Setup)
  /\ returned' = TRUE
  /\ UNCHANGED <<done, level, pending, isr, log>>

\* GPIO_INT_EDGE_BOTH: whether a change to this level is latched.
PressedOnly(new) == new = 1   \* variant: one edge only
Latched(new) == new \in {0, 1}

\* A key is pressed or released, even while a callback runs.
Edge(k) ==
  /\ level' = [level EXCEPT ![k] = 1 - @]
  /\ pending' = IF Done("enable", k) /\ Latched(level'[k])
                  THEN pending \cup {k} ELSE pending
  /\ UNCHANGED <<done, returned, isr, log>>

\* The controller clears the latch and calls the callback.  One callback does
\* not interrupt the other.
Enter(k) ==
  /\ isr = <<>> /\ k \in pending
  /\ pending' = pending \ {k}
  /\ isr' = IF Done("callback", k) THEN <<k>> ELSE <<>>
  /\ UNCHANGED <<done, returned, level, log>>

ReadLevel ==
  /\ Len(isr) = 1
  /\ isr' = <<isr[1], level[isr[1]]>>
  /\ UNCHANGED <<done, returned, level, pending, log>>

LogLevel ==
  /\ Len(isr) = 2
  /\ log' = [log EXCEPT ![isr[1]] = isr[2]]
  /\ isr' = <<>>
  /\ UNCHANGED <<done, returned, level, pending>>

Next ==
  \/ SetupStep \/ SetupFails \/ ReadLevel \/ LogLevel
  \/ \E k \in Keys : Edge(k) \/ Enter(k)

Spec == Init /\ [][Next]_vars

-----------------------------------------------------------------------------
(* Properties. *)

TypeOK ==
  /\ done \in 0 .. Len(Setup) /\ returned \in BOOLEAN
  /\ level \in [Keys -> {0, 1}] /\ pending \subseteq Keys
  /\ isr \in {<<>>} \cup {<<k>> : k \in Keys} \cup (Keys \X {0, 1})
  /\ log \in [Keys -> {-1, 0, 1}]

\* When no interrupt of a key is due, what was logged last is how the key is,
\* however fast it moved: an edge may go unlogged, the last state may not.
LogIsLevel ==
  \A k \in Keys :
    (k \notin pending /\ (isr = <<>> \/ isr[1] # k) /\ log[k] # -1)
      => log[k] = level[k]
=============================================================================
