------------------------------ MODULE Sleeping ------------------------------
(***************************************************************************)
(* Time for the demonstration programs: their threads compute for no time  *)
(* between kernel calls and sleep for long.  A thread whose timer is 0 may *)
(* run; time passes when no thread can.                                    *)
(***************************************************************************)
EXTENDS Integers

CONSTANT Slack   \* bound: how many units late a sleeper may wake

VARIABLE timer   \* thread |-> units it still sleeps

\* k_msleep wakes after the time asked for, or somewhat later.
Sleep(t, n) == \E late \in 0 .. Slack : timer' = [timer EXCEPT ![t] = n + late]

Awake(t) == timer[t] = 0

Pass ==
  /\ \E t \in DOMAIN timer : timer[t] > 0
  /\ timer' = [t \in DOMAIN timer |-> IF timer[t] > 0 THEN timer[t] - 1 ELSE 0]
=============================================================================
