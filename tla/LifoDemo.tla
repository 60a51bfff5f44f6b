------------------------------ MODULE LifoDemo ------------------------------
(***************************************************************************)
(* app37_lifo.  First example: five tasks are pushed and, three seconds    *)
(* after the start, popped.  Second example: normal and urgent commands    *)
(* are taken from cmd_pool, which is never refilled, and pushed for an     *)
(* executor.  The examples share nothing, so a behaviour runs one of them. *)
(* A unit of time is 100 ms.                                               *)
(***************************************************************************)
EXTENDS Sleeping, Sequences

VARIABLES
  example,   \* 1 or 2
  stack,     \* top first
  idx,       \* task_idx or cmd_idx
  popped,    \* tasks popped; in the second example, the command last executed
  overrun    \* cmd_pool has been written behind its end

vars == <<example, timer, stack, idx, popped, overrun>>

NTasks   == 5
PoolSize == 6

\* main sleeps 10 s beside the second example.
Init ==
  /\ example \in {1, 2}
  /\ timer = IF example = 1 THEN [push |-> 0, pop |-> 30]
             ELSE [dispatcher |-> 20, executor |-> 0, main |-> 100 + Slack]
  /\ stack = <<>> /\ idx = 0 /\ popped = <<>> /\ overrun = FALSE

-----------------------------------------------------------------------------
(* First example. *)

Push ==
  /\ example = 1 /\ Awake("push") /\ idx < NTasks
  /\ stack' = <<idx>> \o stack /\ idx' = idx + 1
  /\ Sleep("push", 5)
  /\ UNCHANGED <<example, popped, overrun>>

CanPop == example = 1 /\ Awake("pop") /\ stack # <<>>

Pop ==
  /\ CanPop /\ Sleep("pop", 5)
  /\ popped' = Append(popped, Head(stack)) /\ stack' = Tail(stack)
  /\ UNCHANGED <<example, idx, overrun>>

-----------------------------------------------------------------------------
(* Second example. *)

DispatchFaster ==   \* variant: half the pauses
  /\ example = 2 /\ Awake("dispatcher") /\ ~overrun
  /\ IF idx = PoolSize THEN overrun' = TRUE /\ UNCHANGED <<timer, stack, idx>>
     ELSE /\ stack' = <<idx>> \o stack
          /\ idx' = idx + 1
          /\ Sleep("dispatcher", IF idx % 2 = 0 THEN 5 ELSE 10)
          /\ UNCHANGED overrun
  /\ UNCHANGED <<example, popped>>

\* A normal command (even), 1 s later an urgent one (odd), 2 s later the next.
\* Behind the end of cmd_pool the behaviour is undefined, and the model ends.
Dispatch ==
  /\ example = 2 /\ Awake("dispatcher") /\ ~overrun
  /\ IF idx = PoolSize THEN overrun' = TRUE /\ UNCHANGED <<timer, stack, idx>>
     ELSE /\ stack' = <<idx>> \o stack
          /\ idx' = idx + 1
          /\ Sleep("dispatcher", IF idx % 2 = 0 THEN 10 ELSE 20)
          /\ UNCHANGED overrun
  /\ UNCHANGED <<example, popped>>

CanExecute == example = 2 /\ Awake("executor") /\ stack # <<>> /\ ~overrun

Execute ==
  /\ CanExecute /\ Sleep("executor", 12)
  /\ popped' = <<Head(stack)>> /\ stack' = Tail(stack)
  /\ UNCHANGED <<example, idx, overrun>>

Tick ==
  /\ ~CanPop /\ ~CanExecute /\ ~overrun
  /\ example = 1 => ~Awake("push") \/ idx = NTasks
  /\ example = 2 => ~Awake("dispatcher")
  /\ Pass /\ UNCHANGED <<example, stack, idx, popped, overrun>>

\* push_func and pop_func return; after an overrun nothing is known.
Finished ==
  /\ overrun \/ (example = 1 /\ Len(popped) = NTasks)
  /\ UNCHANGED vars

Next == Push \/ Pop \/ Dispatch \/ Execute \/ Tick \/ Finished

Spec == Init /\ [][Next]_vars

-----------------------------------------------------------------------------
(* Properties. *)

TypeOK ==
  /\ example \in {1, 2}
  /\ \A t \in DOMAIN timer : timer[t] \in 0 .. 100 + Slack
  /\ stack \in Seq(0 .. PoolSize - 1)
  /\ popped \in Seq(0 .. PoolSize - 1)
  /\ idx \in 0 .. PoolSize /\ overrun \in BOOLEAN

\* First example: the tasks come out 4, 3, 2, 1, 0, because the three seconds
\* before the first pop are enough for every push, however late its sleeps end.
\* Second example: the executor keeps pace, so there is never a second command on
\* the stack, and commands are executed in the order they were pushed. An urgent
\* command, "although pushed after the normal one", never jumps the queue, as the
\* comments and the output say it does: by then the normal one has been executed.
InOrder ==
  /\ example = 1 => \A i \in DOMAIN popped : popped[i] = NTasks - i
  /\ example = 2 => Len(stack) <= 1

\* cmd_pool, which has six commands and no more, lasts until main has said that
\* the demonstration is over (the dispatcher goes on after that).
PoolLastsForMain == overrun => timer.main = 0
=============================================================================
