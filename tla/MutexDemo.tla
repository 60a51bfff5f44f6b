----------------------------- MODULE MutexDemo -----------------------------
(***************************************************************************)
(* app32_mutex: four examples, each on a k_mutex of its own: two threads   *)
(* that compete, a writer and a reader of shared data, a holder and a      *)
(* waiter that gives up after a timeout, and one that locks recursively.   *)
(* The examples share nothing, so a behaviour runs one of them.  Sleeps,   *)
(* with and without the mutex, may take any time.                          *)
(***************************************************************************)
EXTENDS Integers

CONSTANT MaxWrites   \* bound: updates by the writer

VARIABLES
  active,           \* the threads of the chosen example
  pc,               \* where each of them is, see TypeOK
  owner, count,     \* the k_mutex: owner, lock count
  depth,            \* depth of recursive_function
  shared_counter,
  shared_buffer,    \* the number snprintf has put into it
  seen              \* the reader's copies of the two

data == <<shared_counter, shared_buffer, seen>>
vars == <<active, pc, owner, count, depth, data>>

Examples == {{"thread1", "thread2"}, {"writer", "reader"},
             {"holder", "waiter"}, {"recursive"}}
Nobody == "nobody"
MaxDepth == 3   \* recursive_function calls itself while depth < 3

Init ==
  /\ active \in Examples
  /\ pc = [t \in active |-> "idle"]
  /\ owner = Nobody /\ count = 0 /\ depth = 0
  /\ shared_counter = 0 /\ shared_buffer = 0 /\ seen = <<0, 0>>

-----------------------------------------------------------------------------
(* k_mutex_lock and k_mutex_unlock. *)

LockCall(t, from) ==
  /\ t \in active /\ pc[t] = from
  /\ IF owner \in {Nobody, t}
       THEN owner' = t /\ count' = count + 1 /\ pc' = [pc EXCEPT ![t] = "busy"]
       ELSE pc' = [pc EXCEPT ![t] = "pended"] /\ UNCHANGED <<owner, count>>

\* The last unlock hands the mutex to the thread that waits for it.
UnlockCall(t, to) ==
  /\ owner = t
  /\ \/ /\ count > 1
        /\ count' = count - 1 /\ pc' = [pc EXCEPT ![t] = to] /\ UNCHANGED owner
     \/ /\ count = 1 /\ \A w \in active : pc[w] # "pended"
        /\ owner' = Nobody /\ count' = 0 /\ pc' = [pc EXCEPT ![t] = to]
     \/ /\ count = 1
        /\ \E w \in active :
             /\ pc[w] = "pended" /\ owner' = w
             /\ pc' = [pc EXCEPT ![t] = to, ![w] = "busy"]
        /\ UNCHANGED count

-----------------------------------------------------------------------------
(* The threads. *)

Lock(t) ==
  /\ LockCall(t, "idle")
  /\ t = "writer" => shared_counter < MaxWrites
  /\ UNCHANGED <<active, depth, data>>

UnlockEarly(t) ==   \* variant: the writer may unlock before it formats
  /\ t \in active /\ t # "recursive"
  /\ pc[t] \in CASE t = "writer" -> {"half", "done"}
               [] t = "reader" -> {"done"}
               [] OTHER        -> {"busy"}
  /\ UnlockCall(t, "idle")
  /\ UNCHANGED <<active, depth, data>>

ForgetUnlock(t) ==   \* variant: the writer never unlocks
  /\ t \in active /\ t \notin {"recursive", "writer"}
  /\ pc[t] = IF t = "reader" THEN "done" ELSE "busy"
  /\ UnlockCall(t, "idle")
  /\ UNCHANGED <<active, depth, data>>

Unlock(t) ==
  /\ t \in active /\ t # "recursive"
  /\ pc[t] = IF t \in {"writer", "reader"} THEN "done" ELSE "busy"
  /\ UnlockCall(t, "idle")
  /\ UNCHANGED <<active, depth, data>>

\* K_MSEC(1000) expires: the waiter goes on without the mutex.
LockTimeout ==
  /\ "waiter" \in active /\ pc["waiter"] = "pended"
  /\ pc' = [pc EXCEPT !["waiter"] = "idle"]
  /\ UNCHANGED <<active, owner, count, depth, data>>

At(t, from, to) == t \in active /\ pc[t] = from /\ pc' = [pc EXCEPT ![t] = to]

\* The writer counts, then formats the buffer; the reader copies both.
Write ==
  \/ /\ At("writer", "busy", "half")
     /\ shared_counter' = shared_counter + 1
     /\ UNCHANGED <<active, owner, count, depth, shared_buffer, seen>>
  \/ /\ At("writer", "half", "done")
     /\ shared_buffer' = shared_counter
     /\ UNCHANGED <<active, owner, count, depth, shared_counter, seen>>

Read ==
  /\ \/ At("reader", "busy", "half") /\ seen' = <<shared_counter, seen[2]>>
     \/ At("reader", "half", "done") /\ seen' = <<seen[1], shared_buffer>>
  /\ UNCHANGED <<active, owner, count, depth, shared_counter, shared_buffer>>

\* recursive_function calls itself with the mutex locked, and unlocks once for
\* every return.
Recurse ==
  /\ depth < MaxDepth
  /\ LockCall("recursive", "busy")
  /\ depth' = depth + 1
  /\ UNCHANGED <<active, data>>

Return ==
  /\ "recursive" \in active
  /\ \/ pc["recursive"] = "busy" /\ depth = MaxDepth
     \/ pc["recursive"] = "done"
  /\ UnlockCall("recursive", IF depth = 0 THEN "idle" ELSE "done")
  /\ depth' = IF depth = 0 THEN 0 ELSE depth - 1
  /\ UNCHANGED <<active, data>>

Threads == UNION Examples

Step(t) ==
  \/ Lock(t) \/ Unlock(t)
  \/ t = "writer" /\ Write
  \/ t = "reader" /\ Read
  \/ t = "recursive" /\ (Recurse \/ Return)

Next == LockTimeout \/ \E t \in Threads : Step(t)

Spec == Init /\ [][Next]_vars

\* Every thread that is not waiting for the mutex goes on some day.
Fairness == \A t \in Threads : WF_vars(Step(t))
FairSpec == Spec /\ Fairness

-----------------------------------------------------------------------------
(* Properties. *)

TypeOK ==
  /\ active \in Examples
  /\ pc \in [active -> {"idle", "pended", "busy", "half", "done"}]
  /\ owner \in active \cup {Nobody} /\ count \in 0 .. MaxDepth + 1
  /\ depth \in 0 .. MaxDepth
  /\ shared_counter \in 0 .. MaxWrites /\ shared_buffer \in 0 .. MaxWrites
  /\ seen \in (0 .. MaxWrites) \X (0 .. MaxWrites)

\* What the reader prints belongs together: a counter and the buffer formatted
\* for it, never a counter ahead of its buffer.
CoherentRead == ("reader" \in active /\ pc["reader"] = "done") => seen[1] = seen[2]

\* Whoever asks for the mutex gets it, or has given up by its timeout.
Granted == \A t \in Threads :
  (t \in active /\ pc[t] = "pended") ~> (t \in active /\ pc[t] # "pended")
=============================================================================
