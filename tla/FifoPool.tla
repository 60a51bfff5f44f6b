------------------------------ MODULE FifoPool ------------------------------
(***************************************************************************)
(* app36_fifo, second example: the producer puts the items of data_pool in *)
(* rotation, whether or not they have been taken out; k_fifo_put links the *)
(* item itself into the list, its first word being the link.  A unit of    *)
(* time is 500 ms.                                                         *)
(***************************************************************************)
EXTENDS Sleeping

CONSTANT POOL_SIZE

VARIABLES
  pool_index,
  head, tail,   \* the list of data_fifo
  link,         \* the first word of each item
  reput         \* an item has been put that was still in the list

vars == <<timer, pool_index, head, tail, link, reput>>

Items == 0 .. POOL_SIZE - 1
Null  == POOL_SIZE

Init ==
  /\ timer = [producer |-> 3, consumer |-> 0]
  /\ pool_index = 0
  /\ head = Null /\ tail = Null
  /\ link = [i \in Items |-> Null]
  /\ reput = FALSE

\* Reach[n]: the items the first n links of the list lead to.
Reach[n \in 0 .. POOL_SIZE] ==
  IF n = 0 THEN {head} \ {Null}
  ELSE Reach[n - 1] \cup ({link[i] : i \in Reach[n - 1]} \ {Null})
Queued == Reach[POOL_SIZE]

\* k_fifo_put: append to the list.
AppendItem(i) ==
  /\ tail' = i
  /\ IF tail = Null
       THEN head' = i /\ link' = [link EXCEPT ![i] = Null]
       ELSE link' = [link EXCEPT ![i] = Null, ![tail] = i] /\ UNCHANGED head

Put ==
  /\ timer.producer = 0 /\ Sleep("producer", 3)
  /\ AppendItem(pool_index)
  /\ reput' = (pool_index \in Queued)
  /\ pool_index' = (pool_index + 1) % POOL_SIZE

ReadyToGet == timer.consumer = 0 /\ head # Null

Get ==
  /\ ReadyToGet /\ Sleep("consumer", 5)
  /\ head' = link[head]
  /\ tail' = IF link[head] = Null THEN Null ELSE tail
  /\ UNCHANGED <<pool_index, link, reput>>

Tick ==
  /\ timer.producer # 0 /\ ~ReadyToGet
  /\ Pass /\ UNCHANGED <<pool_index, head, tail, link, reput>>

Next == Put \/ Get \/ Tick

Spec == Init /\ [][Next]_vars

-----------------------------------------------------------------------------
(* Properties. *)

TypeOK ==
  /\ timer \in [{"producer", "consumer"} -> 0 .. 5 + Slack]
  /\ pool_index \in Items
  /\ head \in Items \cup {Null} /\ tail \in Items \cup {Null}
  /\ link \in [Items -> Items \cup {Null}]
  /\ reput \in BOOLEAN

\* "The same item must not be put again before it has been taken out."
NoReputWhileQueued == ~reput

\* Although items are put while they are in the list, the list stays one: from
\* its head the links end at its tail.  The item put again is always the head,
\* so the list is cut there, to that one item, and no link ever closes a loop
\* that k_fifo_get would run around for ever.
ListIsChain ==
  /\ (head = Null) <=> (tail = Null)
  /\ tail # Null => tail \in Queued /\ link[tail] = Null
  /\ \A i \in Queued : link[i] # Null => link[i] # head
=============================================================================
