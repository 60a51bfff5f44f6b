----------------------------- MODULE FifoAlloc -----------------------------
(***************************************************************************)
(* app36_fifo, first example: the sensor allocates a block and passes it   *)
(* through a FIFO whose nodes the kernel allocates from the same heap; the *)
(* processor frees the block.  A unit of time is 100 ms.                   *)
(***************************************************************************)
EXTENDS Sleeping, Sequences, FiniteSets

CONSTANT Heap   \* the cells of the heap; a block or a node takes one

VARIABLES
  used,   \* cells in use
  fifo,   \* <<block, node>>, oldest first
  held    \* blocks the processor is working on

vars == <<timer, used, fifo, held>>

Init ==
  /\ timer = [sensor |-> 10, processor |-> 0]
  /\ used = {} /\ fifo = <<>> /\ held = {}

\* k_malloc fails, or k_fifo_alloc_put fails for want of a node, or the block
\* is in the FIFO.
PutLeaks ==   \* variant: the block is not freed when the put fails
  /\ Awake("sensor") /\ Sleep("sensor", 10)
  /\ \/ Cardinality(Heap \ used) = 0 /\ UNCHANGED <<used, fifo>>
     \/ /\ Cardinality(Heap \ used) = 1
        /\ used' = Heap /\ UNCHANGED fifo
     \/ \E block \in Heap \ used, node \in Heap \ used :
          /\ block # node
          /\ used' = used \cup {block, node}
          /\ fifo' = Append(fifo, <<block, node>>)
  /\ UNCHANGED held

Put ==
  /\ Awake("sensor") /\ Sleep("sensor", 10)
  /\ \/ /\ Cardinality(Heap \ used) <= 1   \* allocated and freed again
        /\ UNCHANGED <<used, fifo>>
     \/ \E block \in Heap \ used, node \in Heap \ used :
          /\ block # node
          /\ used' = used \cup {block, node}
          /\ fifo' = Append(fifo, <<block, node>>)
  /\ UNCHANGED held

ReadyToGet == Awake("processor") /\ held = {} /\ fifo # <<>>

\* k_fifo_get frees the node.
Get ==
  /\ ReadyToGet /\ Sleep("processor", 8)
  /\ held' = {Head(fifo)[1]} /\ used' = used \ {Head(fifo)[2]}
  /\ fifo' = Tail(fifo)

Free ==
  /\ Awake("processor") /\ held # {}
  /\ used' = used \ held /\ held' = {}
  /\ UNCHANGED <<timer, fifo>>

Tick ==
  /\ ~Awake("sensor") /\ ~ReadyToGet /\ (held = {} \/ ~Awake("processor"))
  /\ Pass /\ UNCHANGED <<used, fifo, held>>

Next == Put \/ Get \/ Free \/ Tick

Spec == Init /\ [][Next]_vars

-----------------------------------------------------------------------------
(* Properties. *)

TypeOK ==
  /\ timer \in [{"sensor", "processor"} -> 0 .. 10 + Slack]
  /\ used \subseteq Heap /\ held \subseteq Heap
  /\ fifo \in Seq(Heap \X Heap)

\* Every cell in use belongs to exactly one of: a block in the FIFO, a node of
\* the FIFO, the processor.  Nothing leaks when an allocation fails half way,
\* and nothing is freed while somebody can still reach it.
HeapAccounted ==
  /\ used = held \cup UNION {{fifo[i][1], fifo[i][2]} : i \in DOMAIN fifo}
  /\ Cardinality(used) = Cardinality(held) + 2 * Len(fifo)
=============================================================================
