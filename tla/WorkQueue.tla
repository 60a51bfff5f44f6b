----------------------------- MODULE WorkQueue -----------------------------
(***************************************************************************)
(* app41_work_queue.  First the submitter gives work to the system's       *)
(* queue, at once and delayed; after 10 s main starts a queue of its own,  *)
(* to which the dispatcher gives a long and an urgent work; after 8 s more *)
(* main says that all has been shown.  A unit of time is 500 ms.           *)
(***************************************************************************)
EXTENDS Sleeping, Sequences

VARIABLES
  steps,    \* thread |-> how many of its steps main, submitter, dispatcher did
  queues,   \* queue |-> the works in it
  busy,     \* the handler of long_work sleeps in the thread of my_workq
  log       \* what has been executed, in order

vars == <<timer, steps, queues, busy, log>>

Init ==
  /\ timer = [main |-> 20, submitter |-> 0, dispatcher |-> 0,
              delayed_work |-> 0, my_workq |-> 0]
  /\ steps = [main |-> 1, submitter |-> 0, dispatcher |-> 0]
  /\ queues = [system |-> <<>>, my_workq |-> <<>>]
  /\ busy = FALSE /\ log = <<>>

AtStep(t, n) == steps[t] = n /\ steps' = [steps EXCEPT ![t] = n + 1]

\* k_work_submit: a work that is already in the queue is not added again.
Submit(q, w) ==
  queues' = [queues EXCEPT ![q] =
               IF \E i \in DOMAIN @ : @[i] = w THEN @ ELSE Append(@, w)]

MainImpatient ==   \* variant: 1 s for the second example
  /\ Awake("main")
  /\ \/ AtStep("main", 1) /\ Sleep("main", 2)
     \/ AtStep("main", 2) /\ UNCHANGED timer
  /\ UNCHANGED <<queues, busy, log>>

\* main starts the second example, and ends.
Main ==
  /\ Awake("main")
  /\ \/ AtStep("main", 1) /\ Sleep("main", 16)
     \/ AtStep("main", 2) /\ UNCHANGED timer
  /\ UNCHANGED <<queues, busy, log>>

Submitter ==
  /\ Awake("submitter")
  /\ \/ \E n \in {0, 1} :
          /\ AtStep("submitter", n)
          /\ Submit("system", "normal") /\ Sleep("submitter", 4)
     \/ /\ AtStep("submitter", 2)
        /\ \E late \in 0 .. Slack :
             timer' = [timer EXCEPT !.delayed_work = 6 + late, !.submitter = 10]
        /\ UNCHANGED queues
  /\ UNCHANGED <<busy, log>>

\* The delay of delayed_work, which step 3 has scheduled, is over.
DelayOver ==
  /\ Awake("delayed_work") /\ AtStep("submitter", 3)
  /\ Submit("system", "delayed")
  /\ UNCHANGED <<timer, busy, log>>

Dispatcher ==
  /\ steps["main"] > 1 /\ Awake("dispatcher")
  /\ \/ /\ AtStep("dispatcher", 0)
        /\ Submit("my_workq", "long") /\ Sleep("dispatcher", 1)
     \/ /\ AtStep("dispatcher", 1)
        /\ Submit("my_workq", "urgent") /\ Sleep("dispatcher", 10)
  /\ UNCHANGED <<busy, log>>

\* The system's queue: its handlers only print.
SystemWork ==
  /\ queues["system"] # <<>>
  /\ queues' = [queues EXCEPT !["system"] = Tail(@)]
  /\ log' = Append(log, Head(queues["system"]))
  /\ UNCHANGED <<timer, steps, busy>>

\* The queue of our own: the handler of long_work sleeps 2 s in its thread.
OwnWork ==
  /\ queues["my_workq"] # <<>> /\ ~busy
  /\ queues' = [queues EXCEPT !["my_workq"] = Tail(@)]
  /\ IF Head(queues["my_workq"]) = "long"
       THEN busy' = TRUE /\ Sleep("my_workq", 4) /\ UNCHANGED log
       ELSE log' = Append(log, "urgent") /\ UNCHANGED <<timer, busy>>
  /\ UNCHANGED steps

LongWorkEnds ==
  /\ busy /\ Awake("my_workq")
  /\ log' = Append(log, "long") /\ busy' = FALSE
  /\ UNCHANGED <<timer, steps, queues>>

\* Time passes while everyone sleeps or waits.
Tick ==
  /\ ~Awake("main")
  /\ ~Awake("submitter") \/ steps["submitter"] > 2
  /\ ~Awake("delayed_work") \/ steps["submitter"] # 3
  /\ ~Awake("dispatcher") \/ steps["main"] = 1 \/ steps["dispatcher"] > 1
  /\ queues["system"] = <<>> /\ (queues["my_workq"] = <<>> \/ busy)
  /\ ~busy \/ ~Awake("my_workq")
  /\ Pass
  /\ UNCHANGED <<steps, queues, busy, log>>

\* All threads have ended.
Ended ==
  steps = [main |-> 3, submitter |-> 4, dispatcher |-> 2] /\ log # <<>>
  /\ \A t \in DOMAIN timer : Awake(t)

Next ==
  \/ Main \/ Submitter \/ DelayOver \/ Dispatcher
  \/ SystemWork \/ OwnWork \/ LongWorkEnds \/ Tick

Spec == Init /\ [][Next]_vars

-----------------------------------------------------------------------------
(* Properties. *)

Works == {"normal", "delayed", "long", "urgent"}

TypeOK ==
  /\ timer \in [{"main", "submitter", "dispatcher", "delayed_work",
                 "my_workq"} -> 0 .. 20 + Slack]
  /\ steps \in [{"main", "submitter", "dispatcher"} -> 0 .. 4]
  /\ queues \in [{"system", "my_workq"} -> Seq(Works)]
  /\ busy \in BOOLEAN /\ log \in Seq(Works)

\* What main announces has been shown: all work of the first example before the
\* second is announced, and the urgent work, held up by the long one before it
\* in the queue, before the end.  Nothing but the lengths of sleeps sees to it.
AllShown ==
  LET first == <<"normal", "normal", "delayed">> IN
  /\ steps["main"] = 2 => \E n \in 0 .. Len(log) : SubSeq(log, 1, n) = first
  /\ steps["main"] = 3 => log = first \o <<"long", "urgent">>
=============================================================================
