-------------------------- MODULE DemoTiming_proofs --------------------------
(***************************************************************************)
(* Proofs about the demonstration programs that nothing but the lengths of *)
(* their sleeps keeps in step.  Each theorem names how late a sleeper may  *)
(* wake for it to hold; one unit more, and it fails.                       *)
(***************************************************************************)
EXTENDS Demos_proofs

-----------------------------------------------------------------------------
(* app40: the channel with its subscriber and its listener. *)

\* The subscriber wakes at most 1.4 s late.
ZbusPunctual == Slack["zbus"] <= 14

\* The subscriber is awake again before the publisher, as long as there is a
\* message it has not read.
ZbusInv ==
  /\ Zbus!TypeOK
  /\ z_timer["subscriber"] <= 5 + Slack["zbus"]
  /\ ~z_locked /\ z_seen # z_chan => z_timer["subscriber"] < z_timer["publisher"]
  /\ ~z_locked => z_heard = z_chan

LEMMA ZbusInit == Init => ZbusInv
<1> SUFFICES ASSUME Zbus!Init PROVE ZbusInv
  BY DEF Init
<1>1. Slack["zbus"] \in Nat /\ MaxValid \in Nat /\ QueueSize \in Nat
  BY DemosAssumption DEF DemosAssumption, Sleepers
<1>2. /\ z_timer \in [{"publisher", "subscriber"} -> 0 .. 20 + Slack["zbus"]]
      /\ z_timer["subscriber"] = 0
  BY <1>1 DEF Zbus!Init
<1>3. z_locked \in BOOLEAN
  BY DEF Zbus!Init
<1>4. z_count = 0 /\ z_chan = 0 /\ z_queued = 0 /\ z_heard = 0 /\ z_seen = 0
  BY DEF Zbus!Init
<1> QED BY <1>1, <1>2, <1>3, <1>4 DEF Zbus!TypeOK, ZbusInv

LEMMA ZbusStep == ASSUME ZbusPunctual PROVE ZbusInv /\ Zbus!Next => ZbusInv'
<1> SUFFICES ASSUME ZbusInv, Zbus!Next PROVE ZbusInv'
  OBVIOUS
<1>0. Slack["zbus"] \in 0 .. 14 /\ MaxValid \in Nat /\ QueueSize \in Nat
  BY DemosAssumption, ZbusPunctual DEF DemosAssumption, Sleepers, ZbusPunctual
<1> USE <1>0 DEF ZbusInv, Zbus!TypeOK
<1>1. CASE Zbus!PublishRefused
  BY <1>1 DEF Zbus!PublishRefused, Zbus!Valid, Zbus!Awake, Zbus!Sleep
<1>2. CASE Zbus!Publish
  <2>1. /\ ~z_locked /\ z_timer["publisher"] = 0
        /\ z_count' \in 1 .. MaxValid /\ z_chan' = z_count' /\ z_seen' = z_seen
    BY <1>2 DEF Zbus!Publish, Zbus!Valid, Zbus!Awake
  <2>2. CASE z_queued < QueueSize
    <3>1. /\ z_queued' = z_queued + 1 /\ z_heard' = z_chan' /\ z_locked' = z_locked
          /\ Zbus!Sleep("publisher", 20)
      BY <1>2, <2>2 DEF Zbus!Publish
    <3> QED BY <2>1, <2>2, <3>1 DEF Zbus!Sleep
  <2>3. CASE ~(z_queued < QueueSize)
    <3>1. /\ z_queued' = z_queued /\ z_heard' = z_heard /\ z_locked'
          /\ z_locked' \in BOOLEAN
      BY <1>2, <2>3 DEF Zbus!Publish
    <3>2. Zbus!Sleep("publisher", 1)
      BY <1>2, <2>3 DEF Zbus!Publish
    <3> QED BY <2>1, <3>1, <3>2 DEF Zbus!Sleep
  <2> QED BY <2>2, <2>3
<1>3. CASE Zbus!PublishFails
  <2>1. /\ z_heard' = z_chan' /\ z_chan' = z_chan /\ z_count' = z_count
        /\ z_queued' = z_queued /\ z_seen' = z_seen
        /\ Zbus!Sleep("publisher", 20)
    BY <1>3 DEF Zbus!PublishFails
  <2>2. z_locked' \in BOOLEAN
    BY <1>3 DEF Zbus!PublishFails
  <2> QED BY <2>1, <2>2 DEF Zbus!Sleep
<1>4. CASE Zbus!Read
  BY <1>4 DEF Zbus!Read, Zbus!Awake, Zbus!Sleep
<1>5. CASE Zbus!Tick
  BY <1>5 DEF Zbus!Tick, Zbus!Awake, Zbus!Pass
<1> QED BY <1>1, <1>2, <1>3, <1>4, <1>5 DEF Zbus!Next

\* app40: every stored message reaches both observers, if sleepers wake at most
\* 1.4 s late.
THEOREM ZbusReachesBoth == ASSUME ZbusPunctual PROVE Spec => []ZbusBothObserve
<1>1. ZbusInv /\ [Next]_vars => ZbusInv'
  <2>1. ZbusInv /\ UNCHANGED zbusVars => ZbusInv'
    BY DEF zbusVars, ZbusInv, Zbus!TypeOK
  <2> QED BY <2>1, ZbusStep, StepsApart
<1>2. ZbusInv => ZbusBothObserve
  <2>1. Slack["zbus"] \in Nat
    BY DemosAssumption DEF DemosAssumption, Sleepers
  <2> QED BY <2>1 DEF ZbusInv, Zbus!TypeOK, ZbusBothObserve, Zbus!BothObserve
<1> QED BY ZbusInit, <1>1, <1>2, Behaviour, PTL

-----------------------------------------------------------------------------
(* app37: the LIFO examples. *)

\* Sleepers wake at most 200 ms late.
LifoPunctual == Slack["lifo"] <= 2

\* First example: the last push is over before the first pop, and the tasks
\* still on the stack follow those popped.
LifoTasks ==
  /\ l_timer \in [{"push", "pop"} -> Nat] /\ l_idx <= 5 /\ ~l_overrun
  /\ l_idx < 5 => l_popped = <<>> /\ l_timer["push"] + 7 * (4 - l_idx) < l_timer["pop"]
  /\ Len(l_stack) + Len(l_popped) = l_idx
  /\ \A i \in 1 .. Len(l_stack) : l_stack[i] = Len(l_stack) - i
  /\ \A i \in 1 .. Len(l_popped) : l_popped[i] = 5 - i

\* Second example: how much later than the dispatcher the executor may wake, or
\* how much earlier it must, for the stack to be empty at the next push.
LifoAhead ==
  IF l_stack = <<>> THEN IF l_idx % 2 = 0 THEN 10 ELSE 14
                    ELSE IF l_idx % 2 = 0 THEN -4 ELSE 0

\* Units the dispatcher takes for the commands that are left, after its pause.
LifoLeft == [n \in 0 .. 6 |-> 15 * (6 - n) + (IF n % 2 = 0 THEN 0 ELSE 5)]

LifoCommands ==
  /\ l_timer \in [{"dispatcher", "executor", "main"} -> Nat]
  /\ Len(l_stack) <= 1
  /\ ~l_overrun => l_timer["executor"] < l_timer["dispatcher"] + LifoAhead
  /\ l_timer["main"] <= l_timer["dispatcher"] + LifoLeft[l_idx]
  /\ l_overrun => l_timer["main"] = 0

LifoInv ==
  /\ Lifo!TypeOK
  /\ l_example = 1 => LifoTasks
  /\ l_example = 2 => LifoCommands

\* <<x>> \o s pushes x on the stack s.
LEMMA PushFront ==
  ASSUME NEW S, NEW s \in Seq(S), NEW x \in S
  PROVE  /\ <<x>> \o s \in Seq(S) /\ Len(<<x>> \o s) = Len(s) + 1
         /\ (<<x>> \o s)[1] = x
         /\ \A i \in 2 .. Len(s) + 1 : (<<x>> \o s)[i] = s[i - 1]
<1>1. <<x>> \in Seq(S) /\ Len(<<x>>) = 1 /\ <<x>>[1] = x
  OBVIOUS
<1> QED BY <1>1, ConcatProperties

\* A pause takes the dispatcher from one entry of LifoLeft to the next.
LEMMA LifoLeftStep ==
  /\ LifoLeft[0] = 90 /\ LifoLeft[6] = 0
  /\ \A n \in 0 .. 5 :
       LifoLeft[n] = LifoLeft[n + 1] + (IF n % 2 = 0 THEN 10 ELSE 20)
  /\ \A n \in 0 .. 6 : LifoLeft[n] \in Nat
BY DEF LifoLeft

LEMMA LifoInit == ASSUME LifoPunctual PROVE Init => LifoInv
<1> SUFFICES ASSUME Lifo!Init PROVE LifoInv
  BY DEF Init
<1>1. Slack["lifo"] \in 0 .. 2
  BY DemosAssumption, LifoPunctual DEF DemosAssumption, Sleepers, LifoPunctual
<1>2. /\ l_stack = <<>> /\ l_popped = <<>> /\ l_idx = 0
      /\ l_stack \in Seq(0 .. 5) /\ l_popped \in Seq(0 .. 5)
  BY DEF Lifo!Init
<1>3. ~l_overrun /\ l_overrun \in BOOLEAN
  BY DEF Lifo!Init
<1>4. CASE l_example = 1
  <2>1. l_timer = [push |-> 0, pop |-> 30]
    BY <1>4 DEF Lifo!Init
  <2>2. /\ l_timer \in [{"push", "pop"} -> Nat]
        /\ \A t \in DOMAIN l_timer : l_timer[t] \in 0 .. 100 + Slack["lifo"]
    BY <1>1, <2>1
  <2> QED
    BY <1>1, <1>2, <1>3, <1>4, <2>1, <2>2
    DEF LifoInv, LifoTasks, Lifo!TypeOK, Lifo!PoolSize
<1>5. CASE l_example = 2
  <2>1. l_timer = [dispatcher |-> 20, executor |-> 0, main |-> 100 + Slack["lifo"]]
    BY <1>5 DEF Lifo!Init
  <2>2. /\ l_timer \in [{"dispatcher", "executor", "main"} -> Nat]
        /\ \A t \in DOMAIN l_timer : l_timer[t] \in 0 .. 100 + Slack["lifo"]
    BY <1>1, <2>1
  <2>3. LifoAhead = 10
    BY <1>2 DEF LifoAhead
  <2>4. LifoCommands
    <3>1. /\ Len(l_stack) <= 1 /\ LifoLeft[l_idx] = 90
          /\ l_timer["dispatcher"] = 20 /\ l_timer["executor"] = 0
          /\ l_timer["main"] = 100 + Slack["lifo"]
      BY <1>2, <2>1, LifoLeftStep
    <3> QED BY <1>1, <1>3, <2>2, <2>3, <3>1 DEF LifoCommands
  <2> QED
    BY <1>1, <1>2, <1>3, <1>5, <2>2, <2>4 DEF LifoInv, Lifo!TypeOK, Lifo!PoolSize
<1> QED BY <1>4, <1>5 DEF Lifo!Init

LEMMA LifoPush == ASSUME LifoPunctual PROVE LifoInv /\ Lifo!Push => LifoInv'
<1> SUFFICES ASSUME LifoInv, Lifo!Push PROVE LifoInv'
  OBVIOUS
<1>0. Slack["lifo"] \in 0 .. 2
  BY DemosAssumption, LifoPunctual DEF DemosAssumption, Sleepers, LifoPunctual
<1>1. /\ l_example = 1 /\ l_example' = 1 /\ LifoTasks
      /\ l_idx \in 0 .. 4 /\ l_idx' = l_idx + 1 /\ l_timer["push"] = 0
      /\ l_popped = <<>> /\ l_popped' = l_popped /\ l_overrun' = l_overrun
      /\ l_stack \in Seq(0 .. 5) /\ l_popped \in Seq(0 .. 5)
  BY DEF LifoInv, LifoTasks, Lifo!TypeOK, Lifo!Push, Lifo!NTasks, Lifo!PoolSize,
    Lifo!Awake
<1>2. PICK late \in 0 .. Slack["lifo"] :
        l_timer' = [l_timer EXCEPT !["push"] = 5 + late]
  BY DEF Lifo!Push, Lifo!Sleep
<1>3. /\ l_timer' \in [{"push", "pop"} -> Nat] /\ l_timer'["push"] = 5 + late
      /\ l_timer'["pop"] = l_timer["pop"]
  BY <1>0, <1>1, <1>2 DEF LifoTasks
<1>4. /\ l_stack' \in Seq(0 .. 5) /\ Len(l_stack') = Len(l_stack) + 1
      /\ l_stack'[1] = l_idx
      /\ \A i \in 2 .. Len(l_stack) + 1 : l_stack'[i] = l_stack[i - 1]
  BY <1>1, PushFront DEF Lifo!Push
<1>5. Len(l_stack) \in Nat /\ Len(l_stack) = l_idx /\ Len(l_popped) = 0
  BY <1>1 DEF LifoTasks
<1>6. \A i \in 1 .. Len(l_stack') : l_stack'[i] = Len(l_stack') - i
  BY <1>1, <1>4, <1>5 DEF LifoTasks
<1>7. LifoTasks'
  <2>1. l_timer'["push"] + 7 * (4 - l_idx') < l_timer'["pop"]
    BY <1>0, <1>1, <1>3 DEF LifoTasks
  <2> QED BY <1>1, <1>3, <1>4, <1>5, <1>6, <2>1 DEF LifoTasks
<1>8. Lifo!TypeOK'
  BY <1>0, <1>1, <1>3, <1>4 DEF LifoInv, LifoTasks, Lifo!TypeOK, Lifo!PoolSize
<1> QED BY <1>1, <1>7, <1>8 DEF LifoInv

LEMMA LifoPop == ASSUME LifoPunctual PROVE LifoInv /\ Lifo!Pop => LifoInv'
<1> SUFFICES ASSUME LifoInv, Lifo!Pop PROVE LifoInv'
  OBVIOUS
<1>0. Slack["lifo"] \in 0 .. 2
  BY DemosAssumption, LifoPunctual DEF DemosAssumption, Sleepers, LifoPunctual
<1>1. /\ l_example = 1 /\ l_example' = 1 /\ LifoTasks
      /\ l_idx \in 0 .. 5 /\ l_idx' = l_idx /\ l_timer["pop"] = 0
      /\ l_overrun' = l_overrun /\ l_stack # <<>>
      /\ l_stack \in Seq(0 .. 5) /\ l_popped \in Seq(0 .. 5)
      /\ l_timer \in [{"push", "pop"} -> Nat]
  BY DEF LifoInv, LifoTasks, Lifo!TypeOK, Lifo!Pop, Lifo!CanPop, Lifo!PoolSize,
    Lifo!Awake
<1>2. l_idx = 5
  BY <1>1 DEF LifoTasks
<1>3. PICK late \in 0 .. Slack["lifo"] :
        l_timer' = [l_timer EXCEPT !["pop"] = 5 + late]
  BY DEF Lifo!Pop, Lifo!Sleep
<1>4. l_timer' \in [{"push", "pop"} -> Nat] /\ l_timer'["pop"] = 5 + late
      /\ l_timer'["push"] = l_timer["push"]
  BY <1>0, <1>1, <1>3
<1>5. /\ Len(l_stack) \in Nat \ {0} /\ Len(l_popped) \in Nat
      /\ Len(l_stack) + Len(l_popped) = 5 /\ Head(l_stack) = l_stack[1]
      /\ l_stack[1] = Len(l_stack) - 1
  BY <1>1, <1>2 DEF LifoTasks
<1>6. /\ l_stack' \in Seq(0 .. 5) /\ Len(l_stack') = Len(l_stack) - 1
      /\ \A i \in 1 .. Len(l_stack) - 1 : l_stack'[i] = l_stack[i + 1]
  BY <1>1, <1>5, HeadTailProperties DEF Lifo!Pop
<1>7. /\ l_popped' \in Seq(0 .. 5) /\ Len(l_popped') = Len(l_popped) + 1
      /\ \A i \in 1 .. Len(l_popped) : l_popped'[i] = l_popped[i]
      /\ l_popped'[Len(l_popped) + 1] = Len(l_stack) - 1
  BY <1>1, <1>5, AppendProperties DEF Lifo!Pop
<1>8. \A i \in 1 .. Len(l_stack') : l_stack'[i] = Len(l_stack') - i
  BY <1>1, <1>5, <1>6 DEF LifoTasks
<1>9. \A i \in 1 .. Len(l_popped') : l_popped'[i] = 5 - i
  BY <1>1, <1>5, <1>7 DEF LifoTasks
<1>10. LifoTasks'
  BY <1>1, <1>2, <1>4, <1>5, <1>6, <1>7, <1>8, <1>9 DEF LifoTasks
<1>11. Lifo!TypeOK'
  BY <1>0, <1>1, <1>4, <1>6, <1>7 DEF LifoInv, Lifo!TypeOK, Lifo!PoolSize
<1> QED BY <1>1, <1>10, <1>11 DEF LifoInv

LEMMA LifoDispatch == ASSUME LifoPunctual PROVE LifoInv /\ Lifo!Dispatch => LifoInv'
<1> SUFFICES ASSUME LifoInv, Lifo!Dispatch PROVE LifoInv'
  OBVIOUS
<1>0. Slack["lifo"] \in 0 .. 2
  BY DemosAssumption, LifoPunctual DEF DemosAssumption, Sleepers, LifoPunctual
<1>1. /\ l_example = 2 /\ l_example' = 2 /\ LifoCommands /\ ~l_overrun
      /\ l_idx \in 0 .. 6 /\ l_timer["dispatcher"] = 0
      /\ l_popped' = l_popped /\ l_stack \in Seq(0 .. 5) /\ l_popped \in Seq(0 .. 5)
      /\ l_timer \in [{"dispatcher", "executor", "main"} -> Nat]
  BY DEF LifoInv, LifoCommands, Lifo!TypeOK, Lifo!Dispatch, Lifo!PoolSize, Lifo!Awake
<1>2. CASE l_idx = 6
  <2>1. /\ l_timer' = l_timer /\ l_stack' = l_stack /\ l_idx' = l_idx
        /\ l_overrun' /\ l_overrun' \in BOOLEAN
    BY <1>2 DEF Lifo!Dispatch, Lifo!PoolSize
  <2>2. l_timer["main"] = 0
    BY <1>1, <1>2, LifoLeftStep DEF LifoCommands
  <2> QED BY <1>1, <2>1, <2>2 DEF LifoInv, LifoCommands, Lifo!TypeOK
<1>3. CASE l_idx # 6
  <2>1. /\ l_stack' = <<l_idx>> \o l_stack /\ l_idx' = l_idx + 1
        /\ Lifo!Sleep("dispatcher", IF l_idx % 2 = 0 THEN 10 ELSE 20)
        /\ l_overrun' = l_overrun
    BY <1>3 DEF Lifo!Dispatch, Lifo!PoolSize
  <2>2. PICK late \in 0 .. Slack["lifo"] : l_timer' = [l_timer EXCEPT
          !["dispatcher"] = (IF l_idx % 2 = 0 THEN 10 ELSE 20) + late]
    BY <2>1 DEF Lifo!Sleep
  <2>3. /\ l_timer' \in [{"dispatcher", "executor", "main"} -> Nat]
        /\ l_timer'["dispatcher"] = (IF l_idx % 2 = 0 THEN 10 ELSE 20) + late
        /\ l_timer'["executor"] = l_timer["executor"]
        /\ l_timer'["main"] = l_timer["main"]
    BY <1>0, <1>1, <2>2
  <2>4. Len(l_stack) = 0 /\ l_stack = <<>>
    <3>1. CASE l_stack # <<>>
      BY <1>1, <3>1 DEF LifoCommands, LifoAhead
    <3> QED BY <1>1, <3>1
  <2>5. l_stack' \in Seq(0 .. 5) /\ Len(l_stack') = 1 /\ l_stack' # <<>>
    BY <1>1, <1>3, <2>1, <2>4, PushFront
  <2>6. l_timer'["executor"] < l_timer'["dispatcher"] + LifoAhead'
    <3>1. LifoAhead = IF l_idx % 2 = 0 THEN 10 ELSE 14
      BY <2>4 DEF LifoAhead
    <3>2. LifoAhead' = IF l_idx % 2 = 0 THEN 0 ELSE -4
      <4>1. l_idx \in 0 .. 5 => ((l_idx + 1) % 2 = 0 <=> l_idx % 2 # 0)
        OBVIOUS
      <4> QED BY <1>1, <1>3, <2>1, <2>5, <4>1 DEF LifoAhead
    <3> QED BY <1>0, <1>1, <2>3, <3>1, <3>2 DEF LifoCommands
  <2>7. l_timer'["main"] <= l_timer'["dispatcher"] + LifoLeft[l_idx']
    <3>4. l_idx \in 0 .. 5 /\ l_idx' \in 0 .. 6
      BY <1>1, <1>3, <2>1
    <3>1. l_idx \in 0 .. 5 /\ l_idx' \in 0 .. 6 /\ LifoLeft[l_idx] \in Nat
      BY <3>4, LifoLeftStep
    <3>3. l_timer["main"] <= LifoLeft[l_idx]
      BY <1>1, <3>1 DEF LifoCommands
    <3>2. /\ LifoLeft[l_idx] = LifoLeft[l_idx'] + (IF l_idx % 2 = 0 THEN 10 ELSE 20)
          /\ LifoLeft[l_idx'] \in Nat
      BY <2>1, <3>1, LifoLeftStep
    <3> QED BY <1>0, <1>1, <2>3, <3>1, <3>2, <3>3
  <2>8. LifoCommands'
    BY <1>1, <2>1, <2>3, <2>5, <2>6, <2>7 DEF LifoCommands
  <2>9. Lifo!TypeOK'
    BY <1>0, <1>1, <1>3, <2>1, <2>3, <2>5 DEF LifoInv, Lifo!TypeOK, Lifo!PoolSize
  <2> QED BY <1>1, <2>8, <2>9 DEF LifoInv
<1> QED BY <1>2, <1>3

LEMMA LifoExecute == ASSUME LifoPunctual PROVE LifoInv /\ Lifo!Execute => LifoInv'
<1> SUFFICES ASSUME LifoInv, Lifo!Execute PROVE LifoInv'
  OBVIOUS
<1>0. Slack["lifo"] \in 0 .. 2
  BY DemosAssumption, LifoPunctual DEF DemosAssumption, Sleepers, LifoPunctual
<1>1. /\ l_example = 2 /\ l_example' = 2 /\ LifoCommands /\ ~l_overrun
      /\ l_idx \in 0 .. 6 /\ l_timer["executor"] = 0 /\ l_idx' = l_idx
      /\ l_stack \in Seq(0 .. 5) /\ l_stack # <<>> /\ l_overrun' = l_overrun
      /\ l_timer \in [{"dispatcher", "executor", "main"} -> Nat]
  BY DEF LifoInv, LifoCommands, Lifo!TypeOK, Lifo!Execute, Lifo!CanExecute,
    Lifo!PoolSize, Lifo!Awake
<1>2. PICK late \in 0 .. Slack["lifo"] :
        l_timer' = [l_timer EXCEPT !["executor"] = 12 + late]
  BY DEF Lifo!Execute, Lifo!Sleep
<1>3. /\ l_timer' \in [{"dispatcher", "executor", "main"} -> Nat]
      /\ l_timer'["executor"] = 12 + late
      /\ l_timer'["dispatcher"] = l_timer["dispatcher"]
      /\ l_timer'["main"] = l_timer["main"]
  BY <1>0, <1>1, <1>2
<1>4. /\ l_stack' \in Seq(0 .. 5) /\ Len(l_stack') = 0 /\ l_stack' = <<>>
      /\ Head(l_stack) \in 0 .. 5 /\ l_popped' = <<Head(l_stack)>>
  <2>1. Len(l_stack) = 1
    <3>1. Len(l_stack) <= 1
      BY <1>1 DEF LifoCommands
    <3>2. Len(l_stack) \in Nat /\ Len(l_stack) # 0
      BY <1>1, EmptySeq
    <3>3. \A n \in Nat : n <= 1 /\ n # 0 => n = 1
      OBVIOUS
    <3> QED BY <3>1, <3>2, <3>3
  <2>2. l_stack' = Tail(l_stack) /\ Head(l_stack) = l_stack[1]
    BY DEF Lifo!Execute
  <2>3. l_stack' \in Seq(0 .. 5) /\ Len(l_stack') = 0
    BY <1>1, <2>1, <2>2, HeadTailProperties
  <2> QED BY <1>1, <2>1, <2>2, <2>3 DEF Lifo!Execute
<1>5. l_timer'["executor"] < l_timer'["dispatcher"] + LifoAhead'
  <2>1. LifoAhead = IF l_idx % 2 = 0 THEN -4 ELSE 0
    BY <1>1 DEF LifoAhead
  <2>2. LifoAhead' = IF l_idx % 2 = 0 THEN 10 ELSE 14
    BY <1>1, <1>4 DEF LifoAhead
  <2> QED BY <1>0, <1>1, <1>3, <2>1, <2>2 DEF LifoCommands
<1>6. LifoCommands'
  BY <1>1, <1>3, <1>4, <1>5 DEF LifoCommands
<1>7. Lifo!TypeOK'
  BY <1>0, <1>1, <1>3, <1>4 DEF LifoInv, Lifo!TypeOK, Lifo!PoolSize
<1> QED BY <1>1, <1>6, <1>7 DEF LifoInv

LEMMA LifoTick == ASSUME LifoPunctual PROVE LifoInv /\ Lifo!Tick => LifoInv'
<1> SUFFICES ASSUME LifoInv, Lifo!Tick PROVE LifoInv'
  OBVIOUS
<1>0. Slack["lifo"] \in 0 .. 2
  BY DemosAssumption, LifoPunctual DEF DemosAssumption, Sleepers, LifoPunctual
<1>1. /\ l_example' = l_example /\ l_idx' = l_idx /\ l_stack' = l_stack
      /\ l_popped' = l_popped /\ l_overrun' = l_overrun /\ ~l_overrun
      /\ l_timer' = [t \in DOMAIN l_timer |->
                       IF l_timer[t] > 0 THEN l_timer[t] - 1 ELSE 0]
  BY DEF Lifo!Tick, Lifo!Pass
<1>2. Lifo!TypeOK'
  BY <1>0, <1>1 DEF LifoInv, Lifo!TypeOK
<1>3. ASSUME l_example = 1 PROVE LifoTasks'
  <2>1. LifoTasks /\ l_idx \in 0 .. 5
    BY <1>3 DEF LifoInv, LifoTasks, Lifo!TypeOK, Lifo!PoolSize
  <2>2. /\ l_timer' \in [{"push", "pop"} -> Nat]
        /\ l_timer["push"] > 0 => l_timer'["push"] = l_timer["push"] - 1
        /\ l_timer["pop"] > 0 => l_timer'["pop"] = l_timer["pop"] - 1
    BY <1>1, <2>1 DEF LifoTasks
  <2>3. l_idx < 5 => l_timer["push"] > 0
    BY <1>3, <2>1 DEF LifoTasks, Lifo!Tick, Lifo!Awake, Lifo!NTasks
  <2>4. l_idx < 5 => l_timer'["push"] + 7 * (4 - l_idx') < l_timer'["pop"]
    BY <1>1, <2>1, <2>2, <2>3 DEF LifoTasks
  <2> QED BY <1>1, <2>1, <2>2, <2>4 DEF LifoTasks
<1>4. ASSUME l_example = 2 PROVE LifoCommands'
  <2>1. LifoCommands /\ l_idx \in 0 .. 6 /\ l_stack \in Seq(0 .. 5)
    BY <1>4 DEF LifoInv, Lifo!TypeOK, Lifo!PoolSize
  <2>2. /\ l_timer["dispatcher"] > 0
        /\ l_stack # <<>> => l_timer["executor"] > 0
    BY <1>1, <1>4, <2>1
    DEF LifoCommands, Lifo!Tick, Lifo!Awake, Lifo!CanExecute
  <2>3. /\ l_timer' \in [{"dispatcher", "executor", "main"} -> Nat]
        /\ l_timer'["dispatcher"] = l_timer["dispatcher"] - 1
        /\ l_timer'["executor"] =
             IF l_timer["executor"] > 0 THEN l_timer["executor"] - 1 ELSE 0
        /\ l_timer'["main"] = IF l_timer["main"] > 0 THEN l_timer["main"] - 1 ELSE 0
    BY <1>1, <2>1, <2>2 DEF LifoCommands
  <2>4. /\ LifoAhead' = LifoAhead /\ LifoAhead \in {10, 14, -4, 0}
        /\ l_stack = <<>> => LifoAhead \in {10, 14}
    BY <1>1 DEF LifoAhead
  <2>5. l_timer'["executor"] < l_timer'["dispatcher"] + LifoAhead'
    BY <1>1, <2>1, <2>2, <2>3, <2>4 DEF LifoCommands
  <2>6. l_timer'["main"] <= l_timer'["dispatcher"] + LifoLeft[l_idx']
    <3>1. LifoLeft[l_idx] \in Nat
      BY <2>1, LifoLeftStep
    <3> QED BY <1>1, <2>1, <2>2, <2>3, <3>1 DEF LifoCommands
  <2> QED BY <1>1, <2>1, <2>3, <2>5, <2>6 DEF LifoCommands
<1> QED BY <1>1, <1>2, <1>3, <1>4 DEF LifoInv

\* app37: the tasks come out in reverse, no command waits under a later one, and
\* cmd_pool lasts until main is through, if sleepers wake at most 200 ms late.
THEOREM LifoKeepsPace == ASSUME LifoPunctual PROVE Spec => []LifoPaced
<1>1. LifoInv /\ [Next]_vars => LifoInv'
  <2>1. LifoInv /\ UNCHANGED lifoVars => LifoInv'
    BY DEF lifoVars, LifoInv, LifoTasks, LifoCommands, LifoAhead, Lifo!TypeOK
  <2>2. LifoInv /\ Lifo!Finished => LifoInv'
    BY <2>1 DEF Lifo!Finished, Lifo!vars, lifoVars
  <2> QED
    BY <2>1, <2>2, LifoPush, LifoPop, LifoDispatch, LifoExecute, LifoTick, StepsApart
    DEF Lifo!Next
<1>2. LifoInv => LifoPaced
  <2> SUFFICES ASSUME LifoInv PROVE LifoPaced
    OBVIOUS
  <2>1. l_example = 1 => \A i \in DOMAIN l_popped : l_popped[i] = Lifo!NTasks - i
    BY DEF LifoInv, LifoTasks, Lifo!TypeOK, Lifo!NTasks
  <2> QED
    BY <2>1 DEF LifoInv, LifoTasks, LifoCommands, LifoPaced, Lifo!InOrder,
      Lifo!PoolLastsForMain, Lifo!TypeOK
<1> QED BY LifoInit, <1>1, <1>2, Behaviour, PTL

-----------------------------------------------------------------------------
(* app35: the message queue examples. *)

\* Sleepers wake at most 500 ms late.
MsgqPunctual == Slack["msgq"] <= 1

\* Units until the consumer can take the next message.
MsgqBusy == IF q_waiting THEN 0 ELSE q_timer["consumer"]

\* First example: a reading at place i gets out after i - 1 periods of the
\* processor more, and its age grows by one in a period of the sensor.
MsgqReadings ==
  /\ q_pending = <<>> /\ MsgqBusy <= 5 /\ q_timer["producer"] <= 4
  /\ q_waiting => q_timer["consumer"] = 0
  /\ \A i \in 1 .. Len(q_queue) :
       3 * q_queue[i] + MsgqBusy + 5 * (i - 1) <= 22 + q_timer["producer"]

\* Second example: the same for commands; the one the sender waits with has not
\* aged, and the handler's timeout is further away than the next command.
MsgqCommands ==
  /\ MsgqBusy <= 8 /\ q_timer["producer"] <= 5
  /\ q_pending # <<>> =>
       q_pending = <<0>> /\ Len(q_queue) = 3 /\ q_timer["producer"] <= 3
  /\ \A i \in 1 .. Len(q_queue) :
       4 * q_queue[i] + MsgqBusy + 9 * (i - 1)
         <= 22 + q_timer["producer"] + (IF q_pending = <<>> THEN 0 ELSE 2)
  /\ q_waiting /\ q_queue = <<>> => q_timer["producer"] < q_timer["consumer"]

MsgqInv ==
  /\ Msgq!TypeOK
  /\ q_timer \in [{"producer", "consumer"} -> Nat]
  /\ q_example = 1 => MsgqReadings
  /\ q_example = 2 => MsgqCommands

\* Older adds one to every age.
LEMMA MsgqOlder ==
  ASSUME NEW s \in Seq(Nat)
  PROVE  /\ Msgq!Older(s) \in Seq(Nat) /\ Len(Msgq!Older(s)) = Len(s)
         /\ \A i \in 1 .. Len(s) : Msgq!Older(s)[i] = s[i] + 1
BY DEF Msgq!Older

\* A message put into the queue is its last, of age 0.
LEMMA MsgqPutLast ==
  ASSUME NEW s \in Seq(Nat)
  PROVE  /\ Msgq!Older(s) \o <<0>> \in Seq(Nat)
         /\ Len(Msgq!Older(s) \o <<0>>) = Len(s) + 1
         /\ \A i \in 1 .. Len(s) : (Msgq!Older(s) \o <<0>>)[i] = s[i] + 1
         /\ (Msgq!Older(s) \o <<0>>)[Len(s) + 1] = 0
<1>1. <<0>> \in Seq(Nat) /\ Len(<<0>>) = 1 /\ <<0>>[1] = 0
  OBVIOUS
<1> DEFINE old == Msgq!Older(s)
<1>2. /\ old \in Seq(Nat) /\ Len(old) = Len(s) /\ Len(s) \in Nat
      /\ \A i \in 1 .. Len(s) : old[i] = s[i] + 1
  BY MsgqOlder
<1> HIDE DEF old
<1>3. /\ old \o <<0>> \in Seq(Nat) /\ Len(old \o <<0>>) = Len(s) + 1
      /\ \A i \in 1 .. Len(s) + 1 :
           (old \o <<0>>)[i] = IF i <= Len(s) THEN old[i] ELSE <<0>>[i - Len(s)]
  BY <1>1, <1>2, ConcatProperties
<1>4. old \o <<0>> \in Seq(Nat) /\ Len(old \o <<0>>) = Len(s) + 1
  BY <1>3
<1>5. \A i \in 1 .. Len(s) : (old \o <<0>>)[i] = s[i] + 1
  BY <1>2, <1>3
<1>6. (old \o <<0>>)[Len(s) + 1] = 0
  BY <1>1, <1>2, <1>3
<1> QED BY <1>4, <1>5, <1>6 DEF old

LEMMA MsgqInit == Init => MsgqInv
<1> SUFFICES ASSUME Msgq!Init PROVE MsgqInv
  BY DEF Init
<1>1. Slack["msgq"] \in Nat
  BY DemosAssumption DEF DemosAssumption, Sleepers
<1>2. /\ q_queue = <<>> /\ Len(q_queue) = 0 /\ q_queue \in Seq(Nat)
      /\ q_pending = <<>> /\ Len(q_pending) = 0 /\ q_pending \in Seq(Nat)
      /\ Len(q_last) = 0 /\ q_last \in Seq(Nat)
  BY DEF Msgq!Init
<1>3. q_waiting /\ q_waiting \in BOOLEAN /\ q_example \in {1, 2}
  BY DEF Msgq!Init
<1>4. /\ q_timer \in [{"producer", "consumer"} -> Nat]
      /\ q_timer["producer"] = (IF q_example = 1 THEN 3 ELSE 4)
      /\ q_timer["consumer"] = (IF q_example = 1 THEN 0 ELSE 10)
  BY DEF Msgq!Init
<1>5. Msgq!TypeOK
  BY <1>1, <1>2, <1>3, <1>4 DEF Msgq!TypeOK, Msgq!Capacity
<1>6. MsgqBusy = 0
  BY <1>3 DEF MsgqBusy
<1> QED
  BY <1>2, <1>3, <1>4, <1>5, <1>6 DEF MsgqInv, MsgqReadings, MsgqCommands

LEMMA MsgqSensorPut == ASSUME MsgqPunctual PROVE MsgqInv /\ Msgq!SensorPut => MsgqInv'
<1> SUFFICES ASSUME MsgqInv, Msgq!SensorPut PROVE MsgqInv'
  OBVIOUS
<1>0. Slack["msgq"] \in 0 .. 1
  BY DemosAssumption, MsgqPunctual DEF DemosAssumption, Sleepers, MsgqPunctual
<1>1. /\ q_example = 1 /\ q_example' = 1 /\ MsgqReadings
      /\ q_timer \in [{"producer", "consumer"} -> Nat] /\ q_timer["producer"] = 0
      /\ q_timer["consumer"] <= 10 + Slack["msgq"]
      /\ q_queue \in Seq(Nat) /\ Len(q_queue) <= 5 /\ q_last \in Seq(Nat)
      /\ Len(q_last) <= 1 /\ q_pending' = q_pending
  BY DEF MsgqInv, Msgq!TypeOK, Msgq!SensorPut, Msgq!Capacity, Msgq!Awake
<1>2. q_waiting \in BOOLEAN /\ q_waiting' = q_waiting
  BY DEF MsgqInv, Msgq!TypeOK, Msgq!SensorPut
<1>3. PICK late \in 0 .. Slack["msgq"] :
        q_timer' = [q_timer EXCEPT !["producer"] = 3 + late]
  BY DEF Msgq!SensorPut, Msgq!Sleep
<1>4. /\ q_timer' \in [{"producer", "consumer"} -> Nat]
      /\ q_timer'["producer"] = 3 + late
      /\ q_timer'["consumer"] = q_timer["consumer"]
  BY <1>0, <1>1, <1>3
<1>5. q_last' \in Seq(Nat) /\ Len(q_last') <= 1
  BY <1>1, MsgqOlder DEF Msgq!SensorPut
<1>6. MsgqBusy' = MsgqBusy /\ MsgqBusy \in Nat
  BY <1>1, <1>2, <1>4 DEF MsgqBusy
<1>7. /\ q_queue' \in Seq(Nat) /\ Len(q_queue') <= 5
      /\ \A i \in 1 .. Len(q_queue') :
           \/ i \in 1 .. Len(q_queue) /\ q_queue'[i] = q_queue[i] + 1
           \/ q_queue'[i] = 0
  <2>1. CASE Len(q_queue) < 5
    <3>1. q_queue' = Msgq!Older(q_queue) \o <<0>>
      BY <1>1, <2>1 DEF Msgq!SensorPut, Msgq!Capacity
    <3>2. Len(q_queue) \in Nat
      BY <1>1
    <3> QED BY <1>1, <2>1, <3>1, <3>2, MsgqPutLast
  <2>2. CASE ~(Len(q_queue) < 5)
    <3>1. q_queue' = Msgq!Older(q_queue)
      BY <1>1, <2>2 DEF Msgq!SensorPut, Msgq!Capacity
    <3> QED BY <1>1, <3>1, MsgqOlder
  <2> QED BY <2>1, <2>2
<1>8. \A i \in 1 .. Len(q_queue') :
        3 * q_queue'[i] + MsgqBusy' + 5 * (i - 1) <= 22 + q_timer'["producer"]
  <2> SUFFICES ASSUME NEW i \in 1 .. Len(q_queue')
               PROVE  3 * q_queue'[i] + MsgqBusy' + 5 * (i - 1) <= 22 + q_timer'["producer"]
    OBVIOUS
  <2>1. i \in 1 .. 5
    BY <1>7
  <2>2. CASE i \in 1 .. Len(q_queue) /\ q_queue'[i] = q_queue[i] + 1
    <3>1. 3 * q_queue[i] + MsgqBusy + 5 * (i - 1) <= 22 + 0
      <4>1. 3 * q_queue[i] + MsgqBusy + 5 * (i - 1) <= 22 + q_timer["producer"]
        BY <1>1, <2>2 DEF MsgqReadings
      <4>2. q_timer["producer"] = 0
        BY <1>1
      <4> QED BY <4>1, <4>2, Zenon
    <3>2. PICK age \in Nat : age = q_queue[i]
      BY <1>1, <2>2
    <3>3. \A a, b, d \in Nat, j \in 1 .. 5 :
            3 * a + b + 5 * (j - 1) <= 22 + 0 => 3 * (a + 1) + b + 5 * (j - 1) <= 22 + (3 + d)
      OBVIOUS
    <3>4. late \in Nat
      BY <1>0
    <3>5. 3 * (age + 1) + MsgqBusy + 5 * (i - 1) <= 22 + (3 + late)
      BY <1>6, <2>1, <3>1, <3>2, <3>3, <3>4
    <3> QED BY <1>4, <1>6, <2>2, <3>2, <3>5
  <2>3. CASE q_queue'[i] = 0
    BY <1>0, <1>1, <1>4, <1>6, <2>1, <2>3 DEF MsgqReadings
  <2> QED BY <1>7, <2>2, <2>3
<1>9. MsgqReadings'
  BY <1>0, <1>1, <1>2, <1>4, <1>6, <1>8 DEF MsgqReadings
<1>10. Msgq!TypeOK'
  BY <1>0, <1>1, <1>2, <1>4, <1>5, <1>7 DEF MsgqInv, Msgq!TypeOK, Msgq!Capacity
<1> QED BY <1>1, <1>4, <1>9, <1>10 DEF MsgqInv

LEMMA MsgqSenderPut == ASSUME MsgqPunctual PROVE MsgqInv /\ Msgq!SenderPut => MsgqInv'
<1> SUFFICES ASSUME MsgqInv, Msgq!SenderPut PROVE MsgqInv'
  OBVIOUS
<1>0. Slack["msgq"] \in 0 .. 1
  BY DemosAssumption, MsgqPunctual DEF DemosAssumption, Sleepers, MsgqPunctual
<1>1. /\ q_example = 2 /\ q_example' = 2 /\ MsgqCommands
      /\ q_timer \in [{"producer", "consumer"} -> Nat] /\ q_timer["producer"] = 0
      /\ q_timer["consumer"] <= 10 + Slack["msgq"]
      /\ q_queue \in Seq(Nat) /\ Len(q_queue) <= 3 /\ q_last \in Seq(Nat)
      /\ Len(q_last) <= 1 /\ q_pending = <<>>
  BY DEF MsgqInv, Msgq!TypeOK, Msgq!SenderPut, Msgq!Capacity, Msgq!Awake
<1>2. q_waiting \in BOOLEAN /\ q_waiting' = q_waiting
  BY DEF MsgqInv, Msgq!TypeOK, Msgq!SenderPut
<1>3. q_last' \in Seq(Nat) /\ Len(q_last') <= 1
  BY <1>1, MsgqOlder DEF Msgq!SenderPut
<1>4. Len(q_queue) \in Nat
  BY <1>1
<1>5. CASE Len(q_queue) < 3
  <2>1. /\ q_queue' = Msgq!Older(q_queue) \o <<0>> /\ q_pending' = <<>>
        /\ Msgq!Sleep("producer", 4)
    BY <1>1, <1>5 DEF Msgq!SenderPut, Msgq!Capacity
  <2>2. PICK late \in 0 .. Slack["msgq"] :
          q_timer' = [q_timer EXCEPT !["producer"] = 4 + late]
    BY <2>1 DEF Msgq!Sleep
  <2>3. /\ q_timer' \in [{"producer", "consumer"} -> Nat]
        /\ q_timer'["producer"] = 4 + late
        /\ q_timer'["consumer"] = q_timer["consumer"]
    BY <1>0, <1>1, <2>2
  <2>4. MsgqBusy' = MsgqBusy /\ MsgqBusy \in Nat
    BY <1>1, <1>2, <2>3 DEF MsgqBusy
  <2>5. /\ q_queue' \in Seq(Nat) /\ Len(q_queue') = Len(q_queue) + 1
        /\ \A i \in 1 .. Len(q_queue) : q_queue'[i] = q_queue[i] + 1
        /\ q_queue'[Len(q_queue) + 1] = 0
    BY <1>1, <2>1, MsgqPutLast
  <2>6. \A i \in 1 .. Len(q_queue') :
          4 * q_queue'[i] + MsgqBusy' + 9 * (i - 1) <= 22 + q_timer'["producer"]
    <3> SUFFICES ASSUME NEW i \in 1 .. Len(q_queue')
                 PROVE  4 * q_queue'[i] + MsgqBusy' + 9 * (i - 1)
                          <= 22 + q_timer'["producer"]
      OBVIOUS
    <3>1. i \in 1 .. 3
      BY <1>4, <1>5, <2>5
    <3>2. CASE i \in 1 .. Len(q_queue)
      <4>1. 4 * q_queue[i] + MsgqBusy + 9 * (i - 1) <= 22 + 0 + 0
        <5>1. 4 * q_queue[i] + MsgqBusy + 9 * (i - 1)
                <= 22 + q_timer["producer"] + (IF q_pending = <<>> THEN 0 ELSE 2)
          BY <1>1, <3>2 DEF MsgqCommands
        <5>2. q_timer["producer"] = 0 /\ (IF q_pending = <<>> THEN 0 ELSE 2) = 0
          BY <1>1
        <5> QED BY <5>1, <5>2, Zenon
      <4>2. q_queue'[i] = q_queue[i] + 1
        BY <2>5, <3>2
      <4>3. \A a, b, d \in Nat, j \in 1 .. 3 :
              4 * a + b + 9 * (j - 1) <= 22 + 0 + 0
                => 4 * (a + 1) + b + 9 * (j - 1) <= 22 + (4 + d)
        OBVIOUS
      <4>4. PICK age \in Nat : age = q_queue[i]
        BY <1>1, <3>2
      <4>5. late \in Nat
        BY <1>0
      <4>6. 4 * (age + 1) + MsgqBusy + 9 * (i - 1) <= 22 + (4 + late)
        BY <2>4, <3>1, <4>1, <4>3, <4>4, <4>5
      <4> QED BY <2>3, <2>4, <4>2, <4>4, <4>6
    <3>3. CASE i = Len(q_queue) + 1
      <4>1. q_queue'[i] = 0
        BY <2>5, <3>3
      <4>2. MsgqBusy <= 8
        BY <1>1 DEF MsgqCommands
      <4>3. \A d \in Nat, b \in 0 .. 8, j \in 1 .. 3 :
              4 * 0 + b + 9 * (j - 1) <= 22 + (4 + d)
        OBVIOUS
      <4>4. late \in Nat /\ MsgqBusy' \in 0 .. 8
        BY <1>0, <2>4, <4>2
      <4>5. 4 * 0 + MsgqBusy' + 9 * (i - 1) <= 22 + (4 + late)
        BY <3>1, <4>3, <4>4
      <4> QED BY <2>3, <4>1, <4>5
    <3> QED BY <1>4, <2>5, <3>2, <3>3
  <2>7. q_queue' # <<>>
    BY <1>4, <2>5
  <2>8. MsgqCommands'
    <3>1. MsgqBusy' <= 8 /\ q_timer'["producer"] <= 5
      BY <1>0, <1>1, <2>3, <2>4 DEF MsgqCommands
    <3>2. (IF q_pending' = <<>> THEN 0 ELSE 2) = 0
      BY <2>1
    <3>3. \A i \in 1 .. Len(q_queue') :
            4 * q_queue'[i] + MsgqBusy' + 9 * (i - 1)
              <= 22 + q_timer'["producer"] + (IF q_pending' = <<>> THEN 0 ELSE 2)
      <4>1. 22 + q_timer'["producer"] + 0 = 22 + q_timer'["producer"]
        BY <2>3
      <4> QED BY <2>6, <3>2, <4>1, Zenon
    <3> QED BY <2>1, <2>7, <3>1, <3>3 DEF MsgqCommands
  <2>9. Msgq!TypeOK'
    BY <1>0, <1>1, <1>2, <1>3, <1>4, <1>5, <2>1, <2>3, <2>5
    DEF MsgqInv, Msgq!TypeOK, Msgq!Capacity
  <2> QED BY <1>1, <2>3, <2>8, <2>9 DEF MsgqInv
<1>6. CASE ~(Len(q_queue) < 3)
  <2>1. /\ q_queue' = Msgq!Older(q_queue) /\ q_pending' = <<0>>
        /\ Msgq!Sleep("producer", 2)
    BY <1>1, <1>6 DEF Msgq!SenderPut, Msgq!Capacity
  <2>2. PICK late \in 0 .. Slack["msgq"] :
          q_timer' = [q_timer EXCEPT !["producer"] = 2 + late]
    BY <2>1 DEF Msgq!Sleep
  <2>3. /\ q_timer' \in [{"producer", "consumer"} -> Nat]
        /\ q_timer'["producer"] = 2 + late
        /\ q_timer'["consumer"] = q_timer["consumer"]
    BY <1>0, <1>1, <2>2
  <2>4. MsgqBusy' = MsgqBusy /\ MsgqBusy \in Nat
    BY <1>1, <1>2, <2>3 DEF MsgqBusy
  <2>10. Len(q_queue) = 3
    <3>1. \A n \in Nat : n <= 3 /\ ~(n < 3) => n = 3
      OBVIOUS
    <3>2. Len(q_queue) <= 3
      BY <1>1
    <3> QED BY <1>4, <1>6, <3>1, <3>2
  <2>5. /\ q_queue' \in Seq(Nat) /\ Len(q_queue') = 3 /\ Len(q_queue) = 3
        /\ \A i \in 1 .. 3 : q_queue'[i] = q_queue[i] + 1
    BY <1>1, <2>1, <2>10, MsgqOlder
  <2>6. /\ q_pending' # <<>> /\ q_pending' \in Seq(Nat) /\ Len(q_pending') = 1
        /\ q_queue' # <<>>
    BY <2>1, <2>5
  <2>7. \A i \in 1 .. 3 :
          4 * q_queue'[i] + MsgqBusy' + 9 * (i - 1) <= 24 + q_timer'["producer"]
    <3> SUFFICES ASSUME NEW i \in 1 .. 3
                 PROVE  4 * q_queue'[i] + MsgqBusy' + 9 * (i - 1)
                          <= 24 + q_timer'["producer"]
      OBVIOUS
    <3>1. q_queue[i] \in Nat
      <4>1. q_queue \in [1 .. 3 -> Nat]
        BY <1>1, <2>10, LenProperties
      <4> QED BY <4>1
    <3>2. 4 * q_queue[i] + MsgqBusy + 9 * (i - 1) <= 22
      BY SMTT(30), <1>1, <2>10 DEF MsgqCommands
    <3>3. q_queue'[i] = q_queue[i] + 1
      BY <2>5
    <3>4. \A a, b, d \in Nat, j \in 1 .. 3 :
            4 * a + b + 9 * (j - 1) <= 22 => 4 * (a + 1) + b + 9 * (j - 1) <= 24 + (2 + d)
      OBVIOUS
    <3>5. PICK age \in Nat : age = q_queue[i]
      BY <3>1
    <3>6. late \in Nat /\ 4 * age + MsgqBusy + 9 * (i - 1) <= 22
      BY <1>0, <3>2, <3>5
    <3>7. 4 * (age + 1) + MsgqBusy + 9 * (i - 1) <= 24 + (2 + late)
      BY <2>4, <3>4, <3>6
    <3> QED BY <2>3, <2>4, <3>3, <3>5, <3>7
  <2>8. MsgqCommands'
    <3>1. MsgqBusy' <= 8 /\ q_timer'["producer"] <= 3
      BY <1>0, <1>1, <2>3, <2>4 DEF MsgqCommands
    <3>2. \A i \in 1 .. Len(q_queue') :
            4 * q_queue'[i] + MsgqBusy' + 9 * (i - 1)
              <= 22 + q_timer'["producer"] + (IF q_pending' = <<>> THEN 0 ELSE 2)
      <4>1. (IF q_pending' = <<>> THEN 0 ELSE 2) = 2
        BY <2>6
      <4>2. 22 + q_timer'["producer"] + 2 = 24 + q_timer'["producer"]
        BY <2>3
      <4>3. Len(q_queue') = 3
        BY <2>5
      <4> QED BY <2>7, <4>1, <4>2, <4>3, Zenon
    <3>3. q_timer'["producer"] <= 5
      BY <2>3, <3>1
    <3>4. q_queue' # <<>> /\ Len(q_queue') = 3 /\ q_pending' = <<0>>
      BY <2>1, <2>5, <2>6
    <3> QED BY <3>1, <3>2, <3>3, <3>4, Zenon DEF MsgqCommands
  <2>9. Msgq!TypeOK'
    <3>1. /\ q_timer'["consumer"] \in 0 .. 10 + Slack["msgq"]
          /\ q_timer'["producer"] \in 0 .. 10 + Slack["msgq"]
      BY <1>0, <1>1, <2>3
    <3>2. Msgq!Capacity' = 3
      BY <1>1 DEF Msgq!Capacity
    <3> QED BY <1>1, <1>2, <1>3, <2>5, <2>6, <3>1, <3>2 DEF Msgq!TypeOK
  <2> QED BY <1>1, <2>3, <2>8, <2>9 DEF MsgqInv
<1> QED BY <1>5, <1>6

LEMMA MsgqPutTimeout == ASSUME MsgqPunctual PROVE MsgqInv /\ Msgq!PutTimeout => MsgqInv'
<1> SUFFICES ASSUME MsgqInv, Msgq!PutTimeout PROVE MsgqInv'
  OBVIOUS
<1>0. Slack["msgq"] \in 0 .. 1
  BY DemosAssumption, MsgqPunctual DEF DemosAssumption, Sleepers, MsgqPunctual
<1>1. /\ q_pending # <<>> /\ q_example = 2 /\ q_example' = 2 /\ MsgqCommands
      /\ q_timer \in [{"producer", "consumer"} -> Nat] /\ q_timer["producer"] = 0
      /\ q_queue \in Seq(Nat) /\ q_queue' = q_queue /\ q_last' = q_last
  BY DEF MsgqInv, MsgqReadings, Msgq!TypeOK, Msgq!PutTimeout, Msgq!Awake
<1>2. q_waiting \in BOOLEAN /\ q_waiting' = q_waiting
  BY DEF MsgqInv, Msgq!TypeOK, Msgq!PutTimeout
<1>3. /\ q_pending' = <<>> /\ q_pending' \in Seq(Nat) /\ Len(q_pending') = 0
      /\ Msgq!Sleep("producer", 4)
  BY DEF Msgq!PutTimeout
<1>4. PICK late \in 0 .. Slack["msgq"] :
        q_timer' = [q_timer EXCEPT !["producer"] = 4 + late]
  BY <1>3 DEF Msgq!Sleep
<1>5. /\ q_timer' \in [{"producer", "consumer"} -> Nat]
      /\ q_timer'["producer"] = 4 + late
      /\ q_timer'["consumer"] = q_timer["consumer"]
  BY <1>0, <1>1, <1>4
<1>6. MsgqBusy' = MsgqBusy /\ MsgqBusy \in Nat
  BY <1>1, <1>2, <1>5 DEF MsgqBusy
<1>7. Len(q_queue) = 3 /\ q_queue # <<>>
  BY <1>1 DEF MsgqCommands
<1>8. ASSUME NEW i \in 1 .. Len(q_queue)
      PROVE  4 * q_queue[i] + MsgqBusy + 9 * (i - 1) <= 24
  BY <1>1 DEF MsgqCommands
<1>9. \A i \in 1 .. Len(q_queue) : q_queue[i] \in Nat
  BY <1>1
<1>10. MsgqCommands'
  <2>1. MsgqBusy' <= 8 /\ q_timer'["producer"] <= 5
    BY <1>0, <1>1, <1>5, <1>6 DEF MsgqCommands
  <2>2. ASSUME NEW i \in 1 .. Len(q_queue)
        PROVE  4 * q_queue[i] + MsgqBusy' + 9 * (i - 1) <= 22 + q_timer'["producer"]
    <3>1. q_queue[i] \in Nat /\ i \in 1 .. 3 
      BY <1>7, <1>9
    <3>2. 4 * q_queue[i] + MsgqBusy + 9 * (i - 1) <= 24
      BY <1>8
    <3> QED BY <1>0, <1>5, <1>6, <3>1, <3>2
  <2>3. \A i \in 1 .. Len(q_queue') :
          4 * q_queue'[i] + MsgqBusy' + 9 * (i - 1)
            <= 22 + q_timer'["producer"] + (IF q_pending' = <<>> THEN 0 ELSE 2)
    <3>1. \A i \in 1 .. Len(q_queue) :
            4 * q_queue[i] + MsgqBusy' + 9 * (i - 1) <= 22 + q_timer'["producer"] + 0
      BY <1>0, <1>5, <2>2
    <3> QED BY <1>1, <1>3, <3>1
  <2> QED BY <1>1, <1>3, <1>7, <2>1, <2>3 DEF MsgqCommands
<1>11. Msgq!TypeOK'
  BY <1>0, <1>1, <1>2, <1>3, <1>5 DEF MsgqInv, Msgq!TypeOK, Msgq!Capacity
<1> QED BY <1>1, <1>5, <1>10, <1>11 DEF MsgqInv

LEMMA MsgqGet == ASSUME MsgqPunctual PROVE MsgqInv /\ Msgq!Get => MsgqInv'
<1> SUFFICES ASSUME MsgqInv, Msgq!Get PROVE MsgqInv'
  OBVIOUS
<1>0. Slack["msgq"] \in 0 .. 1
  BY DemosAssumption, MsgqPunctual DEF DemosAssumption, Sleepers, MsgqPunctual
<1>1. /\ q_example \in {1, 2} /\ q_example' = q_example
      /\ q_timer \in [{"producer", "consumer"} -> Nat]
      /\ q_timer["producer"] <= 10 + Slack["msgq"]
      /\ q_queue \in Seq(Nat) /\ Len(q_queue) <= Msgq!Capacity /\ q_queue # <<>>
      /\ q_pending \in Seq(Nat) /\ Len(q_pending) <= 1
      /\ q_waiting \/ q_timer["consumer"] = 0
  BY DEF MsgqInv, Msgq!TypeOK, Msgq!Get, Msgq!CanGet, Msgq!Awake
<1>2. ~q_waiting' /\ q_waiting' \in BOOLEAN /\ MsgqBusy = 0
  BY <1>1 DEF MsgqBusy, Msgq!Get
<1>3. /\ q_pending' = <<>> /\ q_pending' \in Seq(Nat) /\ Len(q_pending') = 0
      /\ q_queue' = Tail(q_queue) \o q_pending /\ q_last' = <<Head(q_queue)>>
  BY DEF Msgq!Get
<1>4. PICK late \in 0 .. Slack["msgq"] : q_timer' =
        [consumer |-> late + (IF q_example = 1 THEN 4 ELSE 7),
         producer |-> IF q_pending = <<>> THEN q_timer["producer"] ELSE 4]
  BY DEF Msgq!Get
<1>5. /\ q_timer' \in [{"producer", "consumer"} -> Nat]
      /\ q_timer'["consumer"] = late + (IF q_example = 1 THEN 4 ELSE 7)
      /\ q_timer'["producer"] = IF q_pending = <<>> THEN q_timer["producer"] ELSE 4
  BY <1>0, <1>1, <1>4
<1>6. MsgqBusy' = late + (IF q_example = 1 THEN 4 ELSE 7)
  BY <1>2, <1>5 DEF MsgqBusy
<1>7. Len(q_queue) \in Nat \ {0} /\ Len(q_pending) \in Nat
  BY <1>1, EmptySeq, LenProperties
<1>8. /\ Tail(q_queue) \in Seq(Nat) /\ Len(Tail(q_queue)) = Len(q_queue) - 1
      /\ \A i \in 1 .. Len(q_queue) - 1 : Tail(q_queue)[i] = q_queue[i + 1]
      /\ Head(q_queue) \in Nat
  BY <1>1, HeadTailProperties
<1>9. /\ q_queue' \in Seq(Nat) /\ Len(q_queue') = Len(q_queue) - 1 + Len(q_pending)
      /\ \A i \in 1 .. Len(q_queue) - 1 : q_queue'[i] = q_queue[i + 1]
      /\ \A i \in 1 .. Len(q_pending) : q_queue'[Len(q_queue) - 1 + i] = q_pending[i]
  <2> DEFINE rest == Tail(q_queue)
  <2>1. /\ rest \in Seq(Nat) /\ Len(rest) = Len(q_queue) - 1
        /\ \A i \in 1 .. Len(q_queue) - 1 : rest[i] = q_queue[i + 1]
    BY <1>8
  <2> HIDE DEF rest
  <2>2. /\ rest \o q_pending \in Seq(Nat)
        /\ Len(rest \o q_pending) = Len(rest) + Len(q_pending)
        /\ \A i \in 1 .. Len(rest) + Len(q_pending) : (rest \o q_pending)[i] =
             IF i <= Len(rest) THEN rest[i] ELSE q_pending[i - Len(rest)]
    BY <1>1, <2>1, ConcatProperties
  <2>3. q_queue' = rest \o q_pending
    BY <1>3 DEF rest
  <2>4. /\ q_queue' \in Seq(Nat) /\ Len(q_queue') = Len(q_queue) - 1 + Len(q_pending)
        /\ \A i \in 1 .. Len(q_queue) - 1 + Len(q_pending) : q_queue'[i] =
             IF i <= Len(q_queue) - 1 THEN rest[i] ELSE q_pending[i - (Len(q_queue) - 1)]
    BY <2>1, <2>2, <2>3
  <2>5. ASSUME NEW i \in 1 .. Len(q_queue) - 1
        PROVE  q_queue'[i] = q_queue[i + 1]
    <3>1. i \in 1 .. Len(q_queue) - 1 + Len(q_pending) /\ i <= Len(q_queue) - 1
      BY <1>7
    <3> QED BY <2>1, <2>4, <3>1
  <2>6. ASSUME NEW i \in 1 .. Len(q_pending)
        PROVE  q_queue'[Len(q_queue) - 1 + i] = q_pending[i]
    <3>1. /\ Len(q_queue) - 1 + i \in 1 .. Len(q_queue) - 1 + Len(q_pending)
          /\ ~(Len(q_queue) - 1 + i <= Len(q_queue) - 1)
          /\ (Len(q_queue) - 1 + i) - (Len(q_queue) - 1) = i
      BY <1>7
    <3> QED BY <2>4, <3>1
  <2> QED BY <2>4, <2>5, <2>6
<1>10. q_last' \in Seq(Nat) /\ Len(q_last') = 1
  BY <1>3, <1>8
<1>11. Len(q_queue') <= Msgq!Capacity'
  BY <1>1, <1>7, <1>9 DEF Msgq!Capacity
<1>12. Msgq!TypeOK'
  <2>1. /\ q_timer'["consumer"] \in 0 .. 10 + Slack["msgq"]
        /\ q_timer'["producer"] \in 0 .. 10 + Slack["msgq"]
    <3>1. q_timer["producer"] \in Nat
      BY <1>1
    <3>2. \A l, m \in 0 .. 1 : l <= m => /\ l + 4 \in 0 .. 10 + m
                                        /\ l + 7 \in 0 .. 10 + m /\ 4 \in 0 .. 10 + m
      OBVIOUS
    <3>3. late \in 0 .. 1 /\ late <= Slack["msgq"]
      BY <1>0
    <3>4. q_timer["producer"] \in 0 .. 10 + Slack["msgq"]
      BY <1>0, <1>1, <3>1
    <3> QED BY <1>0, <1>5, <3>2, <3>3, <3>4
  <2> QED
    BY <1>1, <1>2, <1>3, <1>9, <1>10, <1>11, <2>1 DEF MsgqInv, Msgq!TypeOK
<1>13. CASE q_example = 1
  <2>1. MsgqReadings
    BY <1>13 DEF MsgqInv
  <2>2. q_pending = <<>> /\ Len(q_pending) = 0 /\ q_timer["producer"] <= 4
    BY <2>1 DEF MsgqReadings
  <2>3. ASSUME NEW i \in 1 .. Len(q_queue')
        PROVE  3 * q_queue'[i] + MsgqBusy' + 5 * (i - 1) <= 22 + q_timer'["producer"]
    <3>1. i \in 1 .. Len(q_queue) - 1 /\ i + 1 \in 1 .. Len(q_queue)
      BY <1>7, <1>9, <2>2
    <3>2. PICK age \in Nat : age = q_queue[i + 1]
      BY <1>1, <3>1
    <3>3. q_queue'[i] = age
      BY <1>9, <3>1, <3>2
    <3>4. 3 * age + 0 + 5 * ((i + 1) - 1) <= 22 + q_timer["producer"]
      BY <1>2, <2>1, <3>1, <3>2 DEF MsgqReadings
    <3>5. MsgqBusy' \in 4 .. 5 /\ q_timer'["producer"] = q_timer["producer"]
      BY <1>0, <1>5, <1>6, <1>13, <2>2
    <3>6. \A n, a, j \in Nat, b \in 4 .. 5 :
            3 * a + 0 + 5 * ((j + 1) - 1) <= 22 + n => 3 * a + b + 5 * (j - 1) <= 22 + n
      OBVIOUS
    <3>7. i \in Nat /\ q_timer["producer"] \in Nat
      BY <1>1
    <3>8. 3 * age + MsgqBusy' + 5 * (i - 1) <= 22 + q_timer["producer"]
      BY <3>4, <3>5, <3>6, <3>7
    <3> QED BY <3>3, <3>5, <3>8
  <2>4. MsgqReadings'
    BY <1>0, <1>2, <1>3, <1>5, <1>6, <1>13, <2>2, <2>3 DEF MsgqReadings
  <2> QED BY <1>1, <1>5, <1>12, <1>13, <2>4 DEF MsgqInv
<1>14. CASE q_example = 2
  <2>1. MsgqCommands
    BY <1>14 DEF MsgqInv
  <2>2. q_timer'["producer"] <= 5 /\ MsgqBusy' \in 7 .. 8
    BY SMTT(30), <1>0, <1>1, <1>5, <1>6, <1>14, <2>1 DEF MsgqCommands
  <2>3. ASSUME NEW i \in 1 .. Len(q_queue')
        PROVE  4 * q_queue'[i] + MsgqBusy' + 9 * (i - 1) <= 22 + q_timer'["producer"]
    <3>1. CASE i \in 1 .. Len(q_queue) - 1
      <4>1. i + 1 \in 1 .. Len(q_queue) /\ i \in Nat
        BY <1>7, <3>1
      <4>2. PICK age \in Nat : age = q_queue[i + 1]
        BY <1>1, <4>1
      <4>5. q_queue'[i] = age
        BY <1>9, <3>1, <4>2
      <4>6. 4 * age + 0 + 9 * ((i + 1) - 1)
              <= 22 + q_timer["producer"] + (IF q_pending = <<>> THEN 0 ELSE 2)
        BY <1>2, <2>1, <4>1, <4>2 DEF MsgqCommands
      <4>3. CASE q_pending = <<>>
        <5>1. q_timer'["producer"] = q_timer["producer"]
          BY <1>5, <4>3
        <5>2. 4 * age + 0 + 9 * ((i + 1) - 1) <= 22 + q_timer["producer"] + 0
          BY <4>3, <4>6
        <5>3. q_timer["producer"] \in Nat
          BY <1>1
        <5> QED BY SMTT(30), <2>2, <4>1, <4>5, <5>1, <5>2, <5>3
      <4>4. CASE q_pending # <<>>
        <5>1. q_timer["producer"] <= 3 /\ q_timer'["producer"] = 4
          BY <1>5, <2>1, <4>4 DEF MsgqCommands
        <5>2. 4 * age + 0 + 9 * ((i + 1) - 1) <= 22 + q_timer["producer"] + 2
          BY <4>4, <4>6
        <5>3. \A a, j, n \in Nat, b \in 7 .. 8 :
                n <= 3 /\ 4 * a + 0 + 9 * ((j + 1) - 1) <= 22 + n + 2
                  => 4 * a + b + 9 * (j - 1) <= 22 + 4
          OBVIOUS
        <5>4. 4 * age + MsgqBusy' + 9 * (i - 1) <= 22 + 4
          BY <1>1, <2>2, <4>1, <5>1, <5>2, <5>3
        <5> QED BY <4>5, <5>1, <5>4
      <4> QED BY <4>3, <4>4
    <3>2. CASE i \notin 1 .. Len(q_queue) - 1
      <4>1. q_pending # <<>>
        BY <1>7, <1>9, <3>2
      <4>2. q_pending = <<0>> /\ Len(q_queue) = 3 /\ q_timer'["producer"] = 4
        BY <1>5, <2>1, <4>1 DEF MsgqCommands
      <4>4. Len(q_pending) = 1 /\ q_pending[1] = 0
        BY <4>2
      <4>5. i = 3
        BY <1>9, <3>2, <4>2, <4>4
      <4>3. q_queue'[i] = 0
        <5>1. 1 \in 1 .. Len(q_pending) /\ Len(q_queue) - 1 + 1 = 3
          BY <4>2, <4>4
        <5> QED BY <1>9, <4>4, <4>5, <5>1
      <4>6. \A b \in 7 .. 8 : 4 * 0 + b + 9 * (3 - 1) <= 22 + 4
        OBVIOUS
      <4> QED BY <2>2, <4>2, <4>3, <4>5, <4>6
    <3> QED BY <3>1, <3>2
  <2>4. MsgqCommands'
    <3>1. \A i \in 1 .. Len(q_queue') :
            4 * q_queue'[i] + MsgqBusy' + 9 * (i - 1)
              <= 22 + q_timer'["producer"] + (IF q_pending' = <<>> THEN 0 ELSE 2)
      <4>1. \A i \in 1 .. Len(q_queue') :
              4 * q_queue'[i] + MsgqBusy' + 9 * (i - 1) <= 22 + q_timer'["producer"] + 0
        <5>1. 22 + q_timer'["producer"] + 0 = 22 + q_timer'["producer"]
          BY <1>5
        <5> QED BY <2>3, <5>1
      <4>2. (IF q_pending' = <<>> THEN 0 ELSE 2) = 0
        BY <1>3
      <4> QED BY <4>1, <4>2
    <3>2. ~q_waiting' /\ q_pending' = <<>>
      BY <1>2, <1>3
    <3>3. MsgqBusy' <= 8 /\ q_timer'["producer"] <= 5
      BY <2>2
    <3> QED BY <3>1, <3>2, <3>3 DEF MsgqCommands
  <2> QED BY <1>1, <1>5, <1>12, <1>14, <2>4 DEF MsgqInv
<1> QED BY <1>1, <1>13, <1>14

LEMMA MsgqWait == ASSUME MsgqPunctual PROVE MsgqInv /\ Msgq!WaitForMessage => MsgqInv'
<1> SUFFICES ASSUME MsgqInv, Msgq!WaitForMessage PROVE MsgqInv'
  OBVIOUS
<1>0. Slack["msgq"] \in 0 .. 1
  BY DemosAssumption, MsgqPunctual DEF DemosAssumption, Sleepers, MsgqPunctual
<1>1. /\ q_example \in {1, 2} /\ q_example' = q_example
      /\ q_timer \in [{"producer", "consumer"} -> Nat] /\ q_timer["consumer"] = 0
      /\ q_queue \in Seq(Nat) /\ q_queue = <<>> /\ q_queue' = q_queue
      /\ q_pending' = q_pending /\ q_last' = q_last /\ Len(q_queue) = 0
  BY DEF MsgqInv, Msgq!TypeOK, Msgq!WaitForMessage, Msgq!Awake
<1>2. ~q_waiting /\ q_waiting' /\ q_waiting' \in BOOLEAN
  BY DEF Msgq!WaitForMessage
<1>3. MsgqBusy' = 0
  BY <1>2 DEF MsgqBusy
<1>4. CASE q_example = 1
  <2>1. q_timer' = q_timer
    BY <1>4 DEF Msgq!WaitForMessage
  <2>2. MsgqReadings'
    BY <1>1, <1>3, <1>4, <2>1 DEF MsgqInv, MsgqReadings
  <2>3. Msgq!TypeOK'
    BY <1>1, <1>2, <2>1 DEF MsgqInv, Msgq!TypeOK, Msgq!Capacity
  <2> QED BY <1>1, <1>4, <2>1, <2>2, <2>3 DEF MsgqInv
<1>5. CASE q_example = 2
  <2>1. PICK late \in 0 .. Slack["msgq"] :
          q_timer' = [q_timer EXCEPT !["consumer"] = 10 + late]
    BY <1>5 DEF Msgq!WaitForMessage, Msgq!Sleep
  <2>2. /\ q_timer' \in [{"producer", "consumer"} -> Nat]
        /\ q_timer'["consumer"] = 10 + late
        /\ q_timer'["producer"] = q_timer["producer"]
    BY <1>0, <1>1, <2>1
  <2>3. MsgqCommands
    BY <1>5 DEF MsgqInv
  <2>4. q_pending = <<>>
    BY <1>1, <2>3 DEF MsgqCommands
  <2>5. q_timer'["producer"] < q_timer'["consumer"]
    BY <1>0, <1>1, <2>2, <2>3 DEF MsgqCommands
  <2>6. MsgqCommands'
    BY <1>1, <1>3, <2>2, <2>3, <2>4, <2>5 DEF MsgqCommands
  <2>7. Msgq!TypeOK'
    BY <1>0, <1>1, <1>2, <2>2 DEF MsgqInv, Msgq!TypeOK, Msgq!Capacity
  <2> QED BY <1>1, <1>5, <2>2, <2>6, <2>7 DEF MsgqInv
<1> QED BY <1>1, <1>4, <1>5

LEMMA MsgqTick == ASSUME MsgqPunctual PROVE MsgqInv /\ Msgq!Tick => MsgqInv'
<1> SUFFICES ASSUME MsgqInv, Msgq!Tick PROVE MsgqInv'
  OBVIOUS
<1>0. Slack["msgq"] \in 0 .. 1
  BY DemosAssumption, MsgqPunctual DEF DemosAssumption, Sleepers, MsgqPunctual
<1>1. /\ q_example \in {1, 2} /\ q_example' = q_example
      /\ q_timer \in [{"producer", "consumer"} -> Nat]
      /\ q_queue \in Seq(Nat) /\ q_queue' = q_queue
      /\ q_pending' = q_pending /\ q_last' = q_last
      /\ q_timer["producer"] \in 0 .. 10 + Slack["msgq"]
      /\ q_timer["consumer"] \in 0 .. 10 + Slack["msgq"]
  BY DEF MsgqInv, Msgq!TypeOK, Msgq!Tick
<1>2. q_waiting \in BOOLEAN /\ q_waiting' = q_waiting
  BY DEF MsgqInv, Msgq!TypeOK, Msgq!Tick
<1>3. /\ q_timer["producer"] > 0
      /\ ~q_waiting => q_timer["consumer"] > 0
      /\ q_queue # <<>> => ~q_waiting
  BY <1>1 DEF Msgq!Tick, Msgq!Awake, Msgq!CanGet
<1>4. /\ q_timer' \in [{"producer", "consumer"} -> Nat]
      /\ q_timer'["producer"] = q_timer["producer"] - 1
      /\ q_timer'["consumer"] =
           IF q_timer["consumer"] > 0 THEN q_timer["consumer"] - 1 ELSE 0
  <2>1. q_timer' = [t \in {"producer", "consumer"} |->
                      IF q_timer[t] > 0 THEN q_timer[t] - 1 ELSE 0]
    BY <1>1 DEF Msgq!Tick, Msgq!Pass
  <2> QED BY <1>1, <1>3, <2>1
<1>5. /\ MsgqBusy \in Nat /\ MsgqBusy' \in Nat /\ MsgqBusy' <= MsgqBusy
      /\ q_queue # <<>> => MsgqBusy' = MsgqBusy - 1
  BY <1>1, <1>2, <1>3, <1>4 DEF MsgqBusy
<1>6. ASSUME NEW i \in 1 .. Len(q_queue)
      PROVE  MsgqBusy' = MsgqBusy - 1 /\ i \in Nat /\ q_queue[i] \in Nat
  BY <1>1, <1>5
<1>7. Msgq!TypeOK'
  <2>1. /\ q_timer'["producer"] \in 0 .. 10 + Slack["msgq"]
        /\ q_timer'["consumer"] \in 0 .. 10 + Slack["msgq"]
    BY <1>0, <1>1, <1>3, <1>4
  <2> QED BY <1>1, <1>2, <2>1 DEF MsgqInv, Msgq!TypeOK, Msgq!Capacity
<1>8. CASE q_example = 1
  <2>1. MsgqReadings
    BY <1>8 DEF MsgqInv
  <2>2. ASSUME NEW i \in 1 .. Len(q_queue)
        PROVE  3 * q_queue[i] + MsgqBusy' + 5 * (i - 1) <= 22 + q_timer'["producer"]
    <3>1. 3 * q_queue[i] + MsgqBusy + 5 * (i - 1) <= 22 + q_timer["producer"]
      BY <2>1 DEF MsgqReadings
    <3>2. MsgqBusy' = MsgqBusy - 1 /\ i \in Nat /\ q_queue[i] \in Nat
      BY <1>6
    <3>3. \A a, b, j, n \in Nat :
            3 * a + b + 5 * (j - 1) <= 22 + n
              => 3 * a + (b - 1) + 5 * (j - 1) <= 22 + (n - 1)
      OBVIOUS
    <3>4. q_timer["producer"] \in Nat
      BY <1>1
    <3>5. 3 * q_queue[i] + (MsgqBusy - 1) + 5 * (i - 1) <= 22 + (q_timer["producer"] - 1)
      BY <1>5, <3>1, <3>2, <3>3, <3>4
    <3> QED BY <1>4, <3>2, <3>5
  <2>3. MsgqReadings'
    BY <1>1, <1>2, <1>4, <1>5, <2>1, <2>2 DEF MsgqReadings
  <2> QED BY <1>1, <1>4, <1>7, <1>8, <2>3 DEF MsgqInv
<1>9. CASE q_example = 2
  <2>1. MsgqCommands
    BY <1>9 DEF MsgqInv
  <2>2. PICK extra \in Nat : extra = IF q_pending = <<>> THEN 0 ELSE 2
    OBVIOUS
  <2>3. ASSUME NEW i \in 1 .. Len(q_queue)
        PROVE  4 * q_queue[i] + MsgqBusy' + 9 * (i - 1)
                 <= 22 + q_timer'["producer"] + extra
    <3>1. 4 * q_queue[i] + MsgqBusy + 9 * (i - 1) <= 22 + q_timer["producer"] + extra
      BY <2>1, <2>2 DEF MsgqCommands
    <3>2. MsgqBusy' = MsgqBusy - 1 /\ i \in Nat /\ q_queue[i] \in Nat
      BY <1>6
    <3>3. \A a, b, j, n, x \in Nat :
            4 * a + b + 9 * (j - 1) <= 22 + n + x
              => 4 * a + (b - 1) + 9 * (j - 1) <= 22 + (n - 1) + x
      OBVIOUS
    <3>4. q_timer["producer"] \in Nat
      BY <1>1
    <3>5. 4 * q_queue[i] + (MsgqBusy - 1) + 9 * (i - 1)
            <= 22 + (q_timer["producer"] - 1) + extra
      BY <1>5, <2>2, <3>1, <3>2, <3>3, <3>4
    <3> QED BY <1>4, <3>2, <3>5
  <2>4. q_waiting /\ q_queue = <<>> => q_timer'["producer"] < q_timer'["consumer"]
    BY <1>1, <1>3, <1>4, <2>1 DEF MsgqCommands
  <2>5. /\ MsgqBusy' <= 8 /\ q_timer'["producer"] <= 5
        /\ q_pending # <<>> =>
             q_pending = <<0>> /\ Len(q_queue) = 3 /\ q_timer'["producer"] <= 3
    BY <1>1, <1>4, <1>5, <2>1 DEF MsgqCommands
  <2>6. MsgqCommands'
    BY <1>1, <1>2, <2>2, <2>3, <2>4, <2>5 DEF MsgqCommands
  <2> QED BY <1>1, <1>4, <1>7, <1>9, <2>6 DEF MsgqInv
<1> QED BY <1>1, <1>8, <1>9

\* app35: no reading in the queue is older than eight periods, and the handler
\* never waits in vain, if sleepers wake at most 500 ms late.
THEOREM MsgqKeepsPace == ASSUME MsgqPunctual PROVE Spec => []MsgqPaced
<1>1. MsgqInv /\ [Next]_vars => MsgqInv'
  <2>1. MsgqInv /\ UNCHANGED msgqVars => MsgqInv'
    BY DEF msgqVars, MsgqInv, MsgqReadings, MsgqCommands, MsgqBusy, Msgq!TypeOK,
      Msgq!Capacity
  <2> QED
    BY <2>1, MsgqSensorPut, MsgqSenderPut, MsgqPutTimeout, MsgqGet, MsgqWait,
      MsgqTick, StepsApart
    DEF Msgq!Next
<1>2. MsgqInv => MsgqPaced
  <2> SUFFICES ASSUME MsgqInv PROVE MsgqPaced
    OBVIOUS
  <2>1. q_example \in {1, 2} /\ q_queue \in Seq(Nat) /\ DOMAIN q_queue = 1 .. Len(q_queue)
        /\ q_timer \in [{"producer", "consumer"} -> Nat]
        /\ MsgqBusy \in Nat
    BY DEF MsgqInv, Msgq!TypeOK, MsgqBusy
  <2>2. ASSUME NEW i \in 1 .. Len(q_queue) PROVE q_queue[i] <= 8
    <3>1. PICK age \in Nat : age = q_queue[i]
      BY <2>1
    <3>2. i \in Nat \ {0}
      BY <2>1
    <3>3. CASE q_example = 1
      <4>1. /\ q_timer["producer"] <= 4
            /\ 3 * age + MsgqBusy + 5 * (i - 1) <= 22 + q_timer["producer"]
        BY <3>1, <3>3 DEF MsgqInv, MsgqReadings
      <4>2. \A a, b, n \in Nat, j \in Nat \ {0} :
              n <= 4 /\ 3 * a + b + 5 * (j - 1) <= 22 + n => a <= 8
        OBVIOUS
      <4>3. q_timer["producer"] \in Nat
        BY <2>1
      <4>4. age <= 8
        BY <2>1, <3>2, <4>1, <4>2, <4>3
      <4> QED BY <3>1, <4>4
    <3>4. CASE q_example = 2
      <4>1. /\ q_timer["producer"] <= 5
            /\ 4 * age + MsgqBusy + 9 * (i - 1)
                 <= 22 + q_timer["producer"] + (IF q_pending = <<>> THEN 0 ELSE 2)
        BY <3>1, <3>4 DEF MsgqInv, MsgqCommands
      <4>2. PICK extra \in 0 .. 2 : extra = IF q_pending = <<>> THEN 0 ELSE 2
        OBVIOUS
      <4>3. 4 * age + MsgqBusy + 9 * (i - 1) <= 22 + q_timer["producer"] + extra
        BY <4>1, <4>2
      <4>4. \A a, b, n \in Nat, j \in Nat \ {0}, x \in 0 .. 2 :
              n <= 5 /\ 4 * a + b + 9 * (j - 1) <= 22 + n + x => a <= 8
        OBVIOUS
      <4>5. q_timer["producer"] \in Nat
        BY <2>1
      <4> QED BY <2>1, <3>1, <3>2, <4>1, <4>2, <4>3, <4>4, <4>5
    <3> QED BY <2>1, <3>3, <3>4
  <2>3. Msgq!HandlerIsServed
    BY <2>1 DEF MsgqInv, MsgqCommands, Msgq!HandlerIsServed, Msgq!Awake
  <2> QED BY <2>1, <2>2, <2>3 DEF MsgqPaced, Msgq!NotTooOld
<1> QED BY MsgqInit, <1>1, <1>2, Behaviour, PTL

-----------------------------------------------------------------------------
(* app41: the work queues. *)

\* No sleep of app41 lasts more than 0.5 s longer.
WorkPunctual == Slack["work"] <= 1

\* The n-th work that is executed, and the log with it.
Nth(n) ==
  CASE n = 3 -> "delayed" [] n = 4 -> "long" [] n = 5 -> "urgent" [] OTHER -> "normal"
Logged(n) == [i \in 1 .. n |-> Nth(i)]

\* n works have been given to the system's queue; the last may still be in it.
Given(n) ==
  \/ w_queues["system"] = <<>> /\ w_log = Logged(n)
  \/ n > 0 /\ w_queues["system"] = <<Nth(n)>> /\ w_log = Logged(n - 1)

\* The first example: main sleeps longer than all of it still takes.
WorkFirst ==
  /\ w_steps["dispatcher"] = 0 /\ w_timer["dispatcher"] = 0
  /\ w_queues["my_workq"] = <<>> /\ ~w_busy
  /\ w_steps["submitter"] = 0 => w_timer["main"] = 20 /\ w_timer["submitter"] = 0 /\ Given(0)
  /\ w_steps["submitter"] = 1 => w_timer["main"] >= w_timer["submitter"] + 15 /\ Given(1)
  /\ w_steps["submitter"] = 2 => w_timer["main"] >= w_timer["submitter"] + 10 /\ Given(2)
  /\ w_steps["submitter"] = 3 => w_timer["main"] >= w_timer["delayed_work"] + 3 /\ Given(2)
  /\ w_steps["submitter"] = 4 => Given(3)
  /\ w_queues["system"] # <<>> =>
       /\ w_timer["main"] > 0
       /\ w_steps["submitter"] = 1 => w_timer["submitter"] > 0
       /\ w_steps["submitter"] = 3 => w_timer["delayed_work"] > 0

\* The long work waits, runs, or is done; n works have been executed before it.
LongWaits == ~w_busy /\ w_log = Logged(3)
LongRuns  == w_busy /\ w_log = Logged(3) /\ w_timer["main"] >= w_timer["my_workq"] + 11
LongDone  == ~w_busy /\ w_log = Logged(4)

\* The second example: the same again.
WorkSecond ==
  /\ w_steps["submitter"] = 4 /\ w_queues["system"] = <<>>
  /\ w_steps["dispatcher"] = 0 =>
       /\ w_queues["my_workq"] = <<>> /\ LongWaits
       /\ w_timer["dispatcher"] = 0 /\ w_timer["main"] >= 16
  /\ w_steps["dispatcher"] = 1 =>
       /\ w_timer["main"] >= w_timer["dispatcher"] + 14
       /\ \/ /\ w_queues["my_workq"] = <<"long">> /\ LongWaits
             /\ w_timer["dispatcher"] > 0 /\ w_timer["main"] >= 16
          \/ w_queues["my_workq"] = <<>> /\ (LongRuns \/ LongDone)
  /\ w_steps["dispatcher"] = 2 =>
       \/ w_queues["my_workq"] = <<"urgent">> /\ LongRuns
       \/ w_queues["my_workq"] = <<"urgent">> /\ LongDone /\ w_timer["main"] > 0
       \/ w_queues["my_workq"] = <<>> /\ ~w_busy /\ w_log = Logged(5)

WorkThird ==
  /\ w_steps["submitter"] = 4 /\ w_steps["dispatcher"] = 2
  /\ w_queues["system"] = <<>> /\ w_queues["my_workq"] = <<>>
  /\ ~w_busy /\ w_log = Logged(5)

WorkInv ==
  /\ Work!TypeOK
  /\ w_steps["main"] \in 1 .. 3 /\ w_steps["dispatcher"] \in 0 .. 2
  /\ WorkPunctual =>
       /\ w_steps["main"] = 1 => WorkFirst
       /\ w_steps["main"] = 2 => WorkSecond
       /\ w_steps["main"] = 3 => WorkThird

WorkThreads == {"main", "submitter", "dispatcher", "delayed_work", "my_workq"}

LEMMA WorkTypes ==
  ASSUME WorkInv
  PROVE  /\ w_timer \in [WorkThreads -> 0 .. 20 + Slack["work"]] /\ Slack["work"] \in Nat
         /\ w_steps \in [{"main", "submitter", "dispatcher"} -> 0 .. 4]
         /\ w_steps["main"] \in 1 .. 3 /\ w_steps["dispatcher"] \in 0 .. 2
         /\ w_queues \in [{"system", "my_workq"} -> Seq(Work!Works)]
         /\ w_busy \in BOOLEAN /\ w_log \in Seq(Work!Works)
BY DemosAssumption DEF WorkInv, Work!TypeOK, WorkThreads, DemosAssumption, Sleepers

LEMMA Appends ==
  ASSUME NEW n \in Nat \ {0}
  PROVE  Append(Logged(n - 1), Nth(n)) = Logged(n)
<1>1. \A i \in 1 .. n : i \in 1 .. n - 1 \/ i = n
  OBVIOUS
<1>2. Logged(n - 1) \in Seq({Nth(i) : i \in 1 .. n}) /\ Len(Logged(n - 1)) = n - 1
  BY DEF Logged
<1>3. QED BY <1>1, <1>2 DEF Logged

\* What AllShown says has been executed.
LEMMA LoggedWorks ==
  /\ Logged(0) = <<>> /\ Nth(4) = "long" /\ Nth(5) = "urgent"
  /\ Logged(3) = <<"normal", "normal", "delayed">>
  /\ Logged(5) = <<"normal", "normal", "delayed">> \o <<"long", "urgent">>
<1> DEFINE s == <<"normal", "normal", "delayed">>
           t == <<"long", "urgent">>
<1>1. /\ s \in Seq(Work!Works) /\ Len(s) = 3 /\ s = Logged(3)
      /\ t \in Seq(Work!Works) /\ Len(t) = 2 /\ t[1] = Nth(4) /\ t[2] = Nth(5)
  BY DEF Work!Works, Logged, Nth
<1>2. \A i \in 1 .. 3 : s[i] = Nth(i)
  BY <1>1 DEF Logged
<1> HIDE DEF s, t
<1>3. /\ s \o t \in Seq(Work!Works) /\ Len(s \o t) = 5
      /\ \A i \in 1 .. 5 : (s \o t)[i] = IF i <= 3 THEN s[i] ELSE t[i - 3]
  <2>1. /\ s \o t \in Seq(Work!Works) /\ Len(s \o t) = Len(s) + Len(t)
        /\ \A i \in 1 .. Len(s) + Len(t) :
             (s \o t)[i] = IF i <= Len(s) THEN s[i] ELSE t[i - Len(s)]
    BY Zenon, <1>1, ConcatProperties
  <2>2. Len(s) + Len(t) = 5
    BY <1>1
  <2>3. QED BY Zenon, <1>1, <2>1, <2>2
<1>4. \A i \in 1 .. 5 : (s \o t)[i] = Nth(i)
  <2>1. ASSUME NEW i \in 1 .. 5 PROVE (s \o t)[i] = Nth(i)
    <3>1. i \in 1 .. 3 \/ i = 4 \/ i = 5
      OBVIOUS
    <3>2. QED BY <1>1, <1>2, <1>3, <3>1
  <2>2. QED BY <2>1
<1>5. s \o t = Logged(5)
  <2>1. \A q \in Seq(Work!Works) : Len(q) = 5 => q = [i \in 1 .. 5 |-> q[i]]
    OBVIOUS
  <2>2. s \o t = [i \in 1 .. 5 |-> (s \o t)[i]]
    BY Zenon, <1>3, <2>1
  <2>3. QED BY Zenon, <1>4, <2>2 DEF Logged
<1>6. Logged(0) = <<>> /\ Nth(4) = "long" /\ Nth(5) = "urgent"
  BY DEF Logged, Nth
<1>7. QED BY <1>1, <1>5, <1>6 DEF s, t

\* What a submission does to the two queues.
LEMMA Submits ==
  ASSUME WorkInv, NEW q \in {"system", "my_workq"}, NEW o \in {"system", "my_workq"},
         o # q, NEW w \in Work!Works, Work!Submit(q, w)
  PROVE  /\ w_queues' \in [{"system", "my_workq"} -> Seq(Work!Works)]
         /\ w_queues'[o] = w_queues[o]
         /\ w_queues[q] = <<>> => w_queues'[q] = <<w>>
<1>1. PICK r : w_queues' = [w_queues EXCEPT ![q] = r]
               /\ r = IF \E i \in DOMAIN w_queues[q] : w_queues[q][i] = w
                        THEN w_queues[q] ELSE Append(w_queues[q], w)
  BY DEF Work!Submit
<1>2. r \in Seq(Work!Works) /\ (w_queues[q] = <<>> => r = <<w>>)
  <2>1. w_queues[q] \in Seq(Work!Works) /\ Append(w_queues[q], w) \in Seq(Work!Works)
    BY WorkTypes
  <2>2. w_queues[q] = <<>> => DOMAIN w_queues[q] = {} /\ Append(w_queues[q], w) = <<w>>
    OBVIOUS
  <2>3. QED BY <1>1, <2>1, <2>2
<1>3. QED BY <1>1, <1>2, WorkTypes

\* What a sleep does to the timers.
LEMMA WorkSleeps ==
  ASSUME WorkInv, NEW t \in WorkThreads, NEW n \in 0 .. 20, Work!Sleep(t, n)
  PROVE  /\ w_timer' \in [WorkThreads -> 0 .. 20 + Slack["work"]]
         /\ w_timer'[t] >= n /\ (WorkPunctual => w_timer'[t] <= n + 1)
         /\ \A o \in WorkThreads \ {t} : w_timer'[o] = w_timer[o]
BY WorkTypes DEF Work!Sleep, WorkPunctual

\* What is in the first queue or executed stays so: for actions of the other.
LEMMA GivenSame ==
  ASSUME w_queues'["system"] = w_queues["system"], w_log' = w_log
  PROVE  \A n : Given(n)' <=> Given(n)
BY Zenon DEF Given

LEMMA WorkInit == Init => WorkInv
<1> SUFFICES ASSUME Init PROVE WorkInv
  OBVIOUS
<1>1. /\ w_timer = [main |-> 20, submitter |-> 0, dispatcher |-> 0,
                    delayed_work |-> 0, my_workq |-> 0]
      /\ w_steps = [main |-> 1, submitter |-> 0, dispatcher |-> 0]
      /\ w_queues = [system |-> <<>>, my_workq |-> <<>>]
      /\ w_busy = FALSE /\ w_log = <<>>
  BY DEF Init, Work!Init
<1>2. Work!TypeOK
  <2>1. Slack["work"] \in Nat
    BY DemosAssumption DEF DemosAssumption, Sleepers
  <2>2. w_timer \in [WorkThreads -> 0 .. 20 + Slack["work"]]
    BY <1>1, <2>1 DEF WorkThreads
  <2>3. w_steps \in [{"main", "submitter", "dispatcher"} -> 0 .. 4]
    BY <1>1
  <2>4. <<>> \in Seq(Work!Works)
    OBVIOUS
  <2>5. w_queues \in [{"system", "my_workq"} -> Seq(Work!Works)]
    <3>1. w_queues = [q \in {"system", "my_workq"} |-> <<>>]
      BY <1>1
    <3>2. QED BY Zenon, <2>4, <3>1
  <2>6. QED BY <1>1, <2>2, <2>3, <2>4, <2>5 DEF Work!TypeOK, WorkThreads
<1>3. Given(0)
  BY <1>1, LoggedWorks DEF Given
<1>4. WorkFirst
  BY <1>1, <1>3 DEF WorkFirst
<1>5. QED BY <1>1, <1>2, <1>4 DEF WorkInv

LEMMA WorkMain == WorkInv /\ Work!Main => WorkInv'
<1> SUFFICES ASSUME WorkInv, Work!Main PROVE WorkInv'
  OBVIOUS
<1>1. /\ w_timer["main"] = 0 /\ w_queues' = w_queues /\ w_busy' = w_busy /\ w_log' = w_log
  BY DEF Work!Main, Work!Awake
<1>2. CASE Work!AtStep("main", 1) /\ Work!Sleep("main", 16)
  <2>1. /\ w_steps' \in [{"main", "submitter", "dispatcher"} -> 0 .. 4]
        /\ w_steps["main"] = 1 /\ w_steps'["main"] = 2
        /\ w_steps'["dispatcher"] = w_steps["dispatcher"]
        /\ w_steps'["submitter"] = w_steps["submitter"]
    BY <1>2, WorkTypes DEF Work!AtStep
  <2>2. /\ w_timer' \in [WorkThreads -> 0 .. 20 + Slack["work"]]
        /\ w_timer'["main"] >= 16 /\ w_timer'["dispatcher"] = w_timer["dispatcher"]
    BY <1>2, WorkSleeps DEF WorkThreads
  <2>3. ASSUME WorkPunctual PROVE WorkSecond'
    <3>1. WorkFirst
      BY <2>1, <2>3 DEF WorkInv
    <3>2. w_steps["submitter"] = 4 /\ w_queues["system"] = <<>>
      BY <1>1, <3>1, WorkTypes DEF WorkFirst, WorkThreads
    <3>3. w_log = Logged(3)
      BY <3>1, <3>2 DEF WorkFirst, Given
    <3>4. QED BY <1>1, <2>1, <2>2, <3>1, <3>2, <3>3 DEF WorkFirst, WorkSecond, LongWaits
  <2>4. Work!TypeOK'
    BY <1>1, <2>1, <2>2 DEF WorkInv, Work!TypeOK, WorkThreads
  <2>5. QED BY <2>1, <2>3, <2>4, WorkTypes DEF WorkInv, WorkPunctual
<1>3. CASE Work!AtStep("main", 2) /\ w_timer' = w_timer
  <2>1. /\ w_steps' \in [{"main", "submitter", "dispatcher"} -> 0 .. 4]
        /\ w_steps["main"] = 2 /\ w_steps'["main"] = 3
        /\ w_steps'["dispatcher"] = w_steps["dispatcher"]
        /\ w_steps'["submitter"] = w_steps["submitter"]
    BY <1>3, WorkTypes DEF Work!AtStep
  <2>2. ASSUME WorkPunctual PROVE WorkThird'
    <3>1. WorkSecond
      BY <2>1, <2>2 DEF WorkInv
    <3>2. QED BY <1>1, <2>1, <3>1, WorkTypes DEF WorkSecond, WorkThird, LongWaits, LongRuns, WorkThreads
  <2>3. Work!TypeOK'
    BY <1>1, <1>3, <2>1 DEF WorkInv, Work!TypeOK
  <2>4. QED BY <2>1, <2>2, <2>3, WorkTypes DEF WorkInv, WorkPunctual
<1>4. QED BY <1>2, <1>3 DEF Work!Main

LEMMA WorkSubmitter == WorkInv /\ Work!Submitter => WorkInv'
<1> SUFFICES ASSUME WorkInv, Work!Submitter PROVE WorkInv'
  OBVIOUS
<1>1. w_timer["submitter"] = 0 /\ w_busy' = w_busy /\ w_log' = w_log
  BY DEF Work!Submitter, Work!Awake
<1>2. ASSUME NEW n \in {0, 1}, Work!AtStep("submitter", n),
             Work!Submit("system", "normal"), Work!Sleep("submitter", 4)
      PROVE  WorkInv'
  <2>1. /\ w_steps' \in [{"main", "submitter", "dispatcher"} -> 0 .. 4]
        /\ w_steps["submitter"] = n /\ w_steps'["submitter"] = n + 1
        /\ w_steps'["main"] = w_steps["main"]
        /\ w_steps'["dispatcher"] = w_steps["dispatcher"]
    BY <1>2, WorkTypes DEF Work!AtStep
  <2>2. /\ w_queues' \in [{"system", "my_workq"} -> Seq(Work!Works)]
        /\ w_queues'["my_workq"] = w_queues["my_workq"]
        /\ w_queues["system"] = <<>> => w_queues'["system"] = <<"normal">>
    BY <1>2, Submits DEF Work!Works
  <2>3. /\ w_timer' \in [WorkThreads -> 0 .. 20 + Slack["work"]]
        /\ w_timer'["submitter"] >= 4 /\ (WorkPunctual => w_timer'["submitter"] <= 5)
        /\ w_timer'["main"] = w_timer["main"] /\ w_timer'["dispatcher"] = w_timer["dispatcher"]
    BY <1>2, WorkSleeps DEF WorkThreads
  <2>4. ASSUME WorkPunctual PROVE w_steps["main"] = 1 /\ WorkFirst'
    <3>1. w_steps["main"] = 1 /\ WorkFirst
      BY <2>1, <2>4, WorkTypes DEF WorkInv, WorkSecond, WorkThird
    <3>2. w_queues["system"] = <<>> /\ w_log = Logged(n) /\ w_timer["main"] >= 15
          /\ (n = 0 => w_timer["main"] = 20)
      <4>1. CASE n = 0
        <5>1. w_timer["main"] = 20 /\ Given(0)
          BY <2>1, <3>1, <4>1 DEF WorkFirst
        <5>2. QED BY <4>1, <5>1 DEF Given
      <4>2. CASE n = 1
        <5>1. w_timer["main"] >= 0 + 15 /\ Given(1) /\ w_queues["system"] = <<>>
          BY <1>1, <2>1, <3>1, <4>2 DEF WorkFirst
        <5>2. w_log = Logged(1)
          BY <5>1 DEF Given
        <5>3. QED BY <4>2, <5>1, <5>2
      <4>3. QED BY <4>1, <4>2
    <3>3. Given(n + 1)'
      BY <1>1, <1>2, <2>2, <3>2 DEF Given, Nth
    <3>4. QED BY SMTT(30), <1>1, <1>2, <2>1, <2>2, <2>3, <2>4, <3>1, <3>2, <3>3 DEF WorkFirst, WorkThreads
  <2>5. Work!TypeOK'
    BY <1>1, <2>1, <2>2, <2>3, WorkTypes DEF Work!TypeOK, WorkThreads
  <2>6. QED BY <2>1, <2>4, <2>5, WorkTypes DEF WorkInv, WorkPunctual
<1>3. ASSUME NEW late \in 0 .. Slack["work"], Work!AtStep("submitter", 2),
             w_timer' = [w_timer EXCEPT !["delayed_work"] = 6 + late, !["submitter"] = 10],
             w_queues' = w_queues
      PROVE  WorkInv'
  <2>1. /\ w_steps' \in [{"main", "submitter", "dispatcher"} -> 0 .. 4]
        /\ w_steps["submitter"] = 2 /\ w_steps'["submitter"] = 3
        /\ w_steps'["main"] = w_steps["main"]
        /\ w_steps'["dispatcher"] = w_steps["dispatcher"]
    BY <1>3, WorkTypes DEF Work!AtStep
  <2>2. /\ w_timer' \in [WorkThreads -> 0 .. 20 + Slack["work"]]
        /\ w_timer'["delayed_work"] = 6 + late
        /\ w_timer'["main"] = w_timer["main"] /\ w_timer'["dispatcher"] = w_timer["dispatcher"]
    <3>1. 6 + late \in 0 .. 20 + Slack["work"] /\ 10 \in 0 .. 20 + Slack["work"]
      BY WorkTypes
    <3>2. w_timer \in [WorkThreads -> 0 .. 20 + Slack["work"]]
      BY WorkTypes
    <3>3. QED BY <1>3, <3>1, <3>2 DEF WorkThreads
  <2>3. ASSUME WorkPunctual PROVE w_steps["main"] = 1 /\ WorkFirst'
    <3>1. w_steps["main"] = 1 /\ WorkFirst
      BY <2>1, <2>3, WorkTypes DEF WorkInv, WorkSecond, WorkThird
    <3>2. w_timer["main"] >= 10 /\ Given(2) /\ late <= 1
      BY <1>1, <1>3, <2>1, <2>3, <3>1, WorkTypes DEF WorkFirst, WorkThreads, WorkPunctual
    <3>3. Given(2)'
      BY <1>1, <1>3, <3>2 DEF Given
    <3>4. QED BY <1>1, <1>3, <2>1, <2>2, <3>1, <3>2, <3>3 DEF WorkFirst, WorkThreads
  <2>4. Work!TypeOK'
    BY <1>1, <1>3, <2>1, <2>2, WorkTypes DEF Work!TypeOK, WorkThreads
  <2>5. QED BY <2>1, <2>3, <2>4, WorkTypes DEF WorkInv, WorkPunctual
<1>4. QED BY <1>2, <1>3 DEF Work!Submitter

LEMMA WorkDelayOver == WorkInv /\ Work!DelayOver => WorkInv'
<1> SUFFICES ASSUME WorkInv, Work!DelayOver PROVE WorkInv'
  OBVIOUS
<1>1. /\ w_timer["delayed_work"] = 0 /\ w_timer' = w_timer /\ w_busy' = w_busy
      /\ w_log' = w_log /\ Work!AtStep("submitter", 3) /\ Work!Submit("system", "delayed")
  BY DEF Work!DelayOver, Work!Awake
<1>2. /\ w_steps' \in [{"main", "submitter", "dispatcher"} -> 0 .. 4]
      /\ w_steps["submitter"] = 3 /\ w_steps'["submitter"] = 4
      /\ w_steps'["main"] = w_steps["main"] /\ w_steps'["dispatcher"] = w_steps["dispatcher"]
  BY <1>1, WorkTypes DEF Work!AtStep
<1>3. /\ w_queues' \in [{"system", "my_workq"} -> Seq(Work!Works)]
      /\ w_queues'["my_workq"] = w_queues["my_workq"]
      /\ w_queues["system"] = <<>> => w_queues'["system"] = <<"delayed">>
  BY <1>1, Submits DEF Work!Works
<1>4. ASSUME WorkPunctual PROVE w_steps["main"] = 1 /\ WorkFirst'
  <2>1. w_steps["main"] = 1 /\ WorkFirst
    BY <1>2, <1>4, WorkTypes DEF WorkInv, WorkSecond, WorkThird
  <2>2. w_queues["system"] = <<>> /\ w_log = Logged(2) /\ w_timer["main"] > 0
    <3>1. w_queues["system"] = <<>>
      BY <1>1, <1>2, <2>1 DEF WorkFirst
    <3>2. Given(2) /\ w_timer["main"] >= 0 + 3
      BY <1>1, <1>2, <2>1 DEF WorkFirst
    <3>3. w_log = Logged(2)
      BY <3>1, <3>2 DEF Given
    <3>4. w_timer["main"] > 0
      BY <3>2, WorkTypes DEF WorkThreads
    <3>5. QED BY <3>1, <3>3, <3>4
  <2>3. Given(3)'
    BY <1>1, <1>3, <2>2 DEF Given, Nth
  <2>4. QED BY <1>1, <1>2, <1>3, <2>1, <2>2, <2>3 DEF WorkFirst
<1>5. Work!TypeOK'
  BY <1>1, <1>2, <1>3, WorkTypes DEF Work!TypeOK, WorkThreads
<1>6. QED BY <1>2, <1>4, <1>5, WorkTypes DEF WorkInv, WorkPunctual
LEMMA WorkDispatcher == WorkInv /\ Work!Dispatcher => WorkInv'
<1> SUFFICES ASSUME WorkInv, Work!Dispatcher PROVE WorkInv'
  OBVIOUS
<1>1. /\ w_timer["dispatcher"] = 0 /\ w_steps["main"] > 1 /\ w_busy' = w_busy /\ w_log' = w_log
  BY DEF Work!Dispatcher, Work!Awake
<1>2. ASSUME NEW n \in {0, 1}, NEW w \in {"long", "urgent"}, NEW s \in {1, 10},
             n = 0 => w = "long" /\ s = 1, n = 1 => w = "urgent",
             Work!AtStep("dispatcher", n), Work!Submit("my_workq", w),
             Work!Sleep("dispatcher", s)
      PROVE  WorkInv'
  <2>1. /\ w_steps' \in [{"main", "submitter", "dispatcher"} -> 0 .. 4]
        /\ w_steps["dispatcher"] = n /\ w_steps'["dispatcher"] = n + 1
        /\ w_steps'["main"] = w_steps["main"]
        /\ w_steps'["submitter"] = w_steps["submitter"]
    BY <1>2, WorkTypes DEF Work!AtStep
  <2>2. /\ w_queues' \in [{"system", "my_workq"} -> Seq(Work!Works)]
        /\ w_queues'["system"] = w_queues["system"]
        /\ w_queues["my_workq"] = <<>> => w_queues'["my_workq"] = <<w>>
    BY <1>2, Submits DEF Work!Works
  <2>3. /\ w_timer' \in [WorkThreads -> 0 .. 20 + Slack["work"]]
        /\ w_timer'["dispatcher"] >= s /\ (WorkPunctual => w_timer'["dispatcher"] <= s + 1)
        /\ w_timer'["main"] = w_timer["main"] /\ w_timer'["my_workq"] = w_timer["my_workq"]
    <3>1. s \in 0 .. 20
      OBVIOUS
    <3>2. QED BY <1>2, <3>1, WorkSleeps DEF WorkThreads
  <2>4. ASSUME WorkPunctual PROVE w_steps["main"] = 2 /\ WorkSecond'
    <3>1. w_steps["main"] = 2 /\ WorkSecond
      BY <1>1, <1>2, <2>1, <2>4, WorkTypes DEF WorkInv, WorkThird
    <3>2. CASE n = 0
      <4>1. /\ w_queues["my_workq"] = <<>> /\ LongWaits /\ w_timer["main"] >= 16
            /\ w_queues'["my_workq"] = <<"long">> /\ w_steps'["dispatcher"] = 1
            /\ w_timer'["dispatcher"] > 0 /\ w_timer'["dispatcher"] <= 2
        BY <1>2, <2>1, <2>2, <2>3, <2>4, <3>1, <3>2, WorkTypes DEF WorkSecond, WorkThreads
      <4>2. w_timer'["main"] >= w_timer'["dispatcher"] + 14
        BY <2>3, <4>1, WorkTypes DEF WorkThreads
      <4>3. QED BY <1>1, <2>1, <2>2, <2>3, <3>1, <4>1, <4>2 DEF WorkSecond, LongWaits
    <3>3. CASE n = 1
      <4>1. /\ w_queues["my_workq"] = <<>> /\ (LongRuns \/ LongDone) /\ w_timer["main"] >= 0 + 14
        BY <1>1, <2>1, <3>1, <3>3 DEF WorkSecond
      <4>2. /\ w_queues'["my_workq"] = <<"urgent">> /\ w_steps'["dispatcher"] = 2
            /\ w_timer["main"] > 0
        BY <1>2, <2>1, <2>2, <3>3, <4>1, WorkTypes DEF WorkThreads
      <4>3. (LongRuns \/ LongDone)'
        BY <1>1, <2>3, <4>1 DEF LongRuns, LongDone
      <4>4. QED BY <2>1, <2>2, <2>3, <3>1, <4>2, <4>3 DEF WorkSecond
    <3>4. QED BY <3>2, <3>3
  <2>5. Work!TypeOK'
    BY <1>1, <2>1, <2>2, <2>3, WorkTypes DEF Work!TypeOK, WorkThreads
  <2>6. w_steps'["main"] \in 1 .. 3 /\ w_steps'["dispatcher"] \in 0 .. 2
    BY <2>1, WorkTypes
  <2>7. QED BY <2>1, <2>4, <2>5, <2>6 DEF WorkInv, WorkPunctual
<1>3. QED BY <1>2 DEF Work!Dispatcher

LEMMA WorkSystem == WorkInv /\ Work!SystemWork => WorkInv'
<1> SUFFICES ASSUME WorkInv, Work!SystemWork PROVE WorkInv'
  OBVIOUS
<1>1. /\ w_queues["system"] # <<>>
      /\ w_queues' = [w_queues EXCEPT !["system"] = Tail(w_queues["system"])]
      /\ w_log' = Append(w_log, Head(w_queues["system"]))
      /\ w_timer' = w_timer /\ w_steps' = w_steps /\ w_busy' = w_busy
  BY DEF Work!SystemWork
<1>2. /\ Tail(w_queues["system"]) \in Seq(Work!Works) /\ w_log' \in Seq(Work!Works)
  <2>1. w_queues["system"] \in Seq(Work!Works)
    BY WorkTypes
  <2>2. Tail(w_queues["system"]) \in Seq(Work!Works) /\ Head(w_queues["system"]) \in Work!Works
    BY <1>1, <2>1
  <2>3. QED BY <1>1, <2>2, WorkTypes
<1>3. /\ w_queues' \in [{"system", "my_workq"} -> Seq(Work!Works)]
      /\ w_queues'["my_workq"] = w_queues["my_workq"]
      /\ w_queues'["system"] = Tail(w_queues["system"])
  BY <1>1, <1>2, WorkTypes
<1>4. ASSUME NEW n \in 0 .. 3, Given(n) PROVE Given(n)' /\ w_queues'["system"] = <<>>
  <2>1. n > 0 /\ w_queues["system"] = <<Nth(n)>> /\ w_log = Logged(n - 1)
    BY <1>1, <1>4 DEF Given
  <2>2. w_queues'["system"] = <<>> /\ w_log' = Append(Logged(n - 1), Nth(n))
    BY <1>1, <1>3, <2>1
  <2>3. Append(Logged(n - 1), Nth(n)) = Logged(n)
    <3>1. n \in Nat \ {0}
      BY <2>1
    <3>2. QED BY Zenon, <3>1, Appends
  <2>4. QED BY <2>2, <2>3 DEF Given
<1>5. ASSUME WorkPunctual PROVE w_steps["main"] = 1 /\ WorkFirst'
  <2>1. w_steps["main"] = 1 /\ WorkFirst
    BY <1>1, <1>5, WorkTypes DEF WorkInv, WorkSecond, WorkThird
  <2>2. w_queues'["system"] = <<>>
    BY <1>4, <2>1, WorkTypes DEF WorkFirst
  <2>3. QED BY <1>1, <1>3, <1>4, <2>1, <2>2 DEF WorkFirst
<1>6. Work!TypeOK'
  BY <1>1, <1>2, <1>3, WorkTypes DEF Work!TypeOK, WorkThreads
<1>7. QED BY <1>1, <1>5, <1>6, WorkTypes DEF WorkInv, WorkPunctual

LEMMA WorkOwn == WorkInv /\ Work!OwnWork => WorkInv'
<1> SUFFICES ASSUME WorkInv, Work!OwnWork PROVE WorkInv'
  OBVIOUS
<1>1. /\ w_queues["my_workq"] # <<>> /\ ~w_busy /\ w_steps' = w_steps
      /\ w_queues' = [w_queues EXCEPT !["my_workq"] = Tail(w_queues["my_workq"])]
  BY DEF Work!OwnWork
<1>2. Tail(w_queues["my_workq"]) \in Seq(Work!Works)
  BY <1>1, WorkTypes
<1>3. /\ w_queues' \in [{"system", "my_workq"} -> Seq(Work!Works)]
      /\ w_queues'["system"] = w_queues["system"]
      /\ w_queues'["my_workq"] = Tail(w_queues["my_workq"])
  BY <1>1, <1>2, WorkTypes
<1>4. ASSUME WorkPunctual
      PROVE  /\ w_steps["main"] = 2 /\ WorkSecond
             /\ \/ /\ w_queues["my_workq"] = <<"long">> /\ LongWaits
                   /\ w_steps["dispatcher"] = 1 /\ w_timer["main"] >= 16
                   /\ w_timer["main"] >= w_timer["dispatcher"] + 14
                \/ /\ w_queues["my_workq"] = <<"urgent">> /\ LongDone
                   /\ w_steps["dispatcher"] = 2
  <2>1. w_steps["main"] = 2 /\ WorkSecond
    BY <1>1, <1>4, WorkTypes DEF WorkInv, WorkFirst, WorkThird
  <2>2. w_steps["dispatcher"] \in {0, 1, 2}
    BY WorkTypes
  <2>3. QED BY <1>1, <2>1, <2>2 DEF WorkSecond, LongRuns
<1>5. CASE Head(w_queues["my_workq"]) = "long"
  <2>1. w_busy' = TRUE /\ Work!Sleep("my_workq", 4) /\ w_log' = w_log
    BY <1>5 DEF Work!OwnWork
  <2>2. /\ w_timer' \in [WorkThreads -> 0 .. 20 + Slack["work"]]
        /\ (WorkPunctual => w_timer'["my_workq"] <= 5)
        /\ w_timer'["main"] = w_timer["main"] /\ w_timer'["dispatcher"] = w_timer["dispatcher"]
    BY <2>1, WorkSleeps DEF WorkThreads
  <2>3. ASSUME WorkPunctual PROVE WorkSecond'
    <3>1. /\ w_queues["my_workq"] = <<"long">> /\ LongWaits
          /\ w_steps["dispatcher"] = 1 /\ w_timer["main"] >= 16
          /\ w_timer["main"] >= w_timer["dispatcher"] + 14
      BY <1>4, <1>5, <2>3
    <3>2. w_queues'["my_workq"] = <<>>
      BY <1>3, <3>1
    <3>3. LongRuns'
      <4>1. w_timer'["main"] >= w_timer'["my_workq"] + 11
        BY SMTT(30), <2>2, <2>3, <3>1, WorkTypes DEF WorkThreads
      <4>2. QED BY <2>1, <3>1, <4>1 DEF LongRuns, LongWaits
    <3>4. WorkSecond
      BY <1>4, <2>3
    <3>5. QED BY <1>1, <1>3, <2>2, <3>1, <3>2, <3>3, <3>4 DEF WorkSecond
  <2>4. Work!TypeOK'
    BY <1>1, <1>3, <2>1, <2>2, WorkTypes DEF Work!TypeOK, WorkThreads
  <2>5. QED BY <1>1, <1>4, <2>3, <2>4, WorkTypes DEF WorkInv, WorkPunctual
<1>6. CASE Head(w_queues["my_workq"]) # "long"
  <2>1. w_log' = Append(w_log, "urgent") /\ w_timer' = w_timer /\ w_busy' = w_busy
    BY <1>6 DEF Work!OwnWork
  <2>2. ASSUME WorkPunctual PROVE WorkSecond'
    <3>1. /\ w_queues["my_workq"] = <<"urgent">> /\ LongDone /\ w_steps["dispatcher"] = 2
      BY <1>4, <1>6, <2>2
    <3>2. w_queues'["my_workq"] = <<>>
      BY <1>3, <3>1
    <3>3. w_log' = Logged(5)
      <4>1. Append(Logged(4), Nth(5)) = Logged(5)
        <5>1. 5 \in Nat \ {0} /\ 5 - 1 = 4
          OBVIOUS
        <5>2. QED BY Zenon, <5>1, Appends
      <4>2. QED BY <2>1, <3>1, <4>1, LoggedWorks DEF LongDone
    <3>4. WorkSecond
      BY <1>4, <2>2
    <3>5. QED BY <1>1, <1>3, <2>1, <3>1, <3>2, <3>3, <3>4 DEF WorkSecond
  <2>3. "urgent" \in Work!Works
    BY DEF Work!Works
  <2>4. w_log' \in Seq(Work!Works)
    BY <2>1, <2>3, WorkTypes
  <2>5. Work!TypeOK'
    BY <1>1, <1>3, <2>1, <2>4, WorkTypes DEF Work!TypeOK, WorkThreads
  <2>6. QED BY <1>1, <1>4, <2>2, <2>5, WorkTypes DEF WorkInv, WorkPunctual
<1>7. QED BY <1>5, <1>6

LEMMA WorkLongEnds == WorkInv /\ Work!LongWorkEnds => WorkInv'
<1> SUFFICES ASSUME WorkInv, Work!LongWorkEnds PROVE WorkInv'
  OBVIOUS
<1>1. /\ w_busy /\ w_timer["my_workq"] = 0 /\ w_log' = Append(w_log, "long")
      /\ w_busy' = FALSE /\ w_timer' = w_timer /\ w_steps' = w_steps
      /\ w_queues' = w_queues
  BY DEF Work!LongWorkEnds, Work!Awake
<1>2. ASSUME WorkPunctual PROVE w_steps["main"] = 2 /\ WorkSecond'
  <2>1. w_steps["main"] = 2 /\ WorkSecond
    BY <1>1, <1>2, WorkTypes DEF WorkInv, WorkFirst, WorkThird
  <2>2. LongRuns /\ w_steps["dispatcher"] \in {1, 2}
    <3>1. w_steps["dispatcher"] \in {0, 1, 2}
      BY WorkTypes
    <3>2. QED BY <1>1, <2>1, <3>1 DEF WorkSecond, LongWaits, LongDone
  <2>3. LongDone' /\ w_timer["main"] > 0
    <3>1. w_log = Logged(3) /\ w_timer["main"] >= 0 + 11
      BY <1>1, <2>2 DEF LongRuns
    <3>2. w_log' = Logged(4)
      <4>1. Append(Logged(3), Nth(4)) = Logged(4)
        <5>1. 4 \in Nat \ {0} /\ 4 - 1 = 3
          OBVIOUS
        <5>2. QED BY Zenon, <5>1, Appends
      <4>2. QED BY <1>1, <3>1, <4>1, LoggedWorks
    <3>3. w_timer["main"] > 0
      BY <3>1, WorkTypes DEF WorkThreads
    <3>4. QED BY <1>1, <3>2, <3>3 DEF LongDone
  <2>4. ~LongWaits /\ ~LongDone
    BY <1>1 DEF LongWaits, LongDone
  <2>5. QED BY <1>1, <2>1, <2>2, <2>3, <2>4 DEF WorkSecond
<1>3. "long" \in Work!Works
  BY DEF Work!Works
<1>4. w_log' \in Seq(Work!Works)
  BY <1>1, <1>3, WorkTypes
<1>5. Work!TypeOK'
  BY <1>1, <1>4, WorkTypes DEF Work!TypeOK, WorkThreads
<1>6. QED BY <1>1, <1>2, <1>5, WorkTypes DEF WorkInv, WorkPunctual

LEMMA WorkTick == WorkInv /\ Work!Tick => WorkInv'
<1> SUFFICES ASSUME WorkInv, Work!Tick PROVE WorkInv'
  OBVIOUS
<1>1. /\ w_timer["main"] # 0
      /\ w_timer["submitter"] # 0 \/ w_steps["submitter"] > 2
      /\ w_timer["delayed_work"] # 0 \/ w_steps["submitter"] # 3
      /\ w_timer["dispatcher"] # 0 \/ w_steps["main"] = 1 \/ w_steps["dispatcher"] > 1
      /\ w_queues["system"] = <<>> /\ (w_queues["my_workq"] = <<>> \/ w_busy)
      /\ ~w_busy \/ w_timer["my_workq"] # 0
      /\ w_steps' = w_steps /\ w_queues' = w_queues /\ w_busy' = w_busy /\ w_log' = w_log
  BY DEF Work!Tick, Work!Awake
<1>2. w_timer' = [t \in DOMAIN w_timer |-> IF w_timer[t] > 0 THEN w_timer[t] - 1 ELSE 0]
  BY DEF Work!Tick, Work!Pass
<1>3. /\ w_timer' \in [WorkThreads -> 0 .. 20 + Slack["work"]]
      /\ \A t \in WorkThreads :
           /\ w_timer[t] = 0 => w_timer'[t] = 0
           /\ w_timer[t] # 0 => w_timer'[t] = w_timer[t] - 1
  BY <1>2, WorkTypes
<1>4. \A n : Given(n)' <=> Given(n)
  BY <1>1, GivenSame
\* The distance from main to a thread that sleeps stays.
<1>5. \A t \in WorkThreads, c \in Nat :
         w_timer[t] # 0 /\ w_timer["main"] >= w_timer[t] + c
           => w_timer'["main"] >= w_timer'[t] + c
  <2>1. ASSUME NEW t \in WorkThreads, NEW c \in Nat, w_timer[t] # 0,
               w_timer["main"] >= w_timer[t] + c
        PROVE  w_timer'["main"] >= w_timer'[t] + c
    <3>1. PICK x \in Nat, y \in Nat : x = w_timer["main"] /\ y = w_timer[t]
      BY WorkTypes DEF WorkThreads
    <3>2. w_timer'["main"] = x - 1 /\ w_timer'[t] = y - 1
      BY Zenon, <1>1, <1>3, <2>1, <3>1 DEF WorkThreads
    <3>3. x >= y + c
      BY Zenon, <2>1, <3>1
    <3>4. x - 1 >= (y - 1) + c
      BY <3>3
    <3>5. QED BY Zenon, <3>2, <3>4
  <2>2. QED BY <2>1
<1>6. ASSUME WorkPunctual, w_steps["main"] = 1 PROVE WorkFirst'
  <2>1. WorkFirst
    BY <1>6 DEF WorkInv
  <2>2. w_steps["submitter"] # 0
    BY <1>1, <2>1 DEF WorkFirst
  <2>3. w_steps["submitter"] = 1 => w_timer'["main"] >= w_timer'["submitter"] + 15
    BY <1>1, <1>5, <2>1 DEF WorkFirst, WorkThreads
  <2>4. w_steps["submitter"] = 2 => w_timer'["main"] >= w_timer'["submitter"] + 10
    BY <1>1, <1>5, <2>1 DEF WorkFirst, WorkThreads
  <2>5. w_steps["submitter"] = 3 => w_timer'["main"] >= w_timer'["delayed_work"] + 3
    BY <1>1, <1>5, <2>1 DEF WorkFirst, WorkThreads
  <2>6. w_timer'["dispatcher"] = 0
    BY <1>3, <2>1 DEF WorkFirst, WorkThreads
  <2>7. QED BY <1>1, <1>4, <2>1, <2>2, <2>3, <2>4, <2>5, <2>6 DEF WorkFirst
<1>7. ASSUME WorkPunctual, w_steps["main"] = 2 PROVE WorkSecond'
  <2>1. WorkSecond
    BY <1>7 DEF WorkInv
  <2>2. w_steps["dispatcher"] # 0
    BY <1>1, <1>7, <2>1 DEF WorkSecond
  <2>3. w_steps["dispatcher"] = 1 => w_timer'["main"] >= w_timer'["dispatcher"] + 14
    BY <1>1, <1>5, <1>7, <2>1 DEF WorkSecond, WorkThreads
  <2>4. (LongRuns => LongRuns') /\ (LongDone => LongDone')
    <3>1. LongRuns => w_timer'["main"] >= w_timer'["my_workq"] + 11
      BY <1>1, <1>5 DEF LongRuns, WorkThreads
    <3>2. QED BY <1>1, <3>1 DEF LongRuns, LongDone
  <2>5. ~(w_queues["my_workq"] = <<"long">> /\ LongWaits)
        /\ ~(w_queues["my_workq"] = <<"urgent">> /\ LongDone)
    BY <1>1 DEF LongWaits, LongDone
  <2>6. QED BY <1>1, <2>1, <2>2, <2>3, <2>4, <2>5 DEF WorkSecond
<1>8. ASSUME WorkPunctual, w_steps["main"] = 3 PROVE WorkThird'
  BY <1>1, <1>8 DEF WorkInv, WorkThird
<1>9. Work!TypeOK'
  BY <1>1, <1>3, WorkTypes DEF Work!TypeOK, WorkThreads
<1>10. QED BY <1>1, <1>6, <1>7, <1>8, <1>9, WorkTypes DEF WorkInv, WorkPunctual

LEMMA WorkStep == WorkInv /\ [Next]_vars => WorkInv'
<1>1. ASSUME WorkInv, UNCHANGED workVars PROVE WorkInv'
  <2>1. /\ w_timer' = w_timer /\ w_steps' = w_steps /\ w_queues' = w_queues
        /\ w_busy' = w_busy /\ w_log' = w_log
    BY <1>1 DEF workVars
  <2>2. \A n : Given(n)' <=> Given(n)
    BY Zenon, <2>1 DEF Given
  <2>3. (WorkFirst => WorkFirst') /\ (WorkSecond => WorkSecond') /\ (WorkThird => WorkThird')
    BY Zenon, <2>1, <2>2 DEF WorkFirst, WorkSecond, WorkThird, LongWaits, LongRuns, LongDone
  <2>4. QED BY Zenon, <1>1, <2>1, <2>3 DEF WorkInv, Work!TypeOK, WorkPunctual
<1>2. WorkInv /\ Work!Next => WorkInv'
  BY Zenon, WorkMain, WorkSubmitter, WorkDelayOver, WorkDispatcher, WorkSystem, WorkOwn,
    WorkLongEnds, WorkTick DEF Work!Next
<1>3. QED BY Zenon, <1>1, <1>2, StepsApart

\* app41: what main announces has been shown, when no sleep lasts more than
\* 0.5 s too long; with 1 s, the delayed work may come after the announcement.
THEOREM WorkIsShown == ASSUME WorkPunctual PROVE Spec => []WorkShown
<1>1. WorkInv => WorkShown
  <2>1. ASSUME WorkInv PROVE WorkShown
    <3>1. w_steps["main"] = 2 =>
            \E m \in 0 .. Len(w_log) : SubSeq(w_log, 1, m) = <<"normal", "normal", "delayed">>
      <4>1. ASSUME w_steps["main"] = 2
            PROVE  \E n \in {3, 4, 5} : w_log = Logged(n)
        <5>1. WorkSecond /\ w_steps["dispatcher"] \in {0, 1, 2}
          BY <2>1, <4>1, WorkTypes DEF WorkInv
        <5>2. QED BY <5>1 DEF WorkSecond, LongWaits, LongRuns, LongDone
      <4>2. ASSUME NEW n \in {3, 4, 5}
            PROVE  3 \in 0 .. Len(Logged(n)) /\ SubSeq(Logged(n), 1, 3) = Logged(3)
        <5>1. n \in Nat /\ \A i \in 1 .. 3 : i \in 1 .. n
          OBVIOUS
        <5>2. Logged(n) \in Seq({Nth(i) : i \in 1 .. n}) /\ Len(Logged(n)) = n
          BY <5>1 DEF Logged
        <5>3. \A i \in 1 .. 3 : Logged(n)[i] = Nth(i)
          BY <5>1 DEF Logged
        <5>4. PICK q \in Seq({Nth(i) : i \in 1 .. n}) :
                 q = Logged(n) /\ Len(q) = n /\ \A i \in 1 .. 3 : q[i] = Nth(i)
          BY Zenon, <5>2, <5>3
        <5>5. SubSeq(q, 1, 3) = [i \in 1 .. 3 |-> q[i]] /\ 3 \in 0 .. Len(q)
          BY <5>1, <5>4
        <5>6. QED BY Zenon, <5>4, <5>5 DEF Logged
      <4>3. QED BY Zenon, <4>1, <4>2, LoggedWorks
    <3>2. w_steps["main"] = 3 =>
            w_log = <<"normal", "normal", "delayed">> \o <<"long", "urgent">>
      BY <2>1, LoggedWorks DEF WorkInv, WorkThird
    <3>3. QED BY Zenon, <3>1, <3>2 DEF WorkShown, Work!AllShown
  <2>2. QED BY <2>1
<1> QED BY WorkInit, WorkStep, <1>1, Behaviour, PTL
=============================================================================
