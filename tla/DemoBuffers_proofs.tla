------------------------- MODULE DemoBuffers_proofs -------------------------
(***************************************************************************)
(* Proofs about the demonstration programs whose threads or callbacks      *)
(* share buffers: the FIFOs of app36, the pipe of app39, the echo of app05.*)
(***************************************************************************)
EXTENDS Demos_proofs, Induction

-----------------------------------------------------------------------------
(* app36, first example: the heap. *)

Cells(q) == UNION {{q[i][1], q[i][2]} : i \in DOMAIN q}

\* c is a cell of pair p.
OfPair(p, c) == c = p[1] \/ c = p[2]

\* A block and a node are two cells, no two places of the FIFO share one, and
\* what the processor works on is not in the FIFO any more.
Apart(q, held) ==
  \A i \in DOMAIN q :
    /\ q[i][1] # q[i][2]
    /\ \A c : OfPair(q[i], c) =>
         c \notin held /\ \A j \in DOMAIN q : OfPair(q[j], c) => i = j

AllocInv ==
  /\ Alloc!TypeOK /\ Alloc!HeapAccounted
  /\ IsFiniteSet(a_used) /\ Apart(a_fifo, a_held)
  /\ a_held = {} \/ \E block \in Heap : a_held = {block}

LEMMA Counted ==
  ASSUME NEW S, IsFiniteSet(S), NEW x
  PROVE  /\ Cardinality(S) \in Nat
         /\ x \notin S => Cardinality(S \cup {x}) = Cardinality(S) + 1
         /\ x \in S => Cardinality(S \ {x}) = Cardinality(S) - 1
         /\ IsFiniteSet(S \cup {x}) /\ IsFiniteSet(S \ {x})
BY FS_CardinalityType, FS_AddElement, FS_RemoveElement

LEMMA InCells ==
  ASSUME NEW q, NEW c
  PROVE  c \in Cells(q) <=> \E i \in DOMAIN q : OfPair(q[i], c)
BY Zenon DEF Cells, OfPair

LEMMA SameCardinality == \A S : Alloc!Cardinality(S) = Cardinality(S)
BY Zenon DEF Cardinality, Alloc!Cardinality, IsFiniteSet, Alloc!IsFiniteSet

\* HeapAccounted, and the rest of the invariant, in terms of these.
LEMMA AllocFacts ==
  /\ Alloc!HeapAccounted <=> /\ a_used = a_held \cup Cells(a_fifo)
                             /\ Cardinality(a_used) = Cardinality(a_held) + 2 * Len(a_fifo)
  /\ Alloc!HeapAccounted' <=> /\ a_used' = a_held' \cup Cells(a_fifo')
                              /\ Cardinality(a_used') = Cardinality(a_held') + 2 * Len(a_fifo')
<1>1. Alloc!HeapAccounted <=>
        /\ a_used = a_held \cup Cells(a_fifo)
        /\ Cardinality(a_used) = Cardinality(a_held) + 2 * Len(a_fifo)
  BY SameCardinality DEF Alloc!HeapAccounted, Cells
<1>2. Alloc!HeapAccounted' <=>
        /\ a_used' = a_held' \cup Cells(a_fifo')
        /\ Cardinality(a_used') = Cardinality(a_held') + 2 * Len(a_fifo')
  BY SameCardinality DEF Alloc!HeapAccounted, Cells
<1>3. QED BY Zenon, <1>1, <1>2

\* r is q with the pair of b and n behind it; r is q without its first pair.
PairBehind(q, r, b, n) ==
  /\ r \in Seq(Heap \X Heap) /\ Len(r) = Len(q) + 1 /\ Len(q) \in Nat
  /\ DOMAIN r = DOMAIN q \cup {Len(r)} /\ Len(r) \notin DOMAIN q
  /\ r[Len(r)][1] = b /\ r[Len(r)][2] = n
  /\ \A i \in DOMAIN q : r[i] = q[i]

FirstGone(q, r) ==
  /\ r \in Seq(Heap \X Heap) /\ Len(r) = Len(q) - 1 /\ Len(q) \in Nat \ {0}
  /\ Head(q) = q[1] /\ q[1][1] \in Heap /\ q[1][2] \in Heap /\ 1 \in DOMAIN q
  /\ \A i \in DOMAIN r : r[i] = q[i + 1] /\ i + 1 \in DOMAIN q /\ i + 1 # 1
  /\ \A i \in DOMAIN r, j \in DOMAIN r : i + 1 = j + 1 => i = j
  /\ \A i \in DOMAIN q : i = 1 \/ \E j \in DOMAIN r : r[j] = q[i]

LEMMA PairAppended ==
  ASSUME NEW q \in Seq(Heap \X Heap), NEW b \in Heap, NEW n \in Heap
  PROVE  PairBehind(q, Append(q, <<b, n>>), b, n)
<1> DEFINE r == Append(q, <<b, n>>)
<1>1. <<b, n>> \in Heap \X Heap /\ <<b, n>>[1] = b /\ <<b, n>>[2] = n
  OBVIOUS
<1>2. QED BY <1>1 DEF PairBehind

LEMMA PairTaken ==
  ASSUME NEW q \in Seq(Heap \X Heap), q # <<>>
  PROVE  FirstGone(q, Tail(q))
<1> DEFINE r == Tail(q)
<1>1. /\ r \in Seq(Heap \X Heap) /\ Len(r) = Len(q) - 1 /\ Len(q) \in Nat \ {0}
      /\ Head(q) = q[1] /\ q[1] \in Heap \X Heap /\ 1 \in DOMAIN q
  OBVIOUS
<1>2. \A i \in DOMAIN r : r[i] = q[i + 1] /\ i + 1 \in DOMAIN q /\ i + 1 # 1
  OBVIOUS
<1>3. \A i \in DOMAIN r, j \in DOMAIN r : i + 1 = j + 1 => i = j
  OBVIOUS
<1>4. \A i \in DOMAIN q : i = 1 \/ (i - 1 \in DOMAIN r /\ r[i - 1] = q[i])
  OBVIOUS
<1>5. q[1][1] \in Heap /\ q[1][2] \in Heap
  BY <1>1
<1>6. QED BY Zenon, <1>1, <1>2, <1>3, <1>4, <1>5 DEF FirstGone

LEMMA AllocInit == Init => AllocInv
<1> SUFFICES ASSUME Alloc!Init PROVE AllocInv
  BY DEF Init
<1>1. a_fifo \in Seq(Heap \X Heap) /\ Len(a_fifo) = 0 /\ DOMAIN a_fifo = {}
  BY DEF Alloc!Init
<1>2. a_timer \in [{"sensor", "processor"} -> 0 .. 10 + Slack["alloc"]]
  BY DemosAssumption DEF DemosAssumption, Sleepers, Alloc!Init
<1>3. a_used = {} /\ a_held = {} /\ Cardinality({}) = 0 /\ IsFiniteSet({})
  BY FS_EmptySet DEF Alloc!Init
<1>4. Alloc!TypeOK
  BY <1>1, <1>2, <1>3 DEF Alloc!TypeOK
<1>5. Alloc!HeapAccounted
  <2>1. Cells(a_fifo) = {}
    BY <1>1 DEF Cells
  <2>2. Cardinality(a_used) = Cardinality(a_held) + 2 * Len(a_fifo)
    BY <1>1, <1>3
  <2>3. QED BY <1>3, <2>1, <2>2, AllocFacts
<1>6. Apart(a_fifo, a_held)
  BY <1>1 DEF Apart
<1> QED BY Zenon, <1>3, <1>4, <1>5, <1>6 DEF AllocInv

LEMMA AllocSleep ==
  ASSUME Alloc!TypeOK, NEW t \in {"sensor", "processor"}, NEW n \in 0 .. 10,
         Alloc!Sleep(t, n)
  PROVE  a_timer' \in [{"sensor", "processor"} -> 0 .. 10 + Slack["alloc"]]
<1>1. PICK late \in 0 .. Slack["alloc"] : a_timer' = [a_timer EXCEPT ![t] = n + late]
  BY DEF Alloc!Sleep
<1>2. n + late \in 0 .. 10 + Slack["alloc"]
  BY DemosAssumption DEF DemosAssumption, Sleepers
<1>3. QED BY <1>1, <1>2 DEF Alloc!TypeOK

\* What AllocInv says, without the names of the module.
LEMMA AllocState ==
  ASSUME AllocInv
  PROVE  /\ a_fifo \in Seq(Heap \X Heap) /\ a_used \subseteq Heap /\ a_held \subseteq Heap
         /\ IsFiniteSet(a_used) /\ a_used = a_held \cup Cells(a_fifo)
         /\ Cardinality(a_used) = Cardinality(a_held) + 2 * Len(a_fifo)
         /\ Apart(a_fifo, a_held)
BY Zenon, AllocFacts DEF AllocInv, Alloc!TypeOK

LEMMA AllocPut == AllocInv /\ Alloc!Put => AllocInv'
<1> SUFFICES ASSUME AllocInv, Alloc!Put PROVE AllocInv'
  OBVIOUS
<1>1. a_timer' \in [{"sensor", "processor"} -> 0 .. 10 + Slack["alloc"]]
  BY AllocSleep DEF AllocInv, Alloc!Put
<1>2. CASE UNCHANGED <<a_used, a_fifo>>
  BY <1>1, <1>2 DEF AllocInv, Alloc!Put, Alloc!TypeOK, Alloc!HeapAccounted
<1>3. ASSUME NEW block \in Heap \ a_used, NEW node \in Heap \ a_used, block # node,
             a_used' = a_used \cup {block, node}, a_fifo' = Append(a_fifo, <<block, node>>)
      PROVE  AllocInv'
  <2>1. a_held' = a_held
    BY DEF Alloc!Put
  <2>2. PairBehind(a_fifo, a_fifo', block, node)
    <3>1. block \in Heap /\ node \in Heap /\ a_fifo \in Seq(Heap \X Heap)
      BY <1>3, AllocState
    <3>2. PairBehind(a_fifo, Append(a_fifo, <<block, node>>), block, node)
      BY Zenon, <3>1, PairAppended
    <3>3. QED BY Zenon, <1>3, <3>2
  <2>3. \A c : OfPair(a_fifo'[Len(a_fifo')], c) <=> c = block \/ c = node
    BY Zenon, <2>2 DEF PairBehind, OfPair
  <2>4. Alloc!TypeOK'
    <3>1. a_used' \subseteq Heap
      BY <1>3, AllocState
    <3>2. QED BY Zenon, <1>1, <2>1, <2>2, <3>1, AllocState DEF Alloc!TypeOK, PairBehind
  <2>5. \A c : c \in Cells(a_fifo') <=> c \in Cells(a_fifo) \/ c = block \/ c = node
    <3>1. ASSUME NEW c
          PROVE  (\E i \in DOMAIN a_fifo' : OfPair(a_fifo'[i], c))
                   <=> (\E i \in DOMAIN a_fifo : OfPair(a_fifo[i], c)) \/ c = block \/ c = node
      BY <2>2, <2>3 DEF PairBehind
    <3>2. QED BY Zenon, <3>1, InCells
  <2>6. /\ IsFiniteSet(a_used') /\ Cardinality(a_used') = Cardinality(a_used) + 2
        /\ Cardinality(a_used) \in Nat
    <3>1. a_used' = (a_used \cup {block}) \cup {node} /\ node \notin a_used \cup {block}
      BY <1>3
    <3>2. /\ IsFiniteSet(a_used \cup {block}) /\ Cardinality(a_used) \in Nat
          /\ Cardinality(a_used \cup {block}) = Cardinality(a_used) + 1
      BY Zenon, <1>3, AllocState, Counted
    <3>3. /\ IsFiniteSet(a_used')
          /\ Cardinality(a_used') = Cardinality(a_used \cup {block}) + 1
      BY Zenon, <3>1, <3>2, Counted
    <3>4. QED BY <3>2, <3>3
  <2>7. Alloc!HeapAccounted'
    <3>1. a_used' = a_held' \cup Cells(a_fifo')
      <4>1. a_used = a_held \cup Cells(a_fifo)
        BY Zenon, AllocState
      <4>2. QED BY <1>3, <2>1, <2>5, <4>1
    <3>2. Cardinality(a_held) \in Nat
      <4>1. IsFiniteSet(a_held)
        <5>1. a_held \subseteq a_used /\ IsFiniteSet(a_used)
          BY Zenon, AllocState
        <5>2. QED BY <5>1, FS_Subset
      <4>2. QED BY <4>1, FS_CardinalityType
    <3>3. Cardinality(a_used) = Cardinality(a_held) + 2 * Len(a_fifo)
      BY Zenon, AllocState
    <3>4. Cardinality(a_used') = Cardinality(a_held') + 2 * Len(a_fifo')
      BY <2>1, <2>2, <2>6, <3>2, <3>3 DEF PairBehind
    <3>5. QED BY Zenon, <3>1, <3>4, AllocFacts
  <2>8. Apart(a_fifo', a_held')
    <3>1. \A i \in DOMAIN a_fifo : \A c : OfPair(a_fifo[i], c) => c # block /\ c # node
      <4>1. \A c : c \in Cells(a_fifo) => c \in a_used
        BY Zenon, AllocState
      <4>2. QED BY Zenon, <1>3, <4>1, InCells
    <3>2. block \notin a_held /\ node \notin a_held
      BY Zenon, <1>3, AllocState
    <3>3. Apart(a_fifo, a_held)
      BY Zenon, AllocState
    <3>4. ASSUME NEW i \in DOMAIN a_fifo'
          PROVE  /\ a_fifo'[i][1] # a_fifo'[i][2]
                 /\ \A c : OfPair(a_fifo'[i], c) => c \notin a_held'
      BY <1>3, <2>1, <2>2, <2>3, <3>2, <3>3 DEF Apart, PairBehind
    <3>5. ASSUME NEW i \in DOMAIN a_fifo', NEW c, OfPair(a_fifo'[i], c),
                 NEW j \in DOMAIN a_fifo', OfPair(a_fifo'[j], c)
          PROVE  i = j
      BY <2>2, <2>3, <3>1, <3>3, <3>5 DEF Apart, PairBehind
    <3>6. QED BY Zenon, <3>4, <3>5 DEF Apart
  <2>9. QED BY Zenon, <2>1, <2>4, <2>6, <2>7, <2>8 DEF AllocInv
<1> QED BY <1>2, <1>3 DEF Alloc!Put

LEMMA AllocGet == AllocInv /\ Alloc!Get => AllocInv'
<1> SUFFICES ASSUME AllocInv, Alloc!Get PROVE AllocInv'
  OBVIOUS
<1>1. a_timer' \in [{"sensor", "processor"} -> 0 .. 10 + Slack["alloc"]]
  BY AllocSleep DEF AllocInv, Alloc!Get
<1>2. /\ a_held = {} /\ a_fifo # <<>> /\ a_fifo' = Tail(a_fifo)
      /\ a_held' = {Head(a_fifo)[1]} /\ a_used' = a_used \ {Head(a_fifo)[2]}
  BY Zenon DEF Alloc!Get, Alloc!ReadyToGet
<1>3. /\ a_fifo' \in Seq(Heap \X Heap) /\ Len(a_fifo') = Len(a_fifo) - 1
      /\ Len(a_fifo) \in Nat \ {0} /\ Head(a_fifo) = a_fifo[1]
      /\ a_fifo[1][1] \in Heap /\ a_fifo[1][2] \in Heap /\ 1 \in DOMAIN a_fifo
      /\ \A i \in DOMAIN a_fifo' :
           a_fifo'[i] = a_fifo[i + 1] /\ i + 1 \in DOMAIN a_fifo /\ i + 1 # 1
      /\ \A i \in DOMAIN a_fifo', j \in DOMAIN a_fifo' : i + 1 = j + 1 => i = j
      /\ \A i \in DOMAIN a_fifo : i = 1 \/ \E j \in DOMAIN a_fifo' : a_fifo'[j] = a_fifo[i]
  <2>1. a_fifo \in Seq(Heap \X Heap)
    BY Zenon, AllocState
  <2>2. FirstGone(a_fifo, Tail(a_fifo))
    BY Zenon, <1>2, <2>1, PairTaken
  <2>3. FirstGone(a_fifo, a_fifo')
    BY Zenon, <1>2, <2>2
  <2>4. QED BY Zenon, <2>3 DEF FirstGone
<1>4. PICK block \in Heap, node \in Heap :
         /\ block = a_fifo[1][1] /\ node = a_fifo[1][2]
         /\ a_held' = {block} /\ a_used' = a_used \ {node}
  BY Zenon, <1>2, <1>3
<1>5. \A c : OfPair(a_fifo[1], c) <=> c = block \/ c = node
  BY Zenon, <1>4 DEF OfPair
<1>6. Apart(a_fifo, a_held)
  BY Zenon, AllocState
<1>7. block # node
  BY Zenon, <1>3, <1>4, <1>6 DEF Apart
<1>8. \A i \in DOMAIN a_fifo' : \A c : OfPair(a_fifo'[i], c) => c # block /\ c # node
  BY <1>3, <1>5, <1>6 DEF Apart
<1>9. Apart(a_fifo', a_held')
  <2>1. ASSUME NEW i \in DOMAIN a_fifo', NEW c, OfPair(a_fifo'[i], c),
               NEW j \in DOMAIN a_fifo', OfPair(a_fifo'[j], c)
        PROVE  i = j
    <3>1. OfPair(a_fifo[i + 1], c) /\ OfPair(a_fifo[j + 1], c)
      BY <1>3, <2>1
    <3>2. i + 1 = j + 1
      BY <1>3, <1>6, <3>1 DEF Apart
    <3>3. QED BY <1>3, <3>2
  <2>2. \A i \in DOMAIN a_fifo' : a_fifo'[i][1] # a_fifo'[i][2]
    BY <1>3, <1>6 DEF Apart
  <2>3. \A i \in DOMAIN a_fifo' : \A c : OfPair(a_fifo'[i], c) => c \notin a_held'
    BY <1>4, <1>8
  <2>4. QED BY Zenon, <2>1, <2>2, <2>3 DEF Apart
<1>10. \A c : c \in Cells(a_fifo) <=> c \in Cells(a_fifo') \/ c = block \/ c = node
  <2>1. ASSUME NEW c
        PROVE  (\E i \in DOMAIN a_fifo : OfPair(a_fifo[i], c))
                 <=> (\E i \in DOMAIN a_fifo' : OfPair(a_fifo'[i], c)) \/ c = block \/ c = node
    BY <1>3, <1>5
  <2>2. QED BY Zenon, <2>1, InCells
<1>11. node \notin Cells(a_fifo')
  BY Zenon, <1>8, InCells
<1>12. Alloc!HeapAccounted'
  <2>1. a_used = a_held \cup Cells(a_fifo)
    BY Zenon, AllocState
  <2>2. a_used' = a_held' \cup Cells(a_fifo')
    BY <1>2, <1>4, <1>7, <1>10, <1>11, <2>1
  <2>3. Cardinality(a_used') = Cardinality(a_used) - 1 /\ Cardinality(a_used) \in Nat
    <3>1. node \in a_used
      BY Zenon, <1>10, <2>1
    <3>2. QED BY Zenon, <1>4, <3>1, AllocState, Counted
  <2>4. Cardinality(a_held) = 0 /\ Cardinality(a_held') = 1
    BY <1>2, <1>4, FS_EmptySet, FS_Singleton
  <2>5. Cardinality(a_used) = Cardinality(a_held) + 2 * Len(a_fifo)
    BY Zenon, AllocState
  <2>6. Cardinality(a_used') = Cardinality(a_held') + 2 * Len(a_fifo')
    BY <1>3, <2>3, <2>4, <2>5
  <2>7. QED BY Zenon, <2>2, <2>6, AllocFacts
<1>13. Alloc!TypeOK'
  <2>1. a_used' \subseteq Heap /\ a_held' \subseteq Heap
    BY <1>4, AllocState
  <2>2. QED BY Zenon, <1>1, <1>3, <2>1 DEF Alloc!TypeOK
<1>14. IsFiniteSet(a_used')
  BY Zenon, <1>4, AllocState, Counted
<1> QED BY Zenon, <1>4, <1>9, <1>12, <1>13, <1>14 DEF AllocInv

LEMMA AllocFree == AllocInv /\ Alloc!Free => AllocInv'
<1> SUFFICES ASSUME AllocInv, Alloc!Free PROVE AllocInv'
  OBVIOUS
<1>1. PICK block \in Heap : a_held = {block}
  BY Zenon DEF AllocInv, Alloc!Free
<1>2. /\ a_used' = a_used \ {block} /\ a_held' = {} /\ a_timer' = a_timer /\ a_fifo' = a_fifo
  BY Zenon, <1>1 DEF Alloc!Free
<1>3. a_used = a_held \cup Cells(a_fifo) /\ Apart(a_fifo, a_held)
  BY Zenon, AllocState
<1>4. block \notin Cells(a_fifo)
  BY <1>1, <1>3, InCells DEF Apart
<1>5. /\ IsFiniteSet(a_used') /\ Cardinality(a_used') = Cardinality(a_used) - 1
      /\ Cardinality(a_used) \in Nat
  <2>1. block \in a_used
    BY <1>1, <1>3
  <2>2. QED BY Zenon, <1>2, <2>1, AllocState, Counted
<1>6. Alloc!HeapAccounted'
  <2>1. a_used' = a_held' \cup Cells(a_fifo')
    BY <1>1, <1>2, <1>3, <1>4
  <2>2. Cardinality(a_held) = 1 /\ Cardinality(a_held') = 0
    BY <1>1, <1>2, FS_EmptySet, FS_Singleton
  <2>3. Cardinality(a_used) = Cardinality(a_held) + 2 * Len(a_fifo) /\ Len(a_fifo') = Len(a_fifo)
    BY Zenon, <1>2, AllocState
  <2>4. Len(a_fifo) \in Nat
    <3>1. a_fifo \in Seq(Heap \X Heap)
      BY Zenon, AllocState
    <3>2. QED BY <3>1
  <2>5. Cardinality(a_used') = Cardinality(a_held') + 2 * Len(a_fifo')
    BY <1>5, <2>2, <2>3, <2>4
  <2>6. QED BY Zenon, <2>1, <2>5, AllocFacts
<1>7. Apart(a_fifo', a_held')
  BY <1>2, <1>3 DEF Apart
<1>8. Alloc!TypeOK'
  BY <1>2 DEF AllocInv, Alloc!TypeOK
<1> QED BY Zenon, <1>2, <1>5, <1>6, <1>7, <1>8 DEF AllocInv

LEMMA AllocStep == AllocInv /\ Alloc!Next => AllocInv'
<1>1. ASSUME AllocInv, Alloc!Tick PROVE AllocInv'
  <2>1. a_timer' \in [{"sensor", "processor"} -> 0 .. 10 + Slack["alloc"]]
    BY SMTT(30), <1>1, DemosAssumption DEF DemosAssumption, Sleepers, AllocInv, Alloc!Tick,
      Alloc!Pass, Alloc!TypeOK
  <2>2. a_used' = a_used /\ a_fifo' = a_fifo /\ a_held' = a_held
    BY <1>1 DEF Alloc!Tick
  <2>3. QED BY Zenon, <1>1, <2>1, <2>2 DEF AllocInv, Alloc!TypeOK, Alloc!HeapAccounted
<1> QED BY <1>1, AllocPut, AllocGet, AllocFree DEF Alloc!Next

-----------------------------------------------------------------------------
(* app36, second example: the list of data_fifo. *)

\* reach[n] is what the first n links l lead to from first.
Follows(reach, M, first, l) ==
  reach = [n \in 0 .. M |->
             IF n = 0 THEN first
             ELSE reach[n - 1] \cup ({l[i] : i \in reach[n - 1]} \ {M})]

Reaches(h, M, first, l) ==
  /\ h[0] = first
  /\ \A n \in 1 .. M : h[n] = h[n - 1] \cup ({l[i] : i \in h[n - 1]} \ {M})

LEMMA FollowRecursion ==
  ASSUME NEW X, NEW M \in Nat, NEW first \in SUBSET X,
         NEW l, \A i \in X : l[i] \in X \cup {M},
         NEW h, h = CHOOSE g : Follows(g, M, first, l)
  PROVE  Reaches(h, M, first, l)
<1> DEFINE step == [p \in (1 .. M) \X SUBSET X |->
                      p[2] \cup ({l[i] : i \in p[2]} \ {M})]
<1>1. step \in [(1 .. M) \X SUBSET X -> SUBSET X]
  OBVIOUS
<1>2. PICK f : Recursive(f, SUBSET X, M, first, step)
  <2> HIDE DEF step
  <2>1. QED BY <1>1, PrimitiveRecursion
<1>3. ASSUME NEW n \in 1 .. M
      PROVE  f[n] = f[n - 1] \cup ({l[i] : i \in f[n - 1]} \ {M})
  <2>1. <<n, f[n - 1]>> \in (1 .. M) \X SUBSET X
    BY <1>2 DEF Recursive
  <2>2. f[n] = step[<<n, f[n - 1]>>]
    BY <1>2 DEF Recursive
  <2>3. QED BY <2>1, <2>2
<1>4. Follows(f, M, first, l)
  BY <1>2, <1>3 DEF Follows, Recursive
<1>5. Follows(h, M, first, l)
  BY <1>4
<1>6. \A n \in 0 .. M : h[n] = IF n = 0 THEN first
                              ELSE h[n - 1] \cup ({l[i] : i \in h[n - 1]} \ {M})
  BY Zenon, <1>5 DEF Follows
<1>7. 0 \in 0 .. M /\ \A n \in 1 .. M : n \in 0 .. M /\ n # 0
  OBVIOUS
<1>8. QED BY Zenon, <1>6, <1>7 DEF Reaches

\* The item of data_pool behind item i, and how far i is behind the head.
Behind(i) == IF i = POOL_SIZE - 1 THEN 0 ELSE i + 1
Distance(i) == IF i >= p_head THEN i - p_head ELSE i - p_head + POOL_SIZE
Chain == IF p_head = POOL_SIZE THEN {}
         ELSE {i \in Pool!Items : Distance(i) <= Distance(p_tail)}

\* The list holds the items from the head to the one that was put last, each
\* linked to the next.
PoolInv ==
  /\ Pool!TypeOK
  /\ p_head = POOL_SIZE <=> p_tail = POOL_SIZE
  /\ p_head # POOL_SIZE =>
       /\ Behind(p_tail) = p_index /\ p_link[p_tail] = POOL_SIZE
       /\ \A i \in Pool!Items : Distance(i) < Distance(p_tail) => p_link[i] = Behind(i)

LEMMA PoolReach ==
  ASSUME Pool!TypeOK
  PROVE  Reaches(Pool!Reach, POOL_SIZE, {p_head} \ {POOL_SIZE}, p_link)
<1>1. POOL_SIZE \in Nat /\ {p_head} \ {POOL_SIZE} \in SUBSET Pool!Items
  BY DemosAssumption DEF DemosAssumption, Pool!TypeOK, Pool!Null
<1>2. \A i \in Pool!Items : p_link[i] \in Pool!Items \cup {POOL_SIZE}
  BY DEF Pool!TypeOK, Pool!Null
<1>3. PICK h : h = CHOOSE g : Follows(g, POOL_SIZE, {p_head} \ {POOL_SIZE}, p_link)
  OBVIOUS
<1>4. Reaches(h, POOL_SIZE, {p_head} \ {POOL_SIZE}, p_link)
  BY Zenon, <1>1, <1>2, <1>3, FollowRecursion
<1>5. h = Pool!Reach
  BY <1>3 DEF Follows, Pool!Reach, Pool!Null
<1>6. QED BY Zenon, <1>4, <1>5

\* Distances, for any size of the pool, head and item.
LEMMA Distances ==
  ASSUME Pool!TypeOK, p_head # POOL_SIZE, NEW i \in Pool!Items
  PROVE  /\ Distance(i) \in 0 .. POOL_SIZE - 1 /\ Behind(i) \in Pool!Items
         /\ Distance(i) = 0 <=> i = p_head
         /\ Behind(i) # p_head => Distance(Behind(i)) = Distance(i) + 1
         /\ Behind(i) = p_head => Distance(i) = POOL_SIZE - 1
         /\ \A j \in Pool!Items : Distance(i) = Distance(j) => i = j
         /\ i # p_head => \E j \in Pool!Items : Behind(j) = i /\ Distance(i) = Distance(j) + 1
<1>1. POOL_SIZE \in Nat \ {0} /\ p_head \in 0 .. POOL_SIZE - 1 /\ i \in 0 .. POOL_SIZE - 1
  BY DemosAssumption DEF DemosAssumption, Pool!TypeOK, Pool!Items, Pool!Null
<1> USE DEF Pool!Items
<1>2. Distance(i) \in 0 .. POOL_SIZE - 1 /\ Behind(i) \in 0 .. POOL_SIZE - 1
  BY <1>1 DEF Distance, Behind
<1>3. Distance(i) = 0 <=> i = p_head
  BY <1>1 DEF Distance
<1>4. /\ Behind(i) # p_head => Distance(Behind(i)) = Distance(i) + 1
      /\ Behind(i) = p_head => Distance(i) = POOL_SIZE - 1
  BY <1>1 DEF Distance, Behind
<1>5. \A j \in 0 .. POOL_SIZE - 1 : Distance(i) = Distance(j) => i = j
  BY <1>1 DEF Distance
<1>6. i # p_head => \E j \in 0 .. POOL_SIZE - 1 : Behind(j) = i /\ Distance(i) = Distance(j) + 1
  <2> DEFINE j == IF i = 0 THEN POOL_SIZE - 1 ELSE i - 1
  <2>1. j \in 0 .. POOL_SIZE - 1 /\ Behind(j) = i
    BY <1>1 DEF Behind
  <2>2. i # p_head => Distance(i) = Distance(j) + 1
    BY <1>1 DEF Distance
  <2> HIDE DEF j
  <2>3. QED BY <2>1, <2>2
<1>7. QED BY <1>2, <1>3, <1>4, <1>5, <1>6

\* From the head the links lead to the items of the chain, and to all of them.
LEMMA ChainIsQueued == ASSUME PoolInv PROVE Pool!Queued = Chain
<1>1. Pool!TypeOK /\ POOL_SIZE \in Nat \ {0}
  BY DemosAssumption DEF DemosAssumption, PoolInv
<1>2. Reaches(Pool!Reach, POOL_SIZE, {p_head} \ {POOL_SIZE}, p_link)
  BY Zenon, <1>1, PoolReach
<1>3. {p_head} \ {POOL_SIZE} \subseteq Chain
  <2>1. p_head # POOL_SIZE => p_head \in Pool!Items /\ p_tail \in Pool!Items
    BY <1>1 DEF PoolInv, Pool!TypeOK, Pool!Null
  <2>2. p_head # POOL_SIZE => Distance(p_head) = 0 /\ Distance(p_tail) \in Nat
    BY <1>1, <2>1, Distances
  <2>3. QED BY <2>1, <2>2 DEF Chain
<1>4. \A i \in Chain : p_link[i] \in Chain \cup {POOL_SIZE}
  <2>1. ASSUME NEW i \in Chain PROVE p_link[i] \in Chain \cup {POOL_SIZE}
    <3>1. p_head # POOL_SIZE /\ i \in Pool!Items /\ Distance(i) <= Distance(p_tail)
      BY DEF Chain
    <3>2. p_tail \in Pool!Items /\ Distance(i) \in Nat /\ Distance(p_tail) \in Nat
      BY <1>1, <3>1, Distances DEF PoolInv, Pool!TypeOK, Pool!Null
    <3>3. CASE Distance(i) = Distance(p_tail)
      <4>1. i = p_tail
        BY <1>1, <3>1, <3>2, <3>3, Distances
      <4>2. QED BY <3>1, <4>1 DEF PoolInv
    <3>4. CASE Distance(i) < Distance(p_tail)
      <4>1. p_link[i] = Behind(i)
        BY <3>1, <3>4 DEF PoolInv
      <4>2. Behind(i) # p_head => Distance(Behind(i)) <= Distance(p_tail)
        BY <1>1, <3>1, <3>2, <3>4, Distances
      <4>3. Behind(i) # p_head
        BY <1>1, <3>1, <3>2, <3>4, Distances
      <4>4. Behind(i) \in Pool!Items
        BY <1>1, <3>1, Distances
      <4>5. QED BY <3>1, <4>1, <4>2, <4>3, <4>4 DEF Chain
    <3>5. QED BY <3>1, <3>2, <3>3, <3>4
  <2>2. QED BY <2>1
<1> DEFINE T == {n \in Nat : n <= POOL_SIZE =>
                  /\ Pool!Reach[n] \subseteq Chain
                  /\ \A i \in Chain : Distance(i) <= n => i \in Pool!Reach[n]}
<1>5. 0 \in T
  <2>1. Pool!Reach[0] = {p_head} \ {POOL_SIZE}
    BY Zenon, <1>2 DEF Reaches
  <2>2. \A i \in Chain : Distance(i) <= 0 => i \in {p_head} \ {POOL_SIZE}
    BY <1>1, Distances DEF Chain
  <2>3. QED BY <1>3, <2>1, <2>2
<1>6. ASSUME NEW k \in Nat, k \in T PROVE k + 1 \in T
  <2> SUFFICES ASSUME k + 1 <= POOL_SIZE
               PROVE  /\ Pool!Reach[k + 1] \subseteq Chain
                      /\ \A i \in Chain : Distance(i) <= k + 1 => i \in Pool!Reach[k + 1]
    OBVIOUS
  <2>1. /\ Pool!Reach[k] \subseteq Chain
        /\ \A i \in Chain : Distance(i) <= k => i \in Pool!Reach[k]
    BY <1>1, <1>6
  <2>2. PICK n \in 1 .. POOL_SIZE : n = k + 1 /\ n - 1 = k
    BY <1>1
  <2>3. Pool!Reach[k + 1] = Pool!Reach[k]
                             \cup ({p_link[i] : i \in Pool!Reach[k]} \ {POOL_SIZE})
    BY Zenon, <1>2, <2>2 DEF Reaches
  <2>4. Pool!Reach[k + 1] \subseteq Chain
    BY Zenon, <1>4, <2>1, <2>3
  <2>5. ASSUME NEW i \in Chain, Distance(i) <= k + 1 PROVE i \in Pool!Reach[k + 1]
    <3>1. p_head # POOL_SIZE /\ i \in Pool!Items /\ Distance(i) <= Distance(p_tail)
      BY DEF Chain
    <3>2. CASE Distance(i) <= k
      BY Zenon, <2>1, <2>3, <3>2
    <3>3. CASE Distance(i) > k
      <4>1. Distance(i) = k + 1 /\ i # p_head
        BY <1>1, <2>5, <3>1, <3>3, Distances
      <4>2. PICK j \in Pool!Items : Behind(j) = i /\ Distance(i) = Distance(j) + 1
        BY <1>1, <3>1, <4>1, Distances
      <4>3. Distance(j) \in Nat /\ Distance(j) = k
        BY <1>1, <3>1, <4>1, <4>2, Distances
      <4>4. p_tail \in Pool!Items /\ Distance(p_tail) \in Nat
        BY <1>1, <3>1, Distances DEF PoolInv, Pool!TypeOK, Pool!Null
      <4>5. Distance(j) < Distance(p_tail)
        BY <3>1, <4>1, <4>3, <4>4
      <4>6. j \in Chain
        BY <3>1, <4>3, <4>4, <4>5 DEF Chain
      <4>7. j \in Pool!Reach[k]
        BY <2>1, <4>3, <4>6
      <4>8. p_link[j] = i
        BY <3>1, <4>2, <4>5 DEF PoolInv
      <4>9. i # POOL_SIZE
        BY <1>1, <3>1 DEF Pool!Items
      <4>10. QED BY <2>3, <4>7, <4>8, <4>9
    <3>4. QED
      <4>1. Distance(i) \in Nat
        BY <1>1, <3>1, Distances
      <4>2. QED BY <3>2, <3>3, <4>1
  <2>6. QED BY <2>4, <2>5
<1>7. POOL_SIZE \in T
  <2> HIDE DEF T
  <2>1. \A n \in Nat : n \in T
    BY <1>5, <1>6, NaturalInduction
  <2>2. QED BY <1>1, <2>1
<1>8. \A i \in Chain : Distance(i) <= POOL_SIZE
  BY <1>1, Distances DEF Chain
<1>9. QED BY <1>7, <1>8 DEF Pool!Queued

LEMMA ChainIsOne == ASSUME PoolInv PROVE Pool!ListIsChain
<1>1. Pool!TypeOK /\ POOL_SIZE \in Nat \ {0} /\ Pool!Queued = Chain
  BY DemosAssumption, ChainIsQueued DEF DemosAssumption, PoolInv
<1>2. p_head = POOL_SIZE <=> p_tail = POOL_SIZE
  BY DEF PoolInv
<1>3. p_tail # POOL_SIZE => p_tail \in Chain /\ p_link[p_tail] = POOL_SIZE
  <2>1. ASSUME p_tail # POOL_SIZE PROVE p_tail \in Pool!Items /\ Distance(p_tail) \in Nat
    BY <1>1, <1>2, <2>1, Distances DEF Pool!TypeOK, Pool!Null
  <2>2. QED BY <1>2, <2>1 DEF Chain, PoolInv
<1>4. ASSUME NEW i \in Chain, p_link[i] # POOL_SIZE PROVE p_link[i] # p_head
  <2>1. p_head # POOL_SIZE /\ i \in Pool!Items /\ Distance(i) <= Distance(p_tail)
    BY DEF Chain
  <2>2. p_tail \in Pool!Items /\ Distance(p_tail) \in 0 .. POOL_SIZE - 1 /\ Distance(i) \in Nat
    BY <1>1, <1>2, <2>1, Distances DEF Pool!TypeOK, Pool!Null
  <2>3. i # p_tail
    BY <1>4, <2>1 DEF PoolInv
  <2>4. Distance(i) < Distance(p_tail)
    BY <1>1, <2>1, <2>2, <2>3, Distances
  <2>5. p_link[i] = Behind(i)
    BY <2>1, <2>4 DEF PoolInv
  <2>6. Behind(i) # p_head
    BY <1>1, <2>1, <2>2, <2>4, Distances
  <2>7. QED BY <2>5, <2>6
<1>5. QED BY <1>1, <1>2, <1>3, <1>4 DEF Pool!ListIsChain, Pool!Null

LEMMA PoolInit == Init => PoolInv
<1> SUFFICES ASSUME Pool!Init PROVE PoolInv
  BY DEF Init
<1>1. Pool!TypeOK
  <2>1. p_timer \in [{"producer", "consumer"} -> 0 .. 5 + Slack["pool"]]
    BY DemosAssumption DEF DemosAssumption, Sleepers, Pool!Init
  <2>2. p_index \in Pool!Items
    BY DemosAssumption DEF DemosAssumption, Pool!Init, Pool!Items
  <2>3. QED BY <2>1, <2>2 DEF Pool!Init, Pool!TypeOK, Pool!Null
<1>2. p_head = POOL_SIZE /\ p_tail = POOL_SIZE
  BY DEF Pool!Init, Pool!Null
<1>3. QED BY <1>1, <1>2 DEF PoolInv

LEMMA PoolSleep ==
  ASSUME Pool!TypeOK, NEW t \in {"producer", "consumer"}, NEW n \in 0 .. 5,
         Pool!Sleep(t, n)
  PROVE  p_timer' \in [{"producer", "consumer"} -> 0 .. 5 + Slack["pool"]]
<1>1. PICK late \in 0 .. Slack["pool"] : p_timer' = [p_timer EXCEPT ![t] = n + late]
  BY DEF Pool!Sleep
<1>2. n + late \in 0 .. 5 + Slack["pool"]
  BY DemosAssumption DEF DemosAssumption, Sleepers
<1>3. QED BY <1>1, <1>2 DEF Pool!TypeOK

LEMMA PoolPut == ASSUME 2 <= POOL_SIZE PROVE PoolInv /\ Pool!Put => PoolInv'
<1> SUFFICES ASSUME PoolInv, Pool!Put PROVE PoolInv'
  OBVIOUS
<1>1. POOL_SIZE \in Nat /\ Pool!TypeOK
  BY DemosAssumption DEF DemosAssumption, PoolInv
<1>2. p_timer' \in [{"producer", "consumer"} -> 0 .. 5 + Slack["pool"]]
  BY <1>1, PoolSleep DEF Pool!Put
<1>3. p_tail' = p_index /\ p_index \in Pool!Items /\ p_index # POOL_SIZE
  BY <1>1 DEF Pool!Put, Pool!AppendItem, Pool!TypeOK, Pool!Items
<1>4. p_index' = Behind(p_index)
  <2>1. p_index' = (p_index + 1) % POOL_SIZE
    BY DEF Pool!Put
  <2>2. CASE p_index = POOL_SIZE - 1
    <3>1. POOL_SIZE % POOL_SIZE = 0
      BY <1>1
    <3>2. p_index + 1 = POOL_SIZE
      BY <1>1, <2>2
    <3>3. QED BY <2>1, <2>2, <3>1, <3>2 DEF Behind
  <2>3. CASE p_index # POOL_SIZE - 1
    <3>1. p_index + 1 \in 0 .. POOL_SIZE - 1
      BY <1>1, <1>3, <2>3 DEF Pool!Items
    <3>2. (p_index + 1) % POOL_SIZE = p_index + 1
      BY <1>1, <3>1
    <3>3. QED BY <2>1, <2>3, <3>2 DEF Behind
  <2>4. QED BY <2>2, <2>3
<1>5. Behind(p_index) \in Pool!Items
  BY <1>1, <1>3 DEF Behind, Pool!Items
<1>6. p_reput' \in BOOLEAN
  BY DEF Pool!Put
<1>7. CASE p_tail = POOL_SIZE
  <2>1. p_head = POOL_SIZE /\ p_head' = p_index /\ p_link' = [p_link EXCEPT ![p_index] = POOL_SIZE]
    BY <1>7 DEF PoolInv, Pool!Put, Pool!AppendItem, Pool!Null
  <2>2. Pool!TypeOK'
    BY <1>1, <1>2, <1>3, <1>4, <1>5, <1>6, <2>1 DEF Pool!TypeOK, Pool!Null
  <2>3. p_link'[p_tail'] = POOL_SIZE
    BY <1>1, <1>3, <2>1 DEF Pool!TypeOK
  <2>4. \A i \in Pool!Items : ~(Distance(i)' < Distance(p_tail)')
    BY <1>1, <1>3, <2>1 DEF Distance, Pool!Items
  <2>5. QED BY <1>3, <1>4, <2>1, <2>2, <2>3, <2>4 DEF PoolInv
<1>8. CASE p_tail # POOL_SIZE
  <2>1. /\ p_head # POOL_SIZE /\ p_head' = p_head /\ p_head \in Pool!Items
        /\ p_tail \in Pool!Items /\ Behind(p_tail) = p_index
        /\ p_link' = [p_link EXCEPT ![p_index] = POOL_SIZE, ![p_tail] = p_index]
    BY <1>1, <1>8 DEF PoolInv, Pool!Put, Pool!AppendItem, Pool!Null, Pool!TypeOK
  <2>2. p_tail # p_index
    BY <1>1, <2>1 DEF Behind, Pool!Items
  <2>3. Pool!TypeOK'
    BY <1>1, <1>2, <1>3, <1>4, <1>5, <1>6, <2>1 DEF Pool!TypeOK, Pool!Null
  <2>4. /\ p_link'[p_index] = POOL_SIZE /\ p_link'[p_tail] = p_index
        /\ \A i \in Pool!Items : i # p_index /\ i # p_tail => p_link'[i] = p_link[i]
    BY <1>1, <1>3, <2>1, <2>2 DEF Pool!TypeOK
  <2>5. \A i \in Pool!Items : Distance(i)' = Distance(i) /\ Distance(i) \in Nat
    BY <1>1, <2>1, Distances DEF Distance
  <2>6. Distance(p_tail)' = Distance(p_index)
    BY <1>3, <2>1 DEF Distance
  <2>7. ASSUME NEW i \in Pool!Items, Distance(i) < Distance(p_index)
        PROVE  p_link'[i] = Behind(i)
    <3>1. p_index # p_head /\ i # p_index
      BY <1>1, <1>3, <2>1, <2>5, <2>7, Distances
    <3>2. Distance(p_index) = Distance(p_tail) + 1
      BY <1>1, <2>1, <3>1, Distances
    <3>3. CASE i = p_tail
      BY <2>1, <2>4, <3>3
    <3>4. CASE i # p_tail
      <4>1. Distance(i) # Distance(p_tail)
        BY <1>1, <2>1, <3>4, Distances
      <4>2. Distance(i) < Distance(p_tail)
        BY <2>1, <2>5, <2>7, <3>2, <4>1
      <4>3. p_link[i] = Behind(i)
        BY <2>1, <4>2 DEF PoolInv
      <4>4. QED BY <2>4, <3>1, <3>4, <4>3
    <3>5. QED BY <3>3, <3>4
  <2>8. \A i \in Pool!Items : Distance(i)' < Distance(p_tail)' => p_link'[i] = Behind(i)
    BY Zenon, <2>5, <2>6, <2>7
  <2>9. QED BY <1>3, <1>4, <2>1, <2>3, <2>4, <2>8 DEF PoolInv
<1>9. QED BY <1>7, <1>8

LEMMA PoolGet == PoolInv /\ Pool!Get => PoolInv'
<1> SUFFICES ASSUME PoolInv, Pool!Get PROVE PoolInv'
  OBVIOUS
<1>1. POOL_SIZE \in Nat \ {0} /\ Pool!TypeOK
  BY DemosAssumption DEF DemosAssumption, PoolInv
<1>2. p_timer' \in [{"producer", "consumer"} -> 0 .. 5 + Slack["pool"]]
  BY <1>1, PoolSleep DEF Pool!Get
<1>3. /\ p_head # POOL_SIZE /\ p_head \in Pool!Items /\ p_tail \in Pool!Items
      /\ p_head' = p_link[p_head] /\ p_index' = p_index /\ p_link' = p_link
      /\ p_reput' = p_reput
      /\ p_tail' = IF p_link[p_head] = POOL_SIZE THEN POOL_SIZE ELSE p_tail
      /\ p_tail # POOL_SIZE
  BY <1>1 DEF PoolInv, Pool!Get, Pool!ReadyToGet, Pool!TypeOK, Pool!Null
<1>4. Pool!TypeOK'
  BY <1>1, <1>2, <1>3 DEF Pool!TypeOK, Pool!Null
<1>5. CASE p_link[p_head] = POOL_SIZE
  BY <1>3, <1>4, <1>5 DEF PoolInv
<1>6. CASE p_link[p_head] # POOL_SIZE
  <2>1. p_head # p_tail
    BY <1>3, <1>6 DEF PoolInv
  <2>2. Distance(p_head) = 0 /\ Distance(p_tail) \in Nat /\ Distance(p_tail) # 0
    BY <1>1, <1>3, <2>1, Distances
  <2>3. p_head' = Behind(p_head) /\ p_head' # POOL_SIZE /\ p_tail' = p_tail
    BY <1>3, <1>6, <2>2 DEF PoolInv
  <2>4. \A i \in Pool!Items : i # p_head => Distance(i)' = Distance(i) - 1 /\ Distance(i) \in Nat
    BY <1>1, <1>3, <2>3, Distances DEF Distance, Behind, Pool!Items
  <2>5. \A h \in Pool!Items : h = p_head => Distance(h)' = POOL_SIZE - 1
    BY <1>1, <1>3, <2>3 DEF Distance, Behind, Pool!Items
  <2>6. Distance(p_tail)' = Distance(p_tail) - 1 /\ Distance(p_tail) <= POOL_SIZE - 1
    BY <1>1, <1>3, <2>1, <2>3, <2>4, Distances
  <2>7. ASSUME NEW i \in Pool!Items, Distance(i)' < Distance(p_tail)'
        PROVE  p_link'[i] = Behind(i)
    <3>1. i # p_head
      <4>1. ASSUME i = p_head PROVE FALSE
        <5>1. Distance(i)' = POOL_SIZE - 1
          BY <2>5, <4>1
        <5>2. QED BY <1>1, <2>2, <2>6, <2>7, <5>1
      <4>2. QED BY <4>1
    <3>2. Distance(i) < Distance(p_tail)
      BY <2>2, <2>4, <2>6, <2>7, <3>1
    <3>3. QED BY <1>3, <3>2 DEF PoolInv
  <2>8. QED BY <1>3, <1>4, <2>3, <2>7 DEF PoolInv
<1>7. QED BY <1>5, <1>6

LEMMA PoolStep == ASSUME 2 <= POOL_SIZE PROVE PoolInv /\ Pool!Next => PoolInv'
<1>1. ASSUME PoolInv, Pool!Tick PROVE PoolInv'
  <2>1. p_timer' \in [{"producer", "consumer"} -> 0 .. 5 + Slack["pool"]]
    BY <1>1, DemosAssumption DEF DemosAssumption, Sleepers, PoolInv, Pool!Tick,
      Pool!Pass, Pool!TypeOK
  <2>2. /\ p_index' = p_index /\ p_head' = p_head /\ p_tail' = p_tail /\ p_link' = p_link
        /\ p_reput' = p_reput
    BY <1>1 DEF Pool!Tick
  <2>3. Pool!TypeOK'
    BY Zenon, <1>1, <2>1, <2>2 DEF PoolInv, Pool!TypeOK
  <2>4. QED BY <1>1, <2>2, <2>3 DEF PoolInv, Distance
<1>2. QED BY <1>1, PoolPut, PoolGet DEF Pool!Next

LEMMA AllocHolds == Spec => []AllocInv
<1>1. AllocInv /\ [Next]_vars => AllocInv'
  <2>1. ASSUME AllocInv, UNCHANGED allocVars PROVE AllocInv'
    <3>1. a_timer' = a_timer /\ a_used' = a_used /\ a_fifo' = a_fifo /\ a_held' = a_held
      BY <2>1 DEF allocVars
    <3>2. QED BY Zenon, <2>1, <3>1 DEF AllocInv, Alloc!TypeOK, Alloc!HeapAccounted
  <2>2. QED BY <2>1, AllocStep, StepsApart
<1> QED BY AllocInit, <1>1, Behaviour, PTL

\* app36: every cell of the heap that is in use can be reached, and the list of
\* data_fifo is one chain that ends, although items are put while they are in it.
THEOREM FifosAreSound == ASSUME 2 <= POOL_SIZE PROVE Spec => []FifoSound
<1>1. PoolInv /\ [Next]_vars => PoolInv'
  <2>1. ASSUME PoolInv, UNCHANGED poolVars PROVE PoolInv'
    <3>1. /\ p_timer' = p_timer /\ p_index' = p_index /\ p_head' = p_head
          /\ p_tail' = p_tail /\ p_link' = p_link /\ p_reput' = p_reput
      BY <2>1 DEF poolVars
    <3>2. Pool!TypeOK'
      BY Zenon, <2>1, <3>1 DEF PoolInv, Pool!TypeOK
    <3>3. QED BY <2>1, <3>1, <3>2 DEF PoolInv, Distance
  <2>2. QED BY <2>1, PoolStep, StepsApart
<1>2. AllocInv /\ PoolInv => FifoSound
  BY ChainIsOne DEF AllocInv, FifoSound
<1> QED BY AllocHolds, PoolInit, <1>1, <1>2, Behaviour, PTL

-----------------------------------------------------------------------------
(* app39: the pipe. *)

\* All bytes of q are of the message written last.
OfLast(q) == \A i \in 1 .. Len(q) : q[i] = i_number

PipeHarmless == IF i_example = 1 THEN ~i_greedy ELSE i_behind = "nothing"

\* Example 1: when a message comes, a reader that has nothing waits for it.
PipeTaken ==
  /\ i_pipe = <<>>
  /\ i_timer["writer"] = 0 => i_waiting /\ i_buf = <<>>

\* Example 2: when a command comes, nothing is left of the one before it; and
\* what is in the pipe fills the buffer for all the reads until the reset.
PipeFills ==
  /\ i_resets \in 0 .. 2
  /\ i_timer["writer"] = 0 => i_pipe = <<>> /\ i_buf = <<>>
  /\ i_waiting =>
       \/ i_buf = <<>> /\ i_pipe = <<>>
       \/ Len(i_buf) = 8 /\ Len(i_pipe) >= 8 * (2 - i_resets)
  /\ ~i_waiting => i_pipe = <<>> \/ Len(i_pipe) >= 8 * (3 - i_resets)

PipeInv ==
  /\ Pipe!TypeOK
  /\ ~i_waiting => i_buf = <<>>
  /\ PipeHarmless =>
       /\ OfLast(i_pipe) /\ OfLast(i_buf)
       /\ i_example = 1 => PipeTaken
       /\ i_example = 2 => PipeFills
       /\ \A i \in 1 .. Len(i_got) : i_got[i] = i_got[1]

Messages == 0 .. Numbers - 1

LEMMA PipeTypes ==
  ASSUME PipeInv
  PROVE  /\ i_example \in {1, 2} /\ i_greedy \in BOOLEAN /\ i_waiting \in BOOLEAN
         /\ i_behind \in {"nothing", "reset_count"}
         /\ i_timer \in [{"writer", "reader"} -> 0 .. 5 + Slack["pipe"]]
         /\ i_number \in Messages /\ i_resets \in Nat
         /\ i_pipe \in Seq(Messages) /\ i_buf \in Seq(Messages) /\ i_got \in Seq(Messages)
         /\ Len(i_pipe) \in 0 .. Pipe!PipeSize /\ Len(i_buf) \in 0 .. Pipe!BufSize
         /\ Len(i_got) <= Pipe!BufSize
         /\ Slack["pipe"] \in Nat /\ Numbers \in Nat \ {0}
<1>1. /\ i_pipe \in Seq(Messages) /\ i_buf \in Seq(Messages) /\ i_got \in Seq(Messages)
  BY DEF PipeInv, Pipe!TypeOK, Messages
<1>2. Len(i_pipe) \in Nat /\ Len(i_buf) \in Nat
  BY <1>1
<1>3. Slack["pipe"] \in Nat /\ Numbers \in Nat \ {0}
  BY DemosAssumption DEF DemosAssumption, Sleepers
<1>4. Pipe!PipeSize \in Nat /\ Pipe!BufSize \in Nat
  BY DEF Pipe!PipeSize, Pipe!BufSize
<1>5. QED BY <1>1, <1>2, <1>3, <1>4 DEF PipeInv, Pipe!TypeOK, Messages, Pipe!Timeout

\* q and n bytes of message x behind it.
Longer(q, r, n, x) ==
  /\ r \in Seq(Messages) /\ Len(r) = Len(q) + n
  /\ q = <<>> => \A i \in 1 .. Len(r) : r[i] = x

LEMMA Lengthens ==
  ASSUME NEW q \in Seq(Messages), NEW n \in Nat, NEW x \in Messages
  PROVE  Longer(q, q \o [i \in 1 .. n |-> x], n, x)
<1> DEFINE t == [i \in 1 .. n |-> x]
<1>1. t \in Seq(Messages) /\ Len(t) = n /\ \A i \in 1 .. n : t[i] = x
  OBVIOUS
<1> HIDE DEF t
<1>2. q \o t \in Seq(Messages) /\ Len(q \o t) = Len(q) + n
  BY <1>1
<1>3. q = <<>> => q \o t = t
  BY <1>1
<1>4. q = <<>> => \A i \in 1 .. Len(q \o t) : (q \o t)[i] = x
  BY <1>1, <1>3
<1>5. Longer(q, q \o t, n, x)
  BY Zenon, <1>2, <1>4 DEF Longer
<1>6. QED BY <1>5 DEF t

LEMMA PipeInit == Init => PipeInv
<1> SUFFICES ASSUME Init PROVE PipeInv
  OBVIOUS
<1>1. /\ i_example \in {1, 2} /\ i_greedy \in BOOLEAN /\ i_behind \in {"nothing", "reset_count"}
      /\ i_timer = [writer |-> Pipe!Period, reader |-> 5] /\ i_number = 0
      /\ i_pipe = <<>> /\ i_buf = <<>> /\ i_waiting = TRUE /\ i_resets = 0 /\ i_got = <<>>
  BY DEF Init, Pipe!Init, Pipe!Timeout
<1>2. Slack["pipe"] \in Nat /\ Numbers \in Nat \ {0}
  BY DemosAssumption DEF DemosAssumption, Sleepers
<1>3. Pipe!Period \in 2 .. 3
  BY DEF Pipe!Period
<1>4. i_timer \in [{"writer", "reader"} -> 0 .. 5 + Slack["pipe"]] /\ i_timer["writer"] \in 2 .. 3
  BY <1>1, <1>2, <1>3
<1>5. Len(i_pipe) = 0 /\ Len(i_buf) = 0 /\ Len(i_got) = 0
  BY <1>1
<1>6. Pipe!TypeOK
  BY <1>1, <1>2, <1>4, <1>5 DEF Pipe!TypeOK, Pipe!Timeout, Pipe!PipeSize, Pipe!BufSize
<1>7. OfLast(i_pipe) /\ OfLast(i_buf) /\ \A i \in 1 .. Len(i_got) : i_got[i] = i_got[1]
  BY <1>5 DEF OfLast
<1>8. PipeTaken /\ PipeFills
  BY <1>1, <1>4 DEF PipeTaken, PipeFills
<1>9. QED BY Zenon, <1>1, <1>6, <1>7, <1>8 DEF PipeInv

LEMMA PipeWrite == PipeInv /\ Pipe!Write => PipeInv'
<1> SUFFICES ASSUME PipeInv, Pipe!Write PROVE PipeInv'
  OBVIOUS
<1> DEFINE n1 == Pipe!ForReader
           room == Pipe!PipeSize - Len(i_pipe)
           n2 == Pipe!Least(Pipe!MessageSize - n1, room)
<1>1. /\ i_timer["writer"] = 0
      /\ i_number' = (i_number + 1) % Numbers
      /\ i_buf' = i_buf \o [i \in 1 .. n1 |-> i_number']
      /\ i_pipe' = i_pipe \o [i \in 1 .. n2 |-> i_number']
      /\ \E late \in 0 .. Slack["pipe"] :
            i_timer' = [i_timer EXCEPT !["writer"] = Pipe!Period + late]
      /\ i_example' = i_example /\ i_greedy' = i_greedy /\ i_behind' = i_behind
      /\ i_waiting' = i_waiting /\ i_resets' = i_resets /\ i_got' = i_got
  BY DEF Pipe!Write, Pipe!Awake, Pipe!Sleep
<1>2. i_number' \in Messages
  BY SMTT(30), <1>1, PipeTypes DEF Messages
<1>3. /\ i_timer' \in [{"writer", "reader"} -> 0 .. 5 + Slack["pipe"]] /\ i_timer'["writer"] # 0
  BY <1>1, PipeTypes DEF Pipe!Period
<1>4. /\ n1 \in 0 .. Pipe!BufSize - Len(i_buf) /\ n1 \in 0 .. Pipe!MessageSize
      /\ i_waiting /\ i_pipe = <<>> /\ i_buf = <<>> =>
           n1 = Pipe!Least(Pipe!MessageSize, Pipe!BufSize)
      /\ ~i_waiting => n1 = 0
  <2>1. i_buf = <<>> => Len(i_buf) = 0
    OBVIOUS
  <2>2. QED BY SMTT(30), <2>1, PipeTypes DEF Pipe!ForReader, Pipe!Least, Pipe!BufSize, Pipe!MessageSize
<1> HIDE DEF n1
<1>5. n2 \in 0 .. room /\ room \in Nat
  BY SMTT(30), <1>4, PipeTypes DEF Pipe!Least, Pipe!PipeSize, Pipe!MessageSize
<1>6. /\ Pipe!PipeSize' = Pipe!PipeSize /\ Pipe!BufSize' = Pipe!BufSize
  BY Zenon, <1>1 DEF Pipe!PipeSize, Pipe!BufSize
<1>7. Longer(i_buf, i_buf', n1, i_number') /\ Longer(i_pipe, i_pipe', n2, i_number')
  <2>1. n1 \in Nat /\ n2 \in Nat
    BY <1>4, <1>5
  <2> HIDE DEF n2
  <2>2. i_buf \in Seq(Messages) /\ i_pipe \in Seq(Messages)
    BY Zenon, PipeTypes
  <2>3. /\ Longer(i_buf, i_buf \o [i \in 1 .. n1 |-> i_number'], n1, i_number')
        /\ Longer(i_pipe, i_pipe \o [i \in 1 .. n2 |-> i_number'], n2, i_number')
    BY <1>2, <2>1, <2>2, Lengthens
  <2>4. QED BY <1>1, <2>3
<1>8. Pipe!TypeOK'
  <2> HIDE DEF n2
  <2>1. i_buf' \in Seq(Messages) /\ i_pipe' \in Seq(Messages)
    BY Zenon, <1>7 DEF Longer
  <2>2. Len(i_buf') <= Pipe!BufSize
    <3>1. Len(i_buf') = Len(i_buf) + n1
      BY Zenon, <1>7 DEF Longer
    <3>2. QED BY <1>4, <3>1, PipeTypes DEF Pipe!BufSize
  <2>3. Len(i_pipe') <= Pipe!PipeSize
    <3>1. Len(i_pipe') = Len(i_pipe) + n2
      BY Zenon, <1>7 DEF Longer
    <3>2. QED BY <1>5, <3>1, PipeTypes DEF Pipe!PipeSize
  <2>4. 0 .. Pipe!Timeout + Slack["pipe"] = 0 .. 5 + Slack["pipe"]
    BY DEF Pipe!Timeout
  <2>5. QED BY Zenon, <1>1, <1>2, <1>3, <1>6, <2>1, <2>2, <2>3, <2>4, PipeTypes DEF Pipe!TypeOK, Messages, Pipe!Timeout
<1>9. ~i_waiting' => i_buf' = <<>>
  <2> HIDE DEF n2
  <2>1. ASSUME ~i_waiting PROVE i_buf' = <<>>
    <3>1. i_buf = <<>> /\ n1 = 0
      BY Zenon, <1>4, <2>1 DEF PipeInv
    <3>2. i_buf' \in Seq(Messages) /\ Len(i_buf') = Len(i_buf) + 0
      BY Zenon, <1>7, <3>1 DEF Longer
    <3>3. QED BY <3>1, <3>2
  <2>2. QED BY Zenon, <1>1, <2>1
<1>10. ASSUME PipeHarmless
       PROVE  /\ i_pipe = <<>> /\ i_buf = <<>>
              /\ i_example = 1 => i_waiting /\ n1 = 7 /\ n2 = 0
              /\ i_example = 2 => IF i_waiting THEN n1 = 8 /\ n2 = 25 ELSE n1 = 0 /\ n2 = 32
  <2>1. i_pipe = <<>> /\ i_buf = <<>> /\ (i_example = 1 => i_waiting)
    BY Zenon, <1>1, <1>10, PipeTypes DEF PipeInv, PipeTaken, PipeFills
  <2>2. Len(i_pipe) = 0
    BY <2>1
  <2>3. QED BY <1>4, <2>1, <2>2, PipeTypes DEF Pipe!Least, Pipe!MessageSize, Pipe!BufSize, Pipe!PipeSize
<1> HIDE DEF n2
<1>11. ASSUME PipeHarmless
       PROVE  /\ Len(i_buf') = n1 /\ Len(i_pipe') = n2 /\ i_pipe' \in Seq(Messages)
              /\ \A i \in 1 .. Len(i_buf') : i_buf'[i] = i_number'
              /\ \A i \in 1 .. Len(i_pipe') : i_pipe'[i] = i_number'
  <2>1. /\ Len(i_buf') = Len(i_buf) + n1 /\ Len(i_pipe') = Len(i_pipe) + n2
        /\ i_pipe' \in Seq(Messages)
    BY Zenon, <1>7 DEF Longer
  <2>2. n1 \in Nat /\ n2 \in Nat /\ Len(i_buf) = 0 /\ Len(i_pipe) = 0
    BY <1>4, <1>5, <1>10, <1>11
  <2>3. Len(i_buf') = n1 /\ Len(i_pipe') = n2
    BY <2>1, <2>2
  <2>4. QED BY Zenon, <1>7, <1>10, <1>11, <2>1, <2>3 DEF Longer
<1>12. ASSUME PipeHarmless, i_example = 1 PROVE PipeTaken'
  BY <1>3, <1>10, <1>11, <1>12 DEF PipeTaken
<1>13. ASSUME PipeHarmless, i_example = 2 PROVE PipeFills'
  <2>1. i_resets \in 0 .. 2
    BY Zenon, <1>13 DEF PipeInv, PipeFills
  <2>2. i_waiting \in BOOLEAN
    BY PipeTypes
  <2>3. /\ i_waiting => Len(i_buf') = 8 /\ Len(i_pipe') = 25
        /\ ~i_waiting => Len(i_pipe') = 32
    BY Zenon, <1>10, <1>11, <1>13
  <2>4. \A r \in 0 .. 2 : 25 >= 8 * (2 - r) /\ 32 >= 8 * (3 - r)
    OBVIOUS
  <2>5. i_waiting' => Len(i_buf') = 8 /\ Len(i_pipe') >= 8 * (2 - i_resets')
    BY Zenon, <1>1, <2>1, <2>3, <2>4
  <2>6. ~i_waiting' => Len(i_pipe') >= 8 * (3 - i_resets')
    <3>1. 32 >= 8 * (3 - i_resets)
      BY <2>1
    <3>2. 32 >= 8 * (3 - i_resets')
      BY Zenon, <1>1, <3>1
    <3>3. ~i_waiting' => Len(i_pipe') = 32
      BY Zenon, <1>1, <2>3
    <3>4. QED BY Zenon, <3>2, <3>3
  <2>7. i_resets' \in 0 .. 2 /\ i_timer'["writer"] # 0
    BY Zenon, <1>1, <1>3, <2>1
  <2>8. QED BY Zenon, <2>5, <2>6, <2>7 DEF PipeFills
<1>14. PipeHarmless' = PipeHarmless
  BY Zenon, <1>1 DEF PipeHarmless
<1>15. QED BY Zenon, <1>1, <1>8, <1>9, <1>11, <1>12, <1>13, <1>14 DEF PipeInv, OfLast
LEMMA PipeRead == PipeInv /\ Pipe!Read => PipeInv'
<1> SUFFICES ASSUME PipeInv, Pipe!Read PROVE PipeInv'
  OBVIOUS
<1> DEFINE n == Pipe!Least(Pipe!BufSize, Len(i_pipe))
<1>1. /\ ~i_waiting /\ i_waiting' = TRUE
      /\ i_buf' = SubSeq(i_pipe, 1, n) /\ i_pipe' = SubSeq(i_pipe, n + 1, Len(i_pipe))
      /\ i_timer' = [i_timer EXCEPT !["reader"] = 5]
      /\ i_example' = i_example /\ i_greedy' = i_greedy /\ i_behind' = i_behind
      /\ i_number' = i_number /\ i_resets' = i_resets /\ i_got' = i_got
  BY DEF Pipe!Read, Pipe!Timeout
<1>2. PICK m \in Nat : m = n /\ m <= Len(i_pipe) /\ m <= Pipe!BufSize
                      /\ (m = Len(i_pipe) \/ m = Pipe!BufSize)
  BY PipeTypes DEF Pipe!Least, Pipe!BufSize
<1>3. /\ i_buf' = SubSeq(i_pipe, 1, m) /\ i_pipe' = SubSeq(i_pipe, m + 1, Len(i_pipe))
  BY Zenon, <1>1, <1>2
<1> HIDE DEF n
<1>4. /\ i_buf' \in Seq(Messages) /\ Len(i_buf') = m
      /\ \A i \in 1 .. m : i_buf'[i] = i_pipe[i] /\ i \in 1 .. Len(i_pipe)
      /\ i_pipe' \in Seq(Messages) /\ Len(i_pipe') = Len(i_pipe) - m
      /\ \A i \in 1 .. Len(i_pipe') : i_pipe'[i] = i_pipe[m + i] /\ m + i \in 1 .. Len(i_pipe)
  <2>1. PICK q \in Seq(Messages) : q = i_pipe
    BY Zenon, PipeTypes
  <2>2. Len(q) \in Nat /\ m <= Len(q) /\ \A i \in 1 .. Len(q) : q[i] \in Messages
    BY <1>2, <2>1
  <2>3. /\ SubSeq(q, 1, m) \in Seq(Messages) /\ Len(SubSeq(q, 1, m)) = m
        /\ \A i \in 1 .. m : SubSeq(q, 1, m)[i] = q[i] /\ i \in 1 .. Len(q)
    BY <2>2
  <2>4. /\ SubSeq(q, m + 1, Len(q)) \in Seq(Messages)
        /\ Len(SubSeq(q, m + 1, Len(q))) = Len(q) - m
        /\ \A i \in 1 .. Len(q) - m : SubSeq(q, m + 1, Len(q))[i] = q[m + i] /\ m + i \in 1 .. Len(q)
    BY <2>2
  <2>5. QED BY Zenon, <1>3, <2>1, <2>3, <2>4
<1>5. i_timer' \in [{"writer", "reader"} -> 0 .. 5 + Slack["pipe"]]
      /\ i_timer'["writer"] = i_timer["writer"]
  BY <1>1, PipeTypes
<1>6. /\ Pipe!PipeSize' = Pipe!PipeSize /\ Pipe!BufSize' = Pipe!BufSize
  BY Zenon, <1>1 DEF Pipe!PipeSize, Pipe!BufSize
<1>7. Pipe!TypeOK'
  <2>1. Len(i_buf') <= Pipe!BufSize
    BY Zenon, <1>2, <1>4
  <2>2. Len(i_pipe') <= Pipe!PipeSize
    BY <1>2, <1>4, PipeTypes DEF Pipe!PipeSize
  <2>3. 0 .. Pipe!Timeout + Slack["pipe"] = 0 .. 5 + Slack["pipe"]
    BY DEF Pipe!Timeout
  <2>4. QED BY Zenon, <1>1, <1>4, <1>5, <1>6, <2>1, <2>2, <2>3, PipeTypes DEF Pipe!TypeOK, Messages, Pipe!Timeout
<1>8. ASSUME PipeHarmless PROVE OfLast(i_pipe)' /\ OfLast(i_buf)'
  <2>1. \A i \in 1 .. Len(i_pipe) : i_pipe[i] = i_number'
    BY Zenon, <1>1, <1>8 DEF PipeInv, OfLast
  <2>2. \A i \in 1 .. Len(i_buf') : i_buf'[i] = i_number'
    BY Zenon, <1>4, <2>1
  <2>3. \A i \in 1 .. Len(i_pipe') : i_pipe'[i] = i_number'
    BY Zenon, <1>4, <2>1
  <2>4. QED BY Zenon, <2>2, <2>3 DEF OfLast
<1>9. ASSUME PipeHarmless, i_example = 1 PROVE PipeTaken'
  <2>1. i_pipe = <<>> /\ i_timer["writer"] # 0
    BY Zenon, <1>1, <1>9 DEF PipeInv, PipeTaken
  <2>2. Len(i_pipe) = 0
    BY <2>1
  <2>3. i_pipe' = <<>>
    BY <1>2, <1>4, <2>2
  <2>4. QED BY Zenon, <1>5, <2>1, <2>3 DEF PipeTaken
<1>10. ASSUME PipeHarmless, i_example = 2 PROVE PipeFills'
  <2>1. i_resets \in 0 .. 2 /\ (i_timer["writer"] = 0 => i_pipe = <<>>)
        /\ (i_pipe = <<>> \/ Len(i_pipe) >= 8 * (3 - i_resets))
    BY Zenon, <1>1, <1>10 DEF PipeInv, PipeFills
  <2>2. i_pipe = <<>> => i_pipe' = <<>> /\ i_buf' = <<>>
    <3>1. i_pipe = <<>> => Len(i_pipe) = 0
      OBVIOUS
    <3>2. QED BY <1>2, <1>4, <3>1
  <2>3. i_pipe # <<>> => Len(i_buf') = 8 /\ Len(i_pipe') >= 8 * (2 - i_resets)
    <3>1. Pipe!BufSize = 8
      BY <1>10 DEF Pipe!BufSize
    <3>2. PICK r \in 0 .. 2, l \in Nat : r = i_resets /\ l = Len(i_pipe)
      BY <2>1, PipeTypes
    <3>3. l >= 8 * (3 - r) /\ (m = l \/ m = 8) /\ m <= 8
           => m = 8 /\ l - m >= 8 * (2 - r)
      BY <1>2
    <3>4. QED BY Zenon, <1>2, <1>4, <2>1, <3>1, <3>2, <3>3
  <2>4. QED BY Zenon, <1>1, <1>5, <2>1, <2>2, <2>3 DEF PipeFills
<1>11. PipeHarmless' = PipeHarmless
  BY Zenon, <1>1 DEF PipeHarmless
<1>12. QED BY Zenon, <1>1, <1>7, <1>8, <1>9, <1>10, <1>11 DEF PipeInv

LEMMA PipeReturn == PipeInv /\ Pipe!Return => PipeInv'
<1> SUFFICES ASSUME PipeInv, Pipe!Return PROVE PipeInv'
  OBVIOUS
<1> DEFINE counted ==
      (IF i_behind = "reset_count" /\ Len(i_buf) = Pipe!BufSize THEN 0 ELSE i_resets) + 1
<1>1. /\ i_waiting /\ i_got' = i_buf /\ i_buf' = <<>> /\ i_waiting' = FALSE
      /\ IF i_example = 2 /\ counted = 3
           THEN i_pipe' = <<>> /\ i_resets' = 0
           ELSE /\ i_resets' = IF i_example = 2 THEN counted ELSE 0
                /\ i_pipe' = i_pipe
      /\ i_example' = i_example /\ i_greedy' = i_greedy /\ i_behind' = i_behind
      /\ i_timer' = i_timer /\ i_number' = i_number
  BY DEF Pipe!Return, Pipe!CanReturn, Pipe!ResetAt
<1>2. counted \in Nat
  BY PipeTypes
<1>3. i_behind = "nothing" => counted = i_resets + 1
  BY PipeTypes
<1> HIDE DEF counted
<1>4. /\ Pipe!PipeSize' = Pipe!PipeSize /\ Pipe!BufSize' = Pipe!BufSize
      /\ Pipe!PipeSize \in Nat /\ Pipe!BufSize \in Nat /\ Len(<<>>) = 0
  BY <1>1 DEF Pipe!PipeSize, Pipe!BufSize
<1>5. i_pipe' \in Seq(Messages) /\ Len(i_pipe') <= Pipe!PipeSize /\ i_resets' \in Nat
  <2>1. <<>> \in Seq(Messages) /\ 0 <= Pipe!PipeSize /\ Len(i_pipe) <= Pipe!PipeSize
    BY <1>4, PipeTypes
  <2>2. 0 \in Nat /\ i_pipe \in Seq(Messages)
    BY PipeTypes
  <2>3. QED BY Zenon, <1>1, <1>2, <1>4, <2>1, <2>2
<1>6. Pipe!TypeOK'
  <2>1. 0 <= Pipe!BufSize /\ Len(i_buf) <= Pipe!BufSize /\ <<>> \in Seq(0 .. Numbers - 1)
    BY <1>4, PipeTypes
  <2>2. FALSE \in BOOLEAN
    OBVIOUS
  <2>3. QED BY Zenon, <1>1, <1>4, <1>5, <2>1, <2>2 DEF PipeInv, Pipe!TypeOK, Messages, Pipe!Timeout
<1>7. ASSUME PipeHarmless
      PROVE  OfLast(i_pipe)' /\ OfLast(i_buf)' /\ \A i \in 1 .. Len(i_got') : i_got'[i] = i_got'[1]
  <2>1. OfLast(i_pipe) /\ OfLast(i_buf)
    BY Zenon, <1>7 DEF PipeInv
  <2>2. \A i \in 1 .. Len(i_buf) : i_buf[i] = i_buf[1]
    <3>1. ASSUME NEW i \in 1 .. Len(i_buf) PROVE i_buf[i] = i_buf[1]
      <4>1. 1 \in 1 .. Len(i_buf)
        BY <3>1, PipeTypes
      <4>2. QED BY Zenon, <2>1, <3>1, <4>1 DEF OfLast
    <3>2. QED BY Zenon, <3>1
  <2>3. \A i \in 1 .. Len(<<>>) : FALSE
    BY <1>4
  <2>4. QED BY Zenon, <1>1, <2>1, <2>2, <2>3 DEF OfLast
<1>8. ASSUME PipeHarmless, i_example = 1 PROVE PipeTaken'
  <2>1. i_pipe = <<>> /\ i_buf # <<>>
    <3>1. i_buf = <<>> => Len(i_buf) # Pipe!BufSize
      BY <1>8, <1>4 DEF Pipe!BufSize
    <3>2. Pipe!CanReturn /\ (i_example = 2 => i_example # 1)
      BY DEF Pipe!Return
    <3>3. i_buf # <<>>
      BY Zenon, <1>8, <3>1, <3>2 DEF Pipe!CanReturn, Pipe!TimedOut
    <3>4. QED BY Zenon, <1>8, <3>3 DEF PipeInv, PipeTaken
  <2>2. i_timer["writer"] # 0
    BY Zenon, <1>8, <2>1 DEF PipeInv, PipeTaken
  <2>3. 1 # 2
    OBVIOUS
  <2>4. QED BY Zenon, <1>1, <1>8, <2>1, <2>2, <2>3 DEF PipeTaken
<1>9. ASSUME PipeHarmless, i_example = 2 PROVE PipeFills'
  <2>1. /\ i_resets \in 0 .. 2 /\ counted = i_resets + 1
        /\ (i_timer["writer"] = 0 => i_pipe = <<>>)
        /\ (i_pipe = <<>> \/ Len(i_pipe) >= 8 * (2 - i_resets))
    <3>1. 2 # 1
      OBVIOUS
    <3>2. QED BY Zenon, <1>1, <1>3, <1>9, <3>1 DEF PipeInv, PipeFills, PipeHarmless
  <2>2. CASE counted = 3
    BY <1>1, <1>9, <2>2 DEF PipeFills
  <2>3. CASE counted # 3
    <3>1. i_resets' = counted /\ i_pipe' = i_pipe
      BY Zenon, <1>1, <1>9, <2>3
    <3>2. PICK r \in 0 .. 2, l \in Nat : r = i_resets /\ l = Len(i_pipe)
      BY <2>1, PipeTypes
    <3>3. r + 1 # 3 => r + 1 \in 0 .. 2 /\ 8 * (3 - (r + 1)) = 8 * (2 - r)
      OBVIOUS
    <3>4. QED BY Zenon, <1>1, <2>1, <2>3, <3>1, <3>2, <3>3 DEF PipeFills
  <2>4. QED BY <2>2, <2>3
<1>10. PipeHarmless' = PipeHarmless
  BY Zenon, <1>1 DEF PipeHarmless
<1>11. QED BY Zenon, <1>1, <1>6, <1>7, <1>8, <1>9, <1>10 DEF PipeInv

LEMMA PipeTick == PipeInv /\ Pipe!Tick => PipeInv'
<1> SUFFICES ASSUME PipeInv, Pipe!Tick PROVE PipeInv'
  OBVIOUS
<1>1. /\ i_waiting /\ ~Pipe!CanReturn /\ i_timer["writer"] # 0
      /\ i_timer' = [t \in DOMAIN i_timer |-> IF i_timer[t] > 0 THEN i_timer[t] - 1 ELSE 0]
      /\ i_example' = i_example /\ i_greedy' = i_greedy /\ i_behind' = i_behind
      /\ i_number' = i_number /\ i_pipe' = i_pipe /\ i_buf' = i_buf
      /\ i_waiting' = i_waiting /\ i_resets' = i_resets /\ i_got' = i_got
  BY DEF Pipe!Tick, Pipe!Pass, Pipe!Awake
<1>2. i_timer' \in [{"writer", "reader"} -> 0 .. 5 + Slack["pipe"]]
  BY SMTT(30), <1>1, PipeTypes
<1>3. /\ Pipe!PipeSize' = Pipe!PipeSize /\ Pipe!BufSize' = Pipe!BufSize
      /\ PipeHarmless' = PipeHarmless
  BY Zenon, <1>1 DEF Pipe!PipeSize, Pipe!BufSize, PipeHarmless
<1>4. Pipe!TypeOK'
  <2>1. 0 .. Pipe!Timeout + Slack["pipe"] = 0 .. 5 + Slack["pipe"]
    BY DEF Pipe!Timeout
  <2>2. QED BY Zenon, <1>1, <1>2, <1>3, <2>1 DEF PipeInv, Pipe!TypeOK, Pipe!Timeout
<1>5. ASSUME PipeHarmless PROVE OfLast(i_pipe)' /\ OfLast(i_buf)'
  BY Zenon, <1>1, <1>5 DEF PipeInv, OfLast
<1>6. ASSUME PipeHarmless, i_example = 1 PROVE PipeTaken'
  <2>1. i_pipe = <<>> /\ i_buf = <<>>
    BY Zenon, <1>1, <1>6 DEF PipeInv, PipeTaken, PipeHarmless, Pipe!CanReturn
  <2>2. QED BY Zenon, <1>1, <2>1 DEF PipeTaken
<1>7. ASSUME PipeHarmless, i_example = 2 PROVE PipeFills'
  <2>1. i_pipe = <<>> /\ i_buf = <<>>
    <3>1. Pipe!BufSize = 8
      BY <1>7 DEF Pipe!BufSize
    <3>2. QED BY Zenon, <1>1, <1>7, <3>1 DEF PipeInv, PipeFills, Pipe!CanReturn
  <2>2. QED BY Zenon, <1>1, <1>7, <2>1 DEF PipeInv, PipeFills
<1>8. QED BY Zenon, <1>1, <1>3, <1>4, <1>5, <1>6, <1>7 DEF PipeInv

LEMMA PipeHolds == Spec => []PipeInv
<1>1. PipeInv /\ [Next]_vars => PipeInv'
  <2>1. ASSUME PipeInv, UNCHANGED pipeVars PROVE PipeInv'
    BY <2>1 DEF pipeVars, PipeInv, Pipe!TypeOK, OfLast, PipeHarmless, PipeTaken,
      PipeFills, Pipe!PipeSize, Pipe!BufSize
  <2>2. PipeInv /\ Pipe!Next => PipeInv'
    BY Zenon, PipeWrite, PipeRead, PipeReturn, PipeTick DEF Pipe!Next
  <2>3. QED BY Zenon, <2>1, <2>2, StepsApart
<1> QED BY PipeInit, <1>1, Behaviour, PTL

\* app39: no read returns bytes of two messages, how late the two threads ever
\* wake, in example 1 when a read returns early, and in example 2 when the 0
\* behind the full buffer does not hit reset_count.
THEOREM PipeReadsAreAligned == Spec => []PipeAligned
<1>1. PipeInv => PipeAligned
  <2>1. ASSUME PipeInv PROVE DOMAIN i_got = 1 .. Len(i_got)
    BY <2>1, PipeTypes
  <2>2. QED BY Zenon, <2>1 DEF PipeInv, PipeAligned, Pipe!ReadsAligned, PipeHarmless
<1> QED BY PipeHolds, <1>1, PTL

-----------------------------------------------------------------------------
(* app05: the echo. *)

\* The number of the byte at place i of buffer b: the DMA's buffer holds the
\* last bytes, the other one the BUF_SIZE bytes before.
EchoBase == u_received - u_pos + 1
EchoByte(b, i) == IF b = u_cur THEN EchoBase + i ELSE EchoBase - BUF_SIZE + i

\* Bytes that are still to be transmitted, and the next one that will be.
Sending == u_tx # Echo!Idle
Left == IF Sending THEN u_tx[3] - u_tx[2] ELSE 0
Frontier == IF Sending THEN EchoByte(u_tx[1], u_tx[2]) ELSE EchoBase + u_from

\* The places of the two buffers the program and the DMA are at.
EchoPlaces ==
  /\ u_next = 1 - u_cur /\ u_idx = u_cur
  /\ u_received + u_burst <= MaxBytes /\ u_pos - 1 <= u_received
  /\ u_from <= u_pos /\ u_from <= BUF_SIZE
  /\ \A i \in 1 .. u_pos - 1 : u_buf[u_cur][i] = EchoBase + i

\* What is transmitted is in the buffers, and the DMA is behind it: a buffer is
\* sent in the time the other one takes to fill.
EchoSending ==
  Sending =>
    /\ 1 <= u_tx[2] /\ u_tx[2] < u_tx[3]
    /\ u_tx[1] = u_cur => u_tx[3] <= u_from
    /\ u_tx[1] # u_cur => Left <= BUF_SIZE + 1 - u_pos /\ BUF_SIZE <= EchoBase
    /\ \A i \in u_tx[2] .. u_tx[3] - 1 : u_buf[u_tx[1]][i] = EchoByte(u_tx[1], i)

\* A byte is sent back, dropped, being transmitted, or not reported yet.
EchoCount == u_received = Len(u_echo) + u_dropped + Left + (u_pos - u_from)

EchoOrder ==
  /\ Echo!EchoInOrder
  /\ \A i \in 1 .. Len(u_echo) : u_echo[i] < Frontier

\* The sender waits for its echo, and a line that is idle long enough to be
\* reported has been idle long enough to transmit the end of a buffer.
EchoWaits == u_polite /\ BUF_SIZE <= RxTimeout + 2

\* Then it has sent one burst: its bytes before the end of a buffer are
\* transmitted by the time the line is idle behind the others.
EchoPolite ==
  EchoWaits =>
    /\ u_dropped = 0 /\ u_received + u_burst <= Len(u_echo) + BUF_SIZE
    /\ u_from < u_pos /\ u_gap > 0 => u_burst = 0
    /\ Sending /\ u_tx[1] = u_cur =>
         u_burst = 0 /\ u_from = u_pos /\ u_tx[3] = u_from
    /\ Sending /\ u_tx[1] # u_cur =>
         /\ u_tx[3] = BUF_SIZE + 1 /\ u_from = 1
         /\ u_pos > 1 => Left <= BUF_SIZE - u_pos - u_gap
    /\ \A i \in 1 .. Len(u_echo) : u_echo[i] = i

EchoInv ==
  /\ Echo!TypeOK /\ EchoPlaces /\ EchoSending /\ EchoCount /\ EchoOrder /\ EchoPolite

LEMMA Elements ==
  ASSUME NEW S, NEW q \in Seq(S)
  PROVE  \A i \in 1 .. Len(q) : q[i] \in S
OBVIOUS

LEMMA IsSequence ==
  ASSUME NEW S, NEW T, NEW q \in Seq(T), \A i \in 1 .. Len(q) : q[i] \in S
  PROVE  q \in Seq(S)
OBVIOUS

\* r is q with x behind it, and still in order.
Grown(q, r, x) ==
  /\ r \in Seq(Nat) /\ Len(r) = Len(q) + 1 /\ r[Len(r)] = x
  /\ \A i \in 1 .. Len(q) : r[i] = q[i]
  /\ \A i \in 2 .. Len(r) : r[i - 1] < r[i]
  /\ \A i \in 1 .. Len(r) : r[i] < x + 1

LEMMA Grows ==
  ASSUME NEW q \in Seq(Nat), NEW x \in Nat, \A i \in 1 .. Len(q) : q[i] < x,
         \A i \in 2 .. Len(q) : q[i - 1] < q[i]
  PROVE  Grown(q, Append(q, x), x)
<1> DEFINE r == Append(q, x)
<1>1. /\ r \in Seq(Nat) /\ Len(r) = Len(q) + 1 /\ r[Len(r)] = x /\ Len(q) \in Nat
      /\ \A i \in 1 .. Len(q) : r[i] = q[i] /\ q[i] \in Nat
  OBVIOUS
<1> HIDE DEF r
<1>2. \A i \in 2 .. Len(r) : r[i - 1] < r[i]
  <2>1. ASSUME NEW i \in 2 .. Len(r) PROVE r[i - 1] < r[i]
    <3>1. i - 1 \in 1 .. Len(q) /\ (i \in 2 .. Len(q) \/ i = Len(r))
      BY <1>1
    <3>2. CASE i \in 2 .. Len(q)
      <4>1. i \in 1 .. Len(q)
        BY <1>1, <3>2
      <4>2. QED BY <1>1, <3>1, <3>2, <4>1
    <3>3. CASE i = Len(r)
      BY <1>1, <3>1, <3>3
    <3>4. QED BY <3>1, <3>2, <3>3
  <2>2. QED BY <2>1
<1>3. \A i \in 1 .. Len(r) : r[i] < x + 1
  <2>1. ASSUME NEW i \in 1 .. Len(r) PROVE r[i] < x + 1
    <3>1. i \in 1 .. Len(q) \/ i = Len(r)
      BY <1>1
    <3>2. CASE i \in 1 .. Len(q)
      <4>1. r[i] = q[i] /\ q[i] \in Nat /\ q[i] < x
        BY <1>1, <3>2
      <4>2. QED BY <4>1
    <3>3. CASE i = Len(r)
      BY <1>1, <3>3
    <3>4. QED BY <3>1, <3>2, <3>3
  <2>2. QED BY <2>1
<1>4. Grown(q, r, x)
  BY Zenon, <1>1, <1>2, <1>3 DEF Grown
<1>5. QED BY <1>4 DEF r

LEMMA EchoSizes == BUF_SIZE \in Nat \ {0} /\ RxTimeout \in Nat \ {0} /\ MaxBytes \in Nat
BY DemosAssumption DEF DemosAssumption

LEMMA EchoTypes ==
  ASSUME EchoInv
  PROVE  /\ BUF_SIZE \in Nat \ {0} /\ RxTimeout \in Nat \ {0} /\ MaxBytes \in Nat
         /\ u_burst \in 0 .. BUF_SIZE /\ u_received \in 0 .. MaxBytes
         /\ u_dropped \in 0 .. MaxBytes /\ u_cur \in 0 .. 1 /\ u_next = 1 - u_cur
         /\ u_idx = u_cur /\ u_pos \in 1 .. BUF_SIZE + 1 /\ u_from \in 1 .. BUF_SIZE
         /\ u_from <= u_pos /\ u_gap \in 0 .. RxTimeout
         /\ EchoBase \in Nat /\ EchoBase + u_pos = u_received + 1
         /\ u_received + u_burst <= MaxBytes /\ Len(u_echo) \in Nat
<1>1. Len(u_echo) \in Nat
  BY DEF EchoInv, Echo!TypeOK
<1>2. QED BY <1>1, DemosAssumption DEF DemosAssumption, EchoInv, Echo!TypeOK, EchoPlaces, EchoBase

\* The transmission, place by place.
LEMMA SendingTypes ==
  ASSUME EchoInv, Sending
  PROVE  /\ u_tx[1] \in 0 .. 1 /\ u_tx[2] \in 1 .. BUF_SIZE /\ u_tx[3] \in 2 .. BUF_SIZE + 1
         /\ u_tx[2] < u_tx[3] /\ Left = u_tx[3] - u_tx[2] /\ Left \in Nat \ {0}
         /\ Frontier = EchoByte(u_tx[1], u_tx[2]) /\ Frontier \in 1 .. u_received
         /\ Frontier + Left <= EchoBase + u_from
<1>1. PICK b \in 0 .. 1, p \in 0 .. BUF_SIZE, e \in 0 .. BUF_SIZE + 1 :
         b = u_tx[1] /\ p = u_tx[2] /\ e = u_tx[3]
  BY DEF EchoInv, Echo!TypeOK
<1>2. /\ 1 <= p /\ p < e /\ Left = e - p
      /\ b = u_cur => e <= u_from
      /\ b # u_cur => BUF_SIZE <= EchoBase
  BY Zenon, <1>1 DEF EchoInv, EchoSending, Left
<1>3. p \in 1 .. BUF_SIZE /\ e \in 2 .. BUF_SIZE + 1 /\ Left \in Nat \ {0}
  BY <1>1, <1>2, EchoSizes
<1>4. Frontier = IF b = u_cur THEN EchoBase + p ELSE EchoBase - BUF_SIZE + p
  BY Zenon, <1>1 DEF Frontier, EchoByte
<1>5. PICK B \in Nat, f \in Nat, r \in Nat :
         /\ B = EchoBase /\ f = u_from /\ r = u_received
         /\ 1 <= f /\ f <= BUF_SIZE /\ B + f <= r + 1
  BY SMTT(30), EchoTypes
<1>6. Frontier \in 1 .. u_received /\ Frontier + Left <= EchoBase + u_from
  <2>1. ASSUME b = u_cur PROVE B + p \in 1 .. r /\ (B + p) + (e - p) <= B + f
    <3>1. e <= f
      BY Zenon, <1>2, <1>5, <2>1
    <3>2. QED BY <1>2, <1>3, <1>5, <3>1
  <2>2. ASSUME b # u_cur
        PROVE  (B - BUF_SIZE + p) \in 1 .. r /\ (B - BUF_SIZE + p) + (e - p) <= B + f
    <3>1. BUF_SIZE <= B
      BY Zenon, <1>2, <1>5, <2>2
    <3>2. QED BY <1>2, <1>3, <1>5, <3>1, EchoSizes
  <2>3. QED BY Zenon, <1>2, <1>4, <1>5, <2>1, <2>2
<1>7. Frontier = EchoByte(u_tx[1], u_tx[2])
  BY DEF Frontier
<1>8. QED BY Zenon, <1>1, <1>2, <1>3, <1>6, <1>7

\* The same with names for the buffer, the next place and the end.
SendingIs(b, p, e) == b = u_tx[1] /\ p = u_tx[2] /\ e = u_tx[3]

LEMMA SendingNumbers ==
  ASSUME EchoInv, Sending
  PROVE  \E b \in 0 .. 1, p \in Nat \ {0}, e \in Nat :
           /\ SendingIs(b, p, e) /\ p < e /\ e <= BUF_SIZE + 1 /\ Left = e - p
           /\ Frontier = IF b = u_cur THEN EchoBase + p ELSE EchoBase - BUF_SIZE + p
<1>1. PICK b \in 0 .. 1, p \in 1 .. BUF_SIZE, e \in 2 .. BUF_SIZE + 1 :
         b = u_tx[1] /\ p = u_tx[2] /\ e = u_tx[3] /\ p < e /\ Left = e - p
  BY Zenon, SendingTypes
<1>2. p \in Nat \ {0} /\ e \in Nat /\ e <= BUF_SIZE + 1
  BY EchoSizes
<1>3. Frontier = IF b = u_cur THEN EchoBase + p ELSE EchoBase - BUF_SIZE + p
  BY Zenon, <1>1, SendingTypes DEF EchoByte
<1>4. QED BY Zenon, <1>1, <1>2, <1>3 DEF SendingIs

LEMMA EchoNumbers ==
  ASSUME EchoInv
  PROVE  \E B \in Nat, f \in Nat \ {0}, s \in Nat \ {0}, r \in Nat, n \in Nat :
           /\ B = EchoBase /\ f = u_from /\ s = u_pos /\ r = u_received /\ n = Len(u_echo)
           /\ B + s = r + 1 /\ f <= s /\ s <= BUF_SIZE + 1 /\ r <= MaxBytes
<1>1. /\ EchoBase \in Nat /\ u_from \in Nat \ {0} /\ u_pos \in Nat \ {0}
      /\ u_received \in Nat /\ Len(u_echo) \in Nat
      /\ EchoBase + u_pos = u_received + 1 /\ u_from <= u_pos /\ u_pos <= BUF_SIZE + 1
      /\ u_received <= MaxBytes
  BY EchoTypes
<1>2. QED BY Zenon, <1>1

\* What a byte time does to the transmission.
LEMMA EchoTransmit ==
  ASSUME EchoInv, Echo!Transmit
  PROVE  /\ u_tx' \in (0 .. 1) \X (0 .. BUF_SIZE) \X (0 .. BUF_SIZE + 1)
         /\ ~Sending => u_tx' = u_tx /\ u_echo' = u_echo
         /\ Sending => Grown(u_echo, u_echo', Frontier)
         /\ Sending /\ Left = 1 => ~Sending'
         /\ Sending /\ Left # 1 =>
              Sending' /\ u_tx'[1] = u_tx[1] /\ u_tx'[2] = u_tx[2] + 1 /\ u_tx'[3] = u_tx[3]
<1>1. CASE ~Sending
  BY <1>1 DEF Sending, Echo!Transmit, EchoInv, Echo!TypeOK
<1>2. CASE Sending
  <2>1. /\ u_echo' = Append(u_echo, u_buf[u_tx[1]][u_tx[2]])
        /\ u_tx' = IF u_tx[2] + 1 = u_tx[3] THEN Echo!Idle ELSE [u_tx EXCEPT ![2] = @ + 1]
    BY <1>2 DEF Sending, Echo!Transmit
  <2>2. u_buf[u_tx[1]][u_tx[2]] = Frontier
    <3>1. u_tx[2] \in u_tx[2] .. u_tx[3] - 1
      BY <1>2, SendingTypes
    <3>2. QED BY Zenon, <1>2, <3>1, SendingTypes DEF EchoInv, EchoSending
  <2>3. u_echo \in Seq(Nat) /\ Frontier \in Nat
    <3>1. u_echo \in Seq(1 .. MaxBytes)
      BY DEF EchoInv, Echo!TypeOK
    <3>2. u_echo \in Seq(Nat)
      <4>1. 1 .. MaxBytes \subseteq Nat
        BY EchoSizes
      <4>2. \A S, T : S \subseteq T => Seq(S) \subseteq Seq(T)
        OBVIOUS
      <4>3. QED BY Zenon, <3>1, <4>1, <4>2
    <3>3. Frontier \in 1 .. u_received
      BY Zenon, <1>2, SendingTypes
    <3>4. Frontier \in Nat
      BY <3>3, EchoTypes
    <3>5. QED BY Zenon, <3>2, <3>4
  <2>4. Grown(u_echo, u_echo', Frontier)
    <3>1. /\ \A i \in 1 .. Len(u_echo) : u_echo[i] < Frontier
          /\ \A i \in 2 .. Len(u_echo) : u_echo[i - 1] < u_echo[i]
      BY DEF EchoInv, EchoOrder, Echo!EchoInOrder
    <3>2. Grown(u_echo, Append(u_echo, Frontier), Frontier)
      BY Zenon, <2>3, <3>1, Grows
    <3>3. QED BY Zenon, <2>1, <2>2, <3>2
  <2>5. Left = 1 <=> u_tx[2] + 1 = u_tx[3]
    BY <1>2, SendingTypes
  <2>6. u_tx \in (0 .. 1) \X (0 .. BUF_SIZE) \X (0 .. BUF_SIZE + 1)
    BY DEF EchoInv, Echo!TypeOK
  <2>7. CASE Left = 1
    <3>1. u_tx' = Echo!Idle
      BY <2>1, <2>5, <2>7
    <3>2. QED BY SMTT(30), <1>2, <2>4, <2>7, <3>1, EchoTypes DEF Sending, Echo!Idle
  <2>8. CASE Left # 1
    <3>1. u_tx' = [u_tx EXCEPT ![2] = u_tx[2] + 1]
      BY <2>1, <2>5, <2>8
    <3>2. u_tx[2] + 1 \in 1 .. BUF_SIZE
      <4>1. PICK p \in 1 .. BUF_SIZE, e \in 2 .. BUF_SIZE + 1 :
               p = u_tx[2] /\ e = u_tx[3] /\ p < e
        BY Zenon, <1>2, SendingTypes
      <4>2. p + 1 # e
        BY Zenon, <2>5, <2>8, <4>1
      <4>3. p + 1 \in 1 .. BUF_SIZE
        BY <4>1, <4>2, EchoSizes
      <4>4. QED BY Zenon, <4>1, <4>3
    <3>3. u_tx'[1] = u_tx[1] /\ u_tx'[2] = u_tx[2] + 1 /\ u_tx'[3] = u_tx[3]
      BY <2>6, <3>1
    <3>4. u_tx' \in (0 .. 1) \X (0 .. BUF_SIZE) \X (0 .. BUF_SIZE + 1)
      BY <2>6, <3>1, <3>2
    <3>5. Sending'
      BY <3>2, <3>3 DEF Sending, Echo!Idle
    <3>6. QED BY <1>2, <2>4, <2>8, <3>3, <3>4, <3>5
  <2>9. QED BY <2>7, <2>8
<1>3. QED BY <1>1, <1>2

LEMMA EchoInit == Init => EchoInv
<1> SUFFICES ASSUME Echo!Init PROVE EchoInv
  BY DEF Init
<1> USE EchoSizes
<1>1. ~Sending /\ Left = 0 /\ Len(u_echo) = 0 /\ u_received = 0 /\ u_pos = 1 /\ u_from = 1
  BY DEF Echo!Init, Sending, Left, Echo!Idle
<1>2. Echo!TypeOK
  <2>1. u_echo \in Seq(1 .. MaxBytes) /\ u_gap \in 0 .. RxTimeout
    BY DEF Echo!Init
  <2>2. u_tx \in (0 .. 1) \X (0 .. BUF_SIZE) \X (0 .. BUF_SIZE + 1)
    BY DEF Echo!Init, Echo!Idle
  <2>3. u_buf \in [0 .. 1 -> [1 .. BUF_SIZE -> 0 .. MaxBytes]]
    BY DEF Echo!Init
  <2>4. QED BY <2>1, <2>2, <2>3 DEF Echo!Init, Echo!TypeOK
<1>3. EchoPlaces /\ EchoSending /\ EchoCount
  BY <1>1 DEF Echo!Init, EchoPlaces, EchoSending, EchoCount
<1>4. EchoOrder /\ EchoPolite
  BY <1>1 DEF Echo!Init, EchoOrder, Echo!EchoInOrder, EchoPolite
<1>5. QED BY <1>2, <1>3, <1>4 DEF EchoInv

LEMMA SendingPolitely ==
  ASSUME EchoInv, EchoWaits, Sending
  PROVE  Frontier = Len(u_echo) + 1
<1>1. PICK B \in Nat, f \in Nat \ {0}, s \in Nat \ {0}, r \in Nat, n \in Nat :
         /\ B = EchoBase /\ f = u_from /\ s = u_pos /\ r = u_received /\ n = Len(u_echo)
         /\ B + s = r + 1 /\ f <= s /\ s <= BUF_SIZE + 1 /\ r <= MaxBytes
  BY Zenon, EchoNumbers
<1>2. PICK b \in 0 .. 1, p \in Nat \ {0}, e \in Nat :
         /\ SendingIs(b, p, e) /\ p < e /\ e <= BUF_SIZE + 1 /\ Left = e - p
         /\ Frontier = IF b = u_cur THEN EchoBase + p ELSE EchoBase - BUF_SIZE + p
  BY Zenon, SendingNumbers
<1>3. r = n + 0 + (e - p) + (s - f)
  BY Zenon, <1>1, <1>2 DEF EchoInv, EchoCount, EchoPolite
<1>4. /\ b = u_cur => f = s /\ e = f
      /\ b # u_cur => e = BUF_SIZE + 1 /\ f = 1
  BY Zenon, <1>1, <1>2 DEF EchoInv, EchoPolite, SendingIs
<1>5. CASE b = u_cur
  <2>1. e = f /\ f = s /\ Frontier = B + p
    BY Zenon, <1>1, <1>2, <1>4, <1>5
  <2>2. B + p = n + 1
    BY <1>1, <1>3, <2>1
  <2>3. QED BY Zenon, <1>1, <2>1, <2>2
<1>6. CASE b # u_cur
  <2>1. e = BUF_SIZE + 1 /\ f = 1 /\ Frontier = B - BUF_SIZE + p
    BY Zenon, <1>1, <1>2, <1>4, <1>6
  <2>2. B - BUF_SIZE + p = n + 1
    BY <1>1, <1>3, <2>1, EchoSizes
  <2>3. QED BY Zenon, <1>1, <2>1, <2>2
<1>7. QED BY <1>5, <1>6

\* A byte time, whether a byte comes in or not.
LEMMA EchoTime ==
  ASSUME EchoInv, Echo!Transmit, u_cur' = u_cur, EchoBase' = EchoBase, u_from' = u_from
  PROVE  /\ u_tx' \in (0 .. 1) \X (0 .. BUF_SIZE) \X (0 .. BUF_SIZE + 1)
         /\ u_echo' \in Seq(1 .. MaxBytes) /\ EchoOrder'
         /\ Left \in Nat /\ Left' = IF Left = 0 THEN 0 ELSE Left - 1
         /\ Len(u_echo') + Left' = Len(u_echo) + Left
         /\ Len(u_echo) <= Len(u_echo') /\ Len(u_echo') \in Nat
         /\ Sending' => /\ Sending /\ Left # 0 /\ u_tx'[1] = u_tx[1]
                        /\ u_tx'[2] = u_tx[2] + 1 /\ u_tx'[3] = u_tx[3] /\ u_tx'[2] < u_tx'[3]
         /\ EchoWaits => \A i \in 1 .. Len(u_echo') : u_echo'[i] = i
<1>1. CASE ~Sending
  <2>1. u_tx' = u_tx /\ u_echo' = u_echo
    BY <1>1, EchoTransmit
  <2>2. ~Sending' /\ Left = 0 /\ Left' = 0
    BY <1>1, <2>1 DEF Sending, Left
  <2>3. Frontier' = Frontier
    BY <1>1, <2>2 DEF Frontier
  <2>4. EchoOrder'
    BY <2>1, <2>3 DEF EchoInv, EchoOrder, Echo!EchoInOrder
  <2>5. QED BY <2>1, <2>2, <2>4, EchoTypes, EchoTransmit DEF EchoInv, Echo!TypeOK, EchoPolite
<1>2. CASE Sending
  <2>1. PICK x \in Nat, B \in Nat, f \in Nat, L \in Nat \ {0}, n \in Nat :
          /\ x = Frontier /\ B = EchoBase /\ f = u_from /\ L = Left /\ n = Len(u_echo)
          /\ x + L <= B + f /\ x \in 1 .. MaxBytes
    <3>1. PICK B \in Nat, f \in Nat \ {0}, s \in Nat \ {0}, r \in Nat, n \in Nat :
            /\ B = EchoBase /\ f = u_from /\ s = u_pos /\ r = u_received /\ n = Len(u_echo)
            /\ B + s = r + 1 /\ f <= s /\ s <= BUF_SIZE + 1 /\ r <= MaxBytes
      BY Zenon, EchoNumbers
    <3>2. Left \in Nat \ {0} /\ Frontier \in 1 .. r /\ Frontier + Left <= B + f
      BY Zenon, <1>2, <3>1, SendingTypes
    <3>3. Frontier \in Nat /\ Frontier \in 1 .. MaxBytes
      BY <3>1, <3>2, EchoSizes
    <3>4. QED BY Zenon, <3>1, <3>2, <3>3
  <2>2. Grown(u_echo, u_echo', x)
    BY Zenon, <1>2, <2>1, EchoTransmit
  <2>3. Len(u_echo') = n + 1 /\ u_echo'[n + 1] = x /\ \A i \in 1 .. n : u_echo'[i] = u_echo[i]
    BY Zenon, <2>1, <2>2 DEF Grown
  <2>4. /\ L = 1 => ~Sending' /\ Left' = 0
        /\ L # 1 => /\ Sending' /\ Left' = L - 1
                   /\ u_tx'[1] = u_tx[1] /\ u_tx'[2] = u_tx[2] + 1 /\ u_tx'[3] = u_tx[3]
                   /\ u_tx'[2] < u_tx'[3] /\ Frontier' = x + 1
    <3>1. CASE L = 1
      BY <1>2, <2>1, <3>1, EchoTransmit DEF Left
    <3>2. CASE L # 1
      <4>1. /\ Sending' /\ u_tx'[1] = u_tx[1] /\ u_tx'[2] = u_tx[2] + 1 /\ u_tx'[3] = u_tx[3]
        BY Zenon, <1>2, <2>1, <3>2, EchoTransmit
      <4>2. PICK b \in 0 .. 1, p \in Nat \ {0}, e \in Nat :
              /\ SendingIs(b, p, e) /\ p < e /\ e <= BUF_SIZE + 1 /\ Left = e - p
              /\ Frontier = IF b = u_cur THEN EchoBase + p ELSE EchoBase - BUF_SIZE + p
        BY Zenon, <1>2, SendingNumbers
      <4>3. u_tx'[1] = b /\ u_tx'[2] = p + 1 /\ u_tx'[3] = e
        BY Zenon, <4>1, <4>2 DEF SendingIs
      <4>4. L = e - p
        BY Zenon, <2>1, <4>2
      <4>5. p + 1 < e /\ e - (p + 1) = L - 1
        BY <2>1, <3>2, <4>2, <4>4
      <4>6. Left' = e - (p + 1)
        BY Zenon, <4>1, <4>3 DEF Left
      <4>7. /\ b = u_cur => x = B + p /\ Frontier' = B + (p + 1)
            /\ b # u_cur => x = B - BUF_SIZE + p /\ Frontier' = B - BUF_SIZE + (p + 1)
        BY <2>1, <4>1, <4>2, <4>3 DEF Frontier, EchoByte
      <4>8. Frontier' = x + 1
        BY <2>1, <4>2, <4>7, EchoSizes
      <4>9. p + 1 = u_tx[2] + 1 /\ u_tx'[2] < u_tx'[3]
        BY Zenon, <4>2, <4>3, <4>5 DEF SendingIs
      <4>10. QED BY Zenon, <3>2, <4>1, <4>5, <4>6, <4>8, <4>9
    <3>3. QED BY <3>1, <3>2
  <2>5. x + 1 <= Frontier' /\ Frontier' \in Nat
    <3>1. CASE L = 1
      <4>1. Frontier' = B + f
        BY Zenon, <2>1, <2>4, <3>1 DEF Frontier
      <4>2. QED BY <2>1, <3>1, <4>1
    <3>2. CASE L # 1
      BY <2>1, <2>4, <3>2
    <3>3. QED BY <3>1, <3>2
  <2>6. EchoOrder'
    <3>1. /\ \A i \in 1 .. Len(u_echo') : u_echo'[i] < x + 1 /\ u_echo'[i] \in Nat
          /\ \A i \in 2 .. Len(u_echo') : u_echo'[i - 1] < u_echo'[i]
      BY <2>2 DEF Grown
    <3>2. \A i \in 1 .. Len(u_echo') : u_echo'[i] < Frontier'
      BY <2>1, <2>5, <3>1
    <3>3. QED BY <3>1, <3>2 DEF EchoOrder, Echo!EchoInOrder
  <2>7. u_echo' \in Seq(1 .. MaxBytes)
    <3>1. u_echo \in Seq(1 .. MaxBytes)
      BY DEF EchoInv, Echo!TypeOK
    <3>2. u_echo' \in Seq(Nat)
      BY Zenon, <2>2 DEF Grown
    <3>3. \A i \in 1 .. n : u_echo[i] \in 1 .. MaxBytes
      <4>1. \A i \in 1 .. Len(u_echo) : u_echo[i] \in 1 .. MaxBytes
        BY Zenon, <3>1, Elements
      <4>2. QED BY Zenon, <2>1, <4>1
    <3>4. \A i \in 1 .. n + 1 : i \in 1 .. n \/ i = n + 1
      BY <2>1
    <3>5. \A i \in 1 .. Len(u_echo') : u_echo'[i] \in 1 .. MaxBytes
      <4>1. \A i \in 1 .. n + 1 : u_echo'[i] \in 1 .. MaxBytes
        <5>1. ASSUME NEW i \in 1 .. n + 1 PROVE u_echo'[i] \in 1 .. MaxBytes
          <6>1. CASE i \in 1 .. n
            BY Zenon, <2>3, <3>3, <6>1
          <6>2. CASE i = n + 1
            BY Zenon, <2>1, <2>3, <6>2
          <6>3. QED BY Zenon, <3>4, <6>1, <6>2
        <5>2. QED BY Zenon, <5>1
      <4>2. QED BY Zenon, <2>3, <4>1
    <3>6. QED BY Zenon, <3>2, <3>5, IsSequence
  <2>8. ASSUME EchoWaits PROVE \A i \in 1 .. Len(u_echo') : u_echo'[i] = i
    <3>1. x = n + 1
      BY Zenon, <1>2, <2>1, <2>8, SendingPolitely
    <3>2. \A i \in 1 .. n : u_echo[i] = i
      BY Zenon, <2>1, <2>8 DEF EchoInv, EchoPolite
    <3>3. \A i \in 1 .. n + 1 : i \in 1 .. n \/ i = n + 1
      BY <2>1
    <3>4. QED BY Zenon, <2>3, <3>1, <3>2, <3>3
  <2>9. /\ Left \in Nat /\ Left' = IF Left = 0 THEN 0 ELSE Left - 1
        /\ Len(u_echo') + Left' = Len(u_echo) + Left
        /\ Len(u_echo) <= Len(u_echo') /\ Len(u_echo') \in Nat
    BY <2>1, <2>3, <2>4
  <2>10. u_tx' \in (0 .. 1) \X (0 .. BUF_SIZE) \X (0 .. BUF_SIZE + 1)
    BY Zenon, EchoTransmit
  <2>11. Left # 0
    BY <2>1
  <2>12. QED BY Zenon, <1>2, <2>1, <2>4, <2>6, <2>7, <2>8, <2>9, <2>10, <2>11
<1>3. QED BY <1>1, <1>2

LEMMA EchoByteIn == EchoInv /\ Echo!ByteIn => EchoInv'
<1> SUFFICES ASSUME EchoInv, Echo!ByteIn PROVE EchoInv'
  OBVIOUS
<1>1. PICK B \in Nat, f \in Nat \ {0}, s \in Nat \ {0}, r \in Nat, n \in Nat :
         /\ B = EchoBase /\ f = u_from /\ s = u_pos /\ r = u_received /\ n = Len(u_echo)
         /\ B + s = r + 1 /\ f <= s /\ s <= BUF_SIZE + 1 /\ r <= MaxBytes
  BY Zenon, EchoNumbers
<1>0. B + s = r + 1 /\ f <= s /\ s <= BUF_SIZE + 1 /\ r <= MaxBytes
  BY Zenon, <1>1
<1>2. /\ Echo!Transmit /\ u_burst > 0 /\ s <= BUF_SIZE /\ u_cur' = u_cur /\ u_from' = f
      /\ u_pos' = s + 1 /\ u_received' = r + 1 /\ u_gap' = 0 /\ u_burst' = u_burst - 1
      /\ u_next' = u_next /\ u_idx' = u_idx /\ u_dropped' = u_dropped
      /\ u_polite' = u_polite /\ EchoWaits' = EchoWaits
      /\ u_buf' = [u_buf EXCEPT ![u_cur][s] = r + 1]
  <2>1. /\ Echo!Transmit /\ u_burst > 0 /\ ~(u_pos > BUF_SIZE) /\ u_cur' = u_cur
        /\ u_from' = u_from /\ u_pos' = u_pos + 1 /\ u_received' = u_received + 1
        /\ u_gap' = 0 /\ u_burst' = u_burst - 1 /\ u_next' = u_next /\ u_idx' = u_idx
        /\ u_dropped' = u_dropped /\ u_polite' = u_polite /\ EchoWaits' = EchoWaits
        /\ u_buf' = [u_buf EXCEPT ![u_cur][u_pos] = u_received + 1]
    BY DEF Echo!ByteIn, Echo!BufferIsFull, EchoWaits
  <2>2. ~(s > BUF_SIZE) => s <= BUF_SIZE
    BY <1>0, EchoSizes
  <2>3. QED BY Zenon, <1>1, <2>1, <2>2
<1>3. EchoBase' = B
  BY <1>1, <1>2 DEF EchoBase
<1>4. /\ u_burst \in Nat /\ r + u_burst <= MaxBytes /\ u_burst <= BUF_SIZE
      /\ r + 1 \in 0 .. MaxBytes /\ s \in 1 .. BUF_SIZE /\ u_cur \in 0 .. 1
  <2>1. /\ u_burst \in Nat /\ u_received + u_burst <= MaxBytes /\ u_burst <= BUF_SIZE
        /\ u_cur \in 0 .. 1
    BY EchoTypes
  <2>2. PICK k \in Nat : k = u_burst /\ k > 0 /\ r + k <= MaxBytes
    BY Zenon, <1>1, <1>2, <2>1
  <2>3. s <= BUF_SIZE
    BY Zenon, <1>2
  <2>4. r + 1 \in 0 .. MaxBytes /\ s \in 1 .. BUF_SIZE
    BY <1>0, <2>2, <2>3, EchoSizes
  <2>5. QED BY Zenon, <1>1, <2>1, <2>4
<1>5. /\ u_tx' \in (0 .. 1) \X (0 .. BUF_SIZE) \X (0 .. BUF_SIZE + 1)
      /\ u_echo' \in Seq(1 .. MaxBytes) /\ EchoOrder'
      /\ Left \in Nat /\ Left' = IF Left = 0 THEN 0 ELSE Left - 1
      /\ Len(u_echo') + Left' = Len(u_echo) + Left
      /\ Len(u_echo) <= Len(u_echo') /\ Len(u_echo') \in Nat
      /\ Sending' => /\ Sending /\ Left # 0 /\ u_tx'[1] = u_tx[1]
                     /\ u_tx'[2] = u_tx[2] + 1 /\ u_tx'[3] = u_tx[3] /\ u_tx'[2] < u_tx'[3]
      /\ EchoWaits => \A i \in 1 .. Len(u_echo') : u_echo'[i] = i
  BY Zenon, <1>1, <1>2, <1>3, EchoTime
<1>6. /\ u_buf' \in [0 .. 1 -> [1 .. BUF_SIZE -> 0 .. MaxBytes]]
      /\ u_buf'[u_cur][s] = r + 1
      /\ \A b \in 0 .. 1, i \in 1 .. BUF_SIZE :
           b # u_cur \/ i # s => u_buf'[b][i] = u_buf[b][i]
  BY <1>2, <1>4 DEF EchoInv, Echo!TypeOK
<1>7. Echo!TypeOK'
  <2>1. /\ u_burst' \in 0 .. BUF_SIZE /\ s + 1 \in 1 .. BUF_SIZE + 1 /\ 0 \in 0 .. RxTimeout
        /\ f \in 1 .. BUF_SIZE + 1
    BY <1>0, <1>2, <1>4, EchoSizes
  <2>2. QED BY Zenon, <1>2, <1>4, <1>5, <1>6, <2>1 DEF EchoInv, Echo!TypeOK
<1>8. EchoPlaces'
  <2>1. u_from <= BUF_SIZE /\ u_next = 1 - u_cur /\ u_idx = u_cur
    BY EchoTypes
  <2>2. ASSUME NEW i \in 1 .. s PROVE u_buf'[u_cur][i] = B + i
    <3>1. i \in 1 .. s - 1 \/ i = s
      BY <1>0
    <3>2. CASE i \in 1 .. s - 1
      <4>1. i \in 1 .. BUF_SIZE /\ i # s
        <5>1. s \in 1 .. BUF_SIZE
          BY Zenon, <1>4
        <5>2. QED BY <3>2, <5>1, EchoSizes
      <4>2. u_buf[u_cur][i] = B + i
        BY Zenon, <1>1, <3>2 DEF EchoInv, EchoPlaces
      <4>3. QED BY Zenon, <1>4, <1>6, <4>1, <4>2
    <3>3. CASE i = s
      <4>1. B + s = r + 1
        BY <1>0
      <4>2. QED BY Zenon, <1>6, <3>3, <4>1
    <3>4. QED BY <3>1, <3>2, <3>3
  <2>3. (s + 1) - 1 = s
    BY <1>0
  <2>4. \A i \in 1 .. u_pos' - 1 : u_buf'[u_cur'][i] = EchoBase' + i
    BY Zenon, <1>2, <1>3, <2>2, <2>3
  <2>5. /\ u_received' + u_burst' <= MaxBytes /\ u_pos' - 1 <= u_received'
        /\ u_from' <= u_pos' /\ u_from' <= BUF_SIZE
    <3>1. PICK k \in Nat : k = u_burst /\ r + k <= MaxBytes /\ f <= BUF_SIZE
      BY Zenon, <1>1, <1>4, <2>1
    <3>2. (r + 1) + (k - 1) <= MaxBytes /\ (s + 1) - 1 <= r + 1 /\ f <= s + 1
      BY <1>0, <3>1, EchoSizes
    <3>3. QED BY Zenon, <1>2, <3>1, <3>2
  <2>6. QED BY Zenon, <1>2, <2>1, <2>4, <2>5 DEF EchoPlaces
<1>9. EchoCount'
  <2>1. PICK d \in Nat, L \in Nat, M \in Nat, m \in Nat :
          d = u_dropped /\ L = Left /\ M = Left' /\ m = Len(u_echo')
    <3>1. u_dropped \in Nat /\ Left' \in Nat
      BY <1>5, EchoTypes
    <3>2. QED BY Zenon, <1>1, <1>5, <3>1
  <2>2. r = n + d + L + (s - f)
    BY Zenon, <1>1, <2>1 DEF EchoInv, EchoCount
  <2>3. r + 1 = m + d + M + ((s + 1) - f)
    <3>1. m + M = n + L
      BY Zenon, <1>1, <1>5, <2>1
    <3>2. QED BY <1>0, <2>2, <3>1
  <2>4. QED BY Zenon, <1>2, <2>1, <2>3 DEF EchoCount
<1>10. EchoSending'
  <2> SUFFICES ASSUME Sending'
      PROVE  /\ 1 <= u_tx'[2] /\ u_tx'[2] < u_tx'[3]
             /\ u_tx'[1] = u_cur' => u_tx'[3] <= u_from'
             /\ u_tx'[1] # u_cur' => Left' <= BUF_SIZE + 1 - u_pos' /\ BUF_SIZE <= EchoBase'
             /\ \A i \in u_tx'[2] .. u_tx'[3] - 1 : u_buf'[u_tx'[1]][i] = EchoByte(u_tx[1], i)'
    BY Zenon DEF EchoSending
  <2>1. PICK b \in 0 .. 1, p \in Nat \ {0}, e \in Nat :
           /\ SendingIs(b, p, e) /\ p < e /\ e <= BUF_SIZE + 1 /\ Left = e - p
           /\ Frontier = IF b = u_cur THEN EchoBase + p ELSE EchoBase - BUF_SIZE + p
    BY Zenon, <1>5, SendingNumbers
  <2>2. u_tx'[1] = b /\ u_tx'[2] = p + 1 /\ u_tx'[3] = e /\ p + 1 < e
    BY Zenon, <1>5, <2>1 DEF SendingIs
  <2>3. /\ b = u_cur => e <= f
        /\ b # u_cur => Left <= BUF_SIZE + 1 - s /\ BUF_SIZE <= B
        /\ \A i \in p .. e - 1 : u_buf[b][i] = EchoByte(b, i)
    BY Zenon, <1>1, <1>5, <2>1 DEF EchoInv, EchoSending, SendingIs
  <2>4. 1 <= p + 1
    BY <2>1
  <2>5. b # u_cur => Left' <= BUF_SIZE + 1 - (s + 1)
    BY <1>0, <1>5, <2>3, EchoSizes
  <2>6. ASSUME NEW i \in p + 1 .. e - 1 PROVE u_buf'[b][i] = EchoByte(b, i)'
    <3>1. i \in p .. e - 1 /\ i \in 1 .. BUF_SIZE
      BY <2>1, EchoSizes
    <3>2. b # u_cur \/ i # s
      BY <1>0, <2>1, <2>3
    <3>3. u_buf'[b][i] = u_buf[b][i]
      BY Zenon, <1>6, <3>1, <3>2
    <3>4. EchoByte(b, i)' = EchoByte(b, i)
      BY Zenon, <1>1, <1>2, <1>3 DEF EchoByte
    <3>5. QED BY Zenon, <2>3, <3>1, <3>3, <3>4
  <2>7. \A i : EchoByte(u_tx[1], i)' = EchoByte(b, i)'
    BY Zenon, <2>2 DEF EchoByte
  <2>8. \A i \in u_tx'[2] .. u_tx'[3] - 1 : u_buf'[u_tx'[1]][i] = EchoByte(u_tx[1], i)'
    BY Zenon, <2>2, <2>6, <2>7
  <2>9. QED BY Zenon, <1>2, <1>3, <2>2, <2>3, <2>4, <2>5, <2>8
<1>11. EchoPolite'
  <2> SUFFICES ASSUME EchoWaits
      PROVE  /\ u_dropped' = 0 /\ u_received' + u_burst' <= Len(u_echo') + BUF_SIZE
             /\ u_from' < u_pos' /\ u_gap' > 0 => u_burst' = 0
             /\ Sending' /\ u_tx'[1] = u_cur' =>
                  u_burst' = 0 /\ u_from' = u_pos' /\ u_tx'[3] = u_from'
             /\ Sending' /\ u_tx'[1] # u_cur' =>
                  /\ u_tx'[3] = BUF_SIZE + 1 /\ u_from' = 1
                  /\ u_pos' > 1 => Left' <= BUF_SIZE - u_pos' - u_gap'
             /\ \A i \in 1 .. Len(u_echo') : u_echo'[i] = i
    BY Zenon, <1>2 DEF EchoPolite
  <2>1. /\ u_dropped = 0 /\ r + u_burst <= n + BUF_SIZE
        /\ Sending /\ u_tx[1] = u_cur => u_burst = 0
        /\ Sending /\ u_tx[1] # u_cur =>
             /\ u_tx[3] = BUF_SIZE + 1 /\ f = 1
             /\ s > 1 => Left <= BUF_SIZE - s - u_gap
    BY Zenon, <1>1 DEF EchoInv, EchoPolite
  <2>2. u_received' + u_burst' <= Len(u_echo') + BUF_SIZE
    <3>1. PICK m \in Nat, k \in Nat : m = Len(u_echo') /\ n <= m /\ k = u_burst
      BY Zenon, <1>1, <1>4, <1>5
    <3>2. r + k <= n + BUF_SIZE
      BY Zenon, <2>1, <3>1
    <3>3. (r + 1) + (k - 1) <= m + BUF_SIZE
      BY <1>0, <3>1, <3>2, EchoSizes
    <3>4. QED BY Zenon, <1>2, <3>1, <3>3
  <2>3. ~(Sending' /\ u_tx'[1] = u_cur')
    <3>1. u_burst # 0
      BY <1>2, <1>4
    <3>2. QED BY Zenon, <1>2, <1>5, <2>1, <3>1
  <2>4. ASSUME Sending', u_tx'[1] # u_cur'
        PROVE  u_tx'[3] = BUF_SIZE + 1 /\ u_from' = 1 /\ Left' <= BUF_SIZE - u_pos' - u_gap'
    <3>1. u_tx[3] = BUF_SIZE + 1 /\ f = 1 /\ (s > 1 => Left <= BUF_SIZE - s - u_gap)
      BY Zenon, <1>2, <1>5, <2>1, <2>4
    <3>2. Left' = Left - 1
      BY Zenon, <1>5, <2>4
    <3>3. r = n + 0 + Left + (s - f)
      BY Zenon, <1>1, <2>1 DEF EchoInv, EchoCount
    <3>4. u_gap \in Nat
      BY EchoTypes
    <3>5. CASE s > 1
      <4>1. Left - 1 <= BUF_SIZE - (s + 1) - 0
        BY <1>0, <1>5, <3>1, <3>4, <3>5, EchoSizes
      <4>2. QED BY Zenon, <1>2, <1>5, <2>4, <3>1, <3>2, <4>1
    <3>6. CASE ~(s > 1)
      <4>1. s = 1 /\ u_burst >= 1
        BY <1>0, <1>2, <1>4, <3>6
      <4>2. Left - 1 <= BUF_SIZE - (s + 1) - 0
        BY <1>0, <1>4, <1>5, <2>1, <3>1, <3>3, <4>1, EchoSizes
      <4>3. QED BY Zenon, <1>2, <1>5, <2>4, <3>1, <3>2, <4>2
    <3>7. QED BY <3>5, <3>6
  <2>5. ~(u_gap' > 0)
    BY <1>2
  <2>6. QED BY Zenon, <1>2, <1>5, <2>1, <2>2, <2>3, <2>4, <2>5
<1>12. QED BY Zenon, <1>5, <1>7, <1>8, <1>9, <1>10, <1>11 DEF EchoInv

LEMMA EchoNoByteIn == EchoInv /\ Echo!NoByteIn => EchoInv'
<1> SUFFICES ASSUME EchoInv, Echo!NoByteIn PROVE EchoInv'
  OBVIOUS
<1>1. PICK B \in Nat, f \in Nat \ {0}, s \in Nat \ {0}, r \in Nat, n \in Nat :
         /\ B = EchoBase /\ f = u_from /\ s = u_pos /\ r = u_received /\ n = Len(u_echo)
         /\ B + s = r + 1 /\ f <= s /\ s <= BUF_SIZE + 1 /\ r <= MaxBytes
  BY Zenon, EchoNumbers
<1>0. B + s = r + 1 /\ f <= s /\ s <= BUF_SIZE + 1 /\ r <= MaxBytes
  BY Zenon, <1>1
<1>2. /\ Echo!Transmit /\ u_burst = 0 /\ u_burst' = 0 /\ u_cur' = u_cur /\ u_from' = u_from
      /\ u_pos' = u_pos /\ u_received' = u_received /\ u_next' = u_next /\ u_idx' = u_idx
      /\ u_dropped' = u_dropped /\ EchoWaits' = EchoWaits /\ u_buf' = u_buf
      /\ u_polite' = u_polite
      /\ u_gap' = IF u_gap < RxTimeout THEN u_gap + 1 ELSE u_gap
  BY DEF Echo!NoByteIn, EchoWaits
<1>3. EchoBase' = EchoBase
  BY <1>2 DEF EchoBase
<1>4. u_gap \in 0 .. RxTimeout /\ u_gap' \in 0 .. RxTimeout /\ u_gap' \in {u_gap, u_gap + 1}
  BY SMTT(30), <1>2, EchoTypes
<1>5. /\ u_tx' \in (0 .. 1) \X (0 .. BUF_SIZE) \X (0 .. BUF_SIZE + 1)
      /\ u_echo' \in Seq(1 .. MaxBytes) /\ EchoOrder'
      /\ Left \in Nat /\ Left' = IF Left = 0 THEN 0 ELSE Left - 1
      /\ Len(u_echo') + Left' = Len(u_echo) + Left
      /\ Len(u_echo) <= Len(u_echo') /\ Len(u_echo') \in Nat
      /\ Sending' => /\ Sending /\ Left # 0 /\ u_tx'[1] = u_tx[1]
                     /\ u_tx'[2] = u_tx[2] + 1 /\ u_tx'[3] = u_tx[3] /\ u_tx'[2] < u_tx'[3]
      /\ EchoWaits => \A i \in 1 .. Len(u_echo') : u_echo'[i] = i
  BY Zenon, <1>2, <1>3, EchoTime
<1>6. Echo!TypeOK'
  BY Zenon, <1>2, <1>4, <1>5 DEF EchoInv, Echo!TypeOK
<1>7. EchoPlaces'
  BY Zenon, <1>2, <1>3 DEF EchoInv, EchoPlaces
<1>8. EchoCount'
  <2>1. PICK d \in Nat, L \in Nat, M \in Nat, m \in Nat :
          d = u_dropped /\ L = Left /\ M = Left' /\ m = Len(u_echo')
    <3>1. u_dropped \in Nat /\ Left' \in Nat
      BY <1>5, EchoTypes
    <3>2. QED BY Zenon, <1>1, <1>5, <3>1
  <2>2. r = n + d + L + (s - f)
    BY Zenon, <1>1, <2>1 DEF EchoInv, EchoCount
  <2>3. r = m + d + M + (s - f)
    <3>1. m + M = n + L
      BY Zenon, <1>1, <1>5, <2>1
    <3>2. QED BY <1>0, <2>2, <3>1
  <2>4. QED BY Zenon, <1>1, <1>2, <2>1, <2>3 DEF EchoCount
<1>9. EchoSending'
  <2> SUFFICES ASSUME Sending'
      PROVE  /\ 1 <= u_tx'[2] /\ u_tx'[2] < u_tx'[3]
             /\ u_tx'[1] = u_cur' => u_tx'[3] <= u_from'
             /\ u_tx'[1] # u_cur' => Left' <= BUF_SIZE + 1 - u_pos' /\ BUF_SIZE <= EchoBase'
             /\ \A i \in u_tx'[2] .. u_tx'[3] - 1 : u_buf'[u_tx'[1]][i] = EchoByte(u_tx[1], i)'
    BY Zenon DEF EchoSending
  <2>1. PICK b \in 0 .. 1, p \in Nat \ {0}, e \in Nat :
           /\ SendingIs(b, p, e) /\ p < e /\ e <= BUF_SIZE + 1 /\ Left = e - p
           /\ Frontier = IF b = u_cur THEN EchoBase + p ELSE EchoBase - BUF_SIZE + p
    BY Zenon, <1>5, SendingNumbers
  <2>2. u_tx'[1] = b /\ u_tx'[2] = p + 1 /\ u_tx'[3] = e /\ p + 1 < e
    BY Zenon, <1>5, <2>1 DEF SendingIs
  <2>3. /\ b = u_cur => e <= f
        /\ b # u_cur => Left <= BUF_SIZE + 1 - s /\ BUF_SIZE <= B
        /\ \A i \in p .. e - 1 : u_buf[b][i] = EchoByte(b, i)
    BY Zenon, <1>1, <1>5, <2>1 DEF EchoInv, EchoSending, SendingIs
  <2>4. 1 <= p + 1
    BY <2>1
  <2>5. b # u_cur => Left' <= BUF_SIZE + 1 - s
    BY <1>0, <1>5, <2>3, EchoSizes
  <2>6. \A i \in p + 1 .. e - 1 : i \in p .. e - 1
    BY <2>1
  <2>7. \A i : EchoByte(u_tx[1], i)' = EchoByte(b, i)
    BY Zenon, <1>2, <1>3, <2>2 DEF EchoByte
  <2>8. \A i \in u_tx'[2] .. u_tx'[3] - 1 : u_buf'[u_tx'[1]][i] = EchoByte(u_tx[1], i)'
    BY Zenon, <1>2, <2>2, <2>3, <2>6, <2>7
  <2>9. QED BY Zenon, <1>1, <1>2, <1>3, <2>2, <2>3, <2>4, <2>5, <2>8
<1>10. EchoPolite'
  <2> SUFFICES ASSUME EchoWaits
      PROVE  /\ u_dropped' = 0 /\ u_received' + u_burst' <= Len(u_echo') + BUF_SIZE
             /\ u_from' < u_pos' /\ u_gap' > 0 => u_burst' = 0
             /\ Sending' /\ u_tx'[1] = u_cur' =>
                  u_burst' = 0 /\ u_from' = u_pos' /\ u_tx'[3] = u_from'
             /\ Sending' /\ u_tx'[1] # u_cur' =>
                  /\ u_tx'[3] = BUF_SIZE + 1 /\ u_from' = 1
                  /\ u_pos' > 1 => Left' <= BUF_SIZE - u_pos' - u_gap'
             /\ \A i \in 1 .. Len(u_echo') : u_echo'[i] = i
    BY Zenon, <1>2 DEF EchoPolite
  <2>1. /\ u_dropped = 0 /\ r + 0 <= n + BUF_SIZE
        /\ Sending /\ u_tx[1] = u_cur => f = s /\ u_tx[3] = f
        /\ Sending /\ u_tx[1] # u_cur =>
             /\ u_tx[3] = BUF_SIZE + 1 /\ f = 1
             /\ s > 1 => Left <= BUF_SIZE - s - u_gap
    BY Zenon, <1>1, <1>2 DEF EchoInv, EchoPolite
  <2>2. r + 0 <= Len(u_echo') + BUF_SIZE
    <3>1. PICK m \in Nat : m = Len(u_echo') /\ n <= m
      BY Zenon, <1>1, <1>5
    <3>2. r + 0 <= m + BUF_SIZE
      BY <1>0, <2>1, <3>1, EchoSizes
    <3>3. QED BY Zenon, <3>1, <3>2
  <2>3. ASSUME Sending', u_tx'[1] # u_cur', s > 1
        PROVE  Left' <= BUF_SIZE - s - u_gap'
    <3>1. PICK L \in Nat, g \in Nat, h \in Nat :
            L = Left /\ g = u_gap /\ h = u_gap' /\ (h = g \/ h = g + 1)
      <4>1. u_gap \in Nat /\ u_gap' \in Nat /\ (u_gap' = u_gap \/ u_gap' = u_gap + 1)
        BY <1>4, EchoSizes
      <4>2. QED BY Zenon, <1>5, <4>1
    <3>2. Left' = L - 1 /\ L <= BUF_SIZE - s - g
      BY Zenon, <1>2, <1>5, <2>1, <2>3, <3>1
    <3>3. L <= BUF_SIZE - s - g /\ (h = g \/ h = g + 1)
      BY Zenon, <3>1, <3>2
    <3>4. L - 1 <= BUF_SIZE - s - h
      BY <3>3, EchoSizes
    <3>5. QED BY Zenon, <3>1, <3>2, <3>4
  <2>4. QED BY Zenon, <1>1, <1>2, <1>5, <2>1, <2>2, <2>3
<1>11. QED BY Zenon, <1>5, <1>6, <1>7, <1>8, <1>9, <1>10 DEF EchoInv

LEMMA EchoBurst == EchoInv /\ Echo!Burst => EchoInv'
<1> SUFFICES ASSUME EchoInv, Echo!Burst PROVE EchoInv'
  OBVIOUS
<1>1. PICK B \in Nat, f \in Nat \ {0}, s \in Nat \ {0}, r \in Nat, n \in Nat :
         /\ B = EchoBase /\ f = u_from /\ s = u_pos /\ r = u_received /\ n = Len(u_echo)
         /\ B + s = r + 1 /\ f <= s /\ s <= BUF_SIZE + 1 /\ r <= MaxBytes
  BY Zenon, EchoNumbers
<1>0. B + s = r + 1 /\ f <= s /\ s <= BUF_SIZE + 1 /\ r <= MaxBytes
  BY Zenon, <1>1
<1>2. PICK k \in 1 .. BUF_SIZE :
         /\ u_burst' = k /\ u_received + k <= MaxBytes
         /\ EchoWaits => Len(u_echo) + u_dropped = u_received
         /\ u_cur' = u_cur /\ u_from' = u_from /\ u_pos' = u_pos /\ u_gap' = u_gap
         /\ u_received' = u_received /\ u_next' = u_next /\ u_idx' = u_idx /\ u_tx' = u_tx
         /\ u_dropped' = u_dropped /\ EchoWaits' = EchoWaits /\ u_buf' = u_buf
         /\ u_polite' = u_polite /\ u_echo' = u_echo
  BY DEF Echo!Burst, Echo!rxVars, EchoWaits
<1>3. Echo!TypeOK'
  <2>1. k \in 0 .. BUF_SIZE
    BY EchoSizes
  <2>2. QED BY Zenon, <1>2, <2>1 DEF EchoInv, Echo!TypeOK
<1>4. /\ EchoBase' = EchoBase /\ (Sending' <=> Sending) /\ Left' = Left /\ Frontier' = Frontier
      /\ \A b, i : EchoByte(b, i)' = EchoByte(b, i)
  BY Zenon, <1>2 DEF EchoBase, Sending, Left, Frontier, EchoByte
<1>5. EchoPlaces'
  BY Zenon, <1>2, <1>4 DEF EchoInv, EchoPlaces
<1>6. EchoSending'
  <2>1. \A i : EchoByte(u_tx[1], i)' = EchoByte(u_tx[1], i)
    BY Zenon, <1>2 DEF EchoByte, EchoBase
  <2>2. QED BY Zenon, <1>2, <1>4, <2>1 DEF EchoInv, EchoSending
<1>7. EchoCount'
  BY Zenon, <1>2, <1>4 DEF EchoInv, EchoCount
<1>8. EchoOrder'
  BY Zenon, <1>2, <1>4 DEF EchoInv, EchoOrder, Echo!EchoInOrder
<1>9. ASSUME EchoWaits PROVE f = s /\ ~Sending /\ r + k <= n + BUF_SIZE
  <2>1. PICK L \in Nat : L = Left
    BY SendingTypes DEF Left
  <2>2. r = n + 0 + L + (s - f) /\ n + 0 = r
    BY Zenon, <1>1, <1>2, <1>9, <2>1 DEF EchoInv, EchoCount, EchoPolite
  <2>3. L = 0 /\ f = s /\ r + k <= n + BUF_SIZE
    BY <1>0, <2>2, EchoSizes
  <2>4. ~Sending
    <3>1. Sending => Left # 0
      BY SendingTypes
    <3>2. QED BY Zenon, <2>1, <2>3, <3>1
  <2>5. QED BY <2>3, <2>4
<1>10. EchoPolite'
  <2>1. ~(s < s)
    BY <1>0
  <2>2. QED BY Zenon, <1>1, <1>2, <1>4, <1>9, <2>1 DEF EchoInv, EchoPolite
<1>11. QED BY Zenon, <1>3, <1>5, <1>6, <1>7, <1>8, <1>10 DEF EchoInv

\* What uart_cb does about the places that are reported: none is counted twice.
LEMMA EchoStart ==
  ASSUME EchoInv, u_from < u_pos, Echo!StartTx(u_cur, u_from, u_pos)
  PROVE  /\ ~Sending => /\ Sending' /\ u_dropped' = u_dropped /\ Left' = u_pos - u_from
                        /\ u_tx'[1] = u_cur /\ u_tx'[2] = u_from /\ u_tx'[3] = u_pos
         /\ Sending => /\ Sending' /\ u_tx' = u_tx /\ Left' = Left
                       /\ u_dropped' = u_dropped + (u_pos - u_from)
         /\ u_tx' \in (0 .. 1) \X (0 .. BUF_SIZE) \X (0 .. BUF_SIZE + 1)
         /\ u_dropped' \in 0 .. MaxBytes
         /\ u_received = Len(u_echo) + u_dropped' + Left'
<1>1. PICK B \in Nat, f \in Nat \ {0}, s \in Nat \ {0}, r \in Nat, n \in Nat :
         /\ B = EchoBase /\ f = u_from /\ s = u_pos /\ r = u_received /\ n = Len(u_echo)
         /\ B + s = r + 1 /\ f <= s /\ s <= BUF_SIZE + 1 /\ r <= MaxBytes
  BY Zenon, EchoNumbers
<1>2. PICK d \in Nat, L \in Nat : d = u_dropped /\ L = Left /\ r = n + d + L + (s - f)
  <2>1. u_dropped \in Nat /\ Left \in Nat
    BY EchoTypes, SendingTypes DEF Left
  <2>2. QED BY Zenon, <1>1, <2>1 DEF EchoInv, EchoCount
<1>3. r <= MaxBytes /\ f <= s /\ r = n + d + L + (s - f)
  BY Zenon, <1>1, <1>2
<1>4. d \in 0 .. MaxBytes /\ d + (s - f) \in 0 .. MaxBytes /\ r = n + (d + (s - f)) + L
  BY <1>3, EchoSizes
<1>5. CASE Sending
  <2>1. u_dropped' = u_dropped + (u_pos - u_from) /\ u_tx' = u_tx
    BY <1>5 DEF Sending, Echo!StartTx
  <2>2. Sending' /\ Left' = Left
    BY <1>5, <2>1 DEF Sending, Left
  <2>3. u_tx' \in (0 .. 1) \X (0 .. BUF_SIZE) \X (0 .. BUF_SIZE + 1)
    BY Zenon, <2>1 DEF EchoInv, Echo!TypeOK
  <2>4. QED BY Zenon, <1>1, <1>2, <1>4, <1>5, <2>1, <2>2, <2>3
<1>6. CASE ~Sending
  <2>1. u_dropped' = u_dropped /\ u_tx' = <<u_cur, u_from, u_pos>>
    BY <1>6 DEF Sending, Echo!StartTx
  <2>2. u_tx'[1] = u_cur /\ u_tx'[2] = u_from /\ u_tx'[3] = u_pos
    BY <2>1
  <2>3. u_tx' \in (0 .. 1) \X (0 .. BUF_SIZE) \X (0 .. BUF_SIZE + 1)
    BY SMTT(30), <2>1, EchoTypes
  <2>4. Sending'
    BY SMTT(30), <2>2, EchoTypes DEF Sending, Echo!Idle
  <2>5. Left' = u_pos - u_from
    BY Zenon, <2>2, <2>4 DEF Left
  <2>6. L = 0
    BY Zenon, <1>2, <1>6 DEF Left
  <2>7. r = n + d + (s - f)
    BY <1>3, <2>6
  <2>8. QED BY Zenon, <1>1, <1>2, <1>4, <1>6, <2>1, <2>2, <2>3, <2>4, <2>5, <2>7
<1>7. QED BY <1>5, <1>6

LEMMA EchoFull == EchoInv /\ Echo!Full => EchoInv'
<1> SUFFICES ASSUME EchoInv, Echo!Full PROVE EchoInv'
  OBVIOUS
<1>1. PICK B \in Nat, f \in Nat \ {0}, s \in Nat \ {0}, r \in Nat, n \in Nat :
         /\ B = EchoBase /\ f = u_from /\ s = u_pos /\ r = u_received /\ n = Len(u_echo)
         /\ B + s = r + 1 /\ f <= s /\ s <= BUF_SIZE + 1 /\ r <= MaxBytes
  BY Zenon, EchoNumbers
<1>0. B + s = r + 1 /\ f <= s /\ s <= BUF_SIZE + 1 /\ r <= MaxBytes
  BY Zenon, <1>1
<1>2. /\ Echo!StartTx(u_cur, u_from, u_pos) /\ u_pos > BUF_SIZE
      /\ u_cur' = u_next /\ u_pos' = 1 /\ u_from' = 1
      /\ u_next' = u_idx /\ u_idx' = 1 - u_idx
      /\ u_polite' = u_polite /\ EchoWaits' = EchoWaits
      /\ u_burst' = u_burst /\ u_received' = u_received
      /\ u_buf' = u_buf /\ u_gap' = u_gap /\ u_echo' = u_echo
  BY DEF Echo!Full, Echo!BufferIsFull, EchoWaits
<1>3. /\ s = BUF_SIZE + 1 /\ f < s /\ f <= BUF_SIZE /\ r = B + BUF_SIZE
  <2>1. s > BUF_SIZE /\ f <= BUF_SIZE
    BY Zenon, <1>1, <1>2, EchoTypes DEF EchoInv, EchoPlaces
  <2>2. QED BY <1>0, <2>1, EchoSizes
<1>4. /\ ~Sending => /\ Sending' /\ u_dropped' = u_dropped /\ Left' = s - f
                     /\ u_tx'[1] = u_cur /\ u_tx'[2] = f /\ u_tx'[3] = s
      /\ Sending => /\ Sending' /\ u_tx' = u_tx /\ Left' = Left
      /\ u_tx' \in (0 .. 1) \X (0 .. BUF_SIZE) \X (0 .. BUF_SIZE + 1)
      /\ u_dropped' \in 0 .. MaxBytes
      /\ u_received = Len(u_echo) + u_dropped' + Left'
  BY Zenon, <1>1, <1>2, <1>3, EchoStart
<1>5. /\ u_cur \in 0 .. 1 /\ u_cur' = 1 - u_cur /\ u_next' = u_cur /\ u_idx' = 1 - u_cur
      /\ u_cur' \in 0 .. 1 /\ u_cur' # u_cur /\ u_next' = 1 - u_cur' /\ u_idx' \in 0 .. 1
  BY SMTT(30), <1>2, EchoTypes
<1>6. EchoBase' = r
  BY <1>1, <1>2 DEF EchoBase
<1>7. Sending => /\ u_tx[1] = u_cur
                /\ \E p \in Nat \ {0}, e \in Nat :
                     /\ SendingIs(u_cur, p, e) /\ p < e /\ e <= f /\ Left = e - p
                     /\ Frontier = B + p
  <2> SUFFICES ASSUME Sending
               PROVE  /\ u_tx[1] = u_cur
                      /\ \E p \in Nat \ {0}, e \in Nat :
                           /\ SendingIs(u_cur, p, e) /\ p < e /\ e <= f /\ Left = e - p
                           /\ Frontier = B + p
    OBVIOUS
  <2>1. PICK b \in 0 .. 1, p \in Nat \ {0}, e \in Nat :
           /\ SendingIs(b, p, e) /\ p < e /\ e <= BUF_SIZE + 1 /\ Left = e - p
           /\ Frontier = IF b = u_cur THEN EchoBase + p ELSE EchoBase - BUF_SIZE + p
    BY Zenon, SendingNumbers
  <2>2. /\ b = u_cur => e <= f
        /\ b # u_cur => e - p <= BUF_SIZE + 1 - s
    BY Zenon, <1>1, <2>1 DEF EchoInv, EchoSending, SendingIs
  <2>3. e - p # 0 /\ ~(e - p <= BUF_SIZE + 1 - (BUF_SIZE + 1))
    BY <2>1, EchoSizes
  <2>4. b = u_cur
    BY Zenon, <1>3, <2>2, <2>3
  <2>5. QED BY Zenon, <1>1, <2>1, <2>2, <2>4 DEF SendingIs
<1>8. PICK p \in Nat \ {0}, e \in Nat :
         /\ Sending' /\ u_tx'[1] = u_cur /\ u_tx'[2] = p /\ u_tx'[3] = e
         /\ p < e /\ e <= s /\ Left' = e - p /\ Frontier = B + p
  <2>1. CASE Sending
    <3>1. PICK p \in Nat \ {0}, e \in Nat :
             /\ SendingIs(u_cur, p, e) /\ p < e /\ e <= f /\ Left = e - p /\ Frontier = B + p
      BY Zenon, <1>7, <2>1
    <3>2. e <= s
      BY <1>0, <3>1
    <3>3. QED BY Zenon, <1>4, <1>7, <2>1, <3>1, <3>2 DEF SendingIs
  <2>2. CASE ~Sending
    <3>1. f <= s /\ Frontier = B + f
      BY Zenon, <1>1, <2>2 DEF Frontier
    <3>2. s <= s
      OBVIOUS
    <3>3. QED BY Zenon, <1>3, <1>4, <2>2, <3>1, <3>2
  <2>3. QED BY <2>1, <2>2
<1>9. e - p <= BUF_SIZE /\ e - 1 <= BUF_SIZE /\ BUF_SIZE <= r /\ r - BUF_SIZE = B
      /\ \A i \in p .. e - 1 : i \in 1 .. s - 1
  BY <1>3, <1>8, EchoSizes
<1>10. Echo!TypeOK'
  <2>1. 1 \in 1 .. BUF_SIZE + 1
    BY EchoSizes
  <2>2. QED BY Zenon, <1>2, <1>4, <1>5, <2>1 DEF EchoInv, Echo!TypeOK
<1>11. EchoPlaces'
  <2>1. 1 - 1 <= r /\ 1 <= 1 /\ 1 <= BUF_SIZE /\ \A i : i \notin 1 .. 1 - 1
    BY <1>1, EchoSizes
  <2>2. u_received' + u_burst' <= MaxBytes
    BY Zenon, <1>2 DEF EchoInv, EchoPlaces
  <2>3. u_idx' = u_cur'
    BY Zenon, <1>5
  <2>4. QED BY Zenon, <1>1, <1>2, <1>5, <2>1, <2>2, <2>3 DEF EchoPlaces
<1>12. EchoSending'
  <2>1. BUF_SIZE + 1 - 1 = BUF_SIZE /\ 1 <= p
    BY <1>8, EchoSizes
  <2>2. ASSUME NEW i \in p .. e - 1 PROVE u_buf'[u_cur][i] = (r - BUF_SIZE) + i
    BY Zenon, <1>1, <1>2, <1>9, <2>2 DEF EchoInv, EchoPlaces
  <2>3. \A i : EchoByte(u_tx[1], i)' = (r - BUF_SIZE) + i
    BY Zenon, <1>5, <1>6, <1>8 DEF EchoByte
  <2>4. \A i \in u_tx'[2] .. u_tx'[3] - 1 : u_buf'[u_tx'[1]][i] = EchoByte(u_tx[1], i)'
    BY Zenon, <1>8, <2>2, <2>3
  <2>5. Left' <= BUF_SIZE + 1 - u_pos' /\ BUF_SIZE <= EchoBase'
    BY Zenon, <1>2, <1>6, <1>8, <1>9, <2>1
  <2>6. QED BY Zenon, <1>5, <1>8, <2>1, <2>4, <2>5 DEF EchoSending
<1>13. EchoCount'
  <2>1. PICK d \in Nat, L \in Nat : d = u_dropped' /\ L = Left' /\ r = n + d + L
    <3>1. u_dropped' \in Nat /\ Left' \in Nat
      <4>1. e - p \in Nat
        BY <1>8
      <4>2. QED BY <1>4, <1>8, <4>1, EchoSizes
    <3>2. QED BY Zenon, <1>1, <1>4, <3>1
  <2>2. r = n + d + L + (1 - 1)
    <3>1. r = n + d + L
      BY Zenon, <2>1
    <3>2. QED BY <3>1
  <2>3. QED BY Zenon, <1>1, <1>2, <2>1, <2>2 DEF EchoCount
<1>14. EchoOrder'
  <2>1. Frontier' = (r - BUF_SIZE) + p
    BY Zenon, <1>5, <1>6, <1>8 DEF Frontier, EchoByte
  <2>2. QED BY Zenon, <1>2, <1>8, <1>9, <2>1 DEF EchoInv, EchoOrder, Echo!EchoInOrder
<1>15. EchoPolite'
  <2>1. EchoWaits => ~Sending
    <3>1. ASSUME EchoWaits, Sending PROVE FALSE
      <4>1. f = s
        BY Zenon, <1>1, <1>7, <3>1 DEF EchoInv, EchoPolite
      <4>2. QED BY <1>3, <4>1
    <3>2. QED BY <3>1
  <2>2. ~(1 < 1) /\ ~(1 > 1)
    OBVIOUS
  <2>3. QED BY Zenon, <1>2, <1>3, <1>4, <1>5, <1>8, <2>1, <2>2 DEF EchoInv, EchoPolite
<1>16. QED BY Zenon, <1>10, <1>11, <1>12, <1>13, <1>14, <1>15 DEF EchoInv

LEMMA EchoRxIdle == EchoInv /\ Echo!RxIdle => EchoInv'
<1> SUFFICES ASSUME EchoInv, Echo!RxIdle PROVE EchoInv'
  OBVIOUS
<1>1. PICK B \in Nat, f \in Nat \ {0}, s \in Nat \ {0}, r \in Nat, n \in Nat :
         /\ B = EchoBase /\ f = u_from /\ s = u_pos /\ r = u_received /\ n = Len(u_echo)
         /\ B + s = r + 1 /\ f <= s /\ s <= BUF_SIZE + 1 /\ r <= MaxBytes
  BY Zenon, EchoNumbers
<1>0. B + s = r + 1 /\ f <= s /\ s <= BUF_SIZE + 1 /\ r <= MaxBytes
  BY Zenon, <1>1
<1>2. /\ Echo!StartTx(u_cur, u_from, u_pos) /\ ~(u_pos > BUF_SIZE)
      /\ u_gap >= RxTimeout /\ u_from < u_pos /\ u_from' = u_pos
      /\ u_polite' = u_polite /\ EchoWaits' = EchoWaits
      /\ u_burst' = u_burst /\ u_received' = u_received
      /\ u_buf' = u_buf /\ u_cur' = u_cur /\ u_pos' = u_pos /\ u_next' = u_next
      /\ u_idx' = u_idx /\ u_gap' = u_gap /\ u_echo' = u_echo
  BY DEF Echo!RxIdle, Echo!LineIsIdle, Echo!BufferIsFull, EchoWaits
<1>3. f < s /\ s <= BUF_SIZE
  <2>1. f < s /\ ~(s > BUF_SIZE)
    BY Zenon, <1>1, <1>2
  <2>2. QED BY <2>1, EchoSizes
<1>4. /\ ~Sending => /\ Sending' /\ u_dropped' = u_dropped /\ Left' = s - f
                     /\ u_tx'[1] = u_cur /\ u_tx'[2] = f /\ u_tx'[3] = s
      /\ Sending => /\ Sending' /\ u_tx' = u_tx /\ Left' = Left
      /\ u_tx' \in (0 .. 1) \X (0 .. BUF_SIZE) \X (0 .. BUF_SIZE + 1)
      /\ u_dropped' \in 0 .. MaxBytes
      /\ u_received = Len(u_echo) + u_dropped' + Left'
  BY Zenon, <1>1, <1>2, EchoStart
<1>5. /\ EchoBase' = EchoBase /\ \A b, i : (b = u_cur => EchoByte(b, i) = EchoBase + i)
  BY Zenon, <1>2 DEF EchoBase, EchoByte
<1>6. Echo!TypeOK'
  <2>1. u_pos \in 1 .. BUF_SIZE + 1
    BY EchoTypes
  <2>2. QED BY Zenon, <1>2, <1>4, <2>1 DEF EchoInv, Echo!TypeOK
<1>7. EchoPlaces'
  <2>1. s <= s
    OBVIOUS
  <2>2. QED BY Zenon, <1>1, <1>2, <1>3, <1>5, <2>1 DEF EchoInv, EchoPlaces
<1>8. EchoCount'
  <2>1. PICK d \in Nat, L \in Nat : d = u_dropped' /\ L = Left' /\ r = n + d + L
    <3>1. u_dropped' \in Nat /\ Left' \in Nat
      <4>1. u_dropped' \in Nat
        BY <1>4, EchoSizes
      <4>2. s - f \in Nat
        BY <1>3
      <4>3. Sending => Left \in Nat
        BY SendingTypes
      <4>4. QED BY Zenon, <1>4, <4>1, <4>2, <4>3
    <3>2. QED BY Zenon, <1>1, <1>4, <3>1
  <2>2. r = n + d + L + (s - s)
    <3>1. r = n + d + L
      BY Zenon, <2>1
    <3>2. QED BY <3>1
  <2>3. QED BY Zenon, <1>1, <1>2, <2>1, <2>2 DEF EchoCount
<1>9. EchoSending' /\ Frontier' = Frontier
  <2>1. CASE Sending
    <3>1. \A i : EchoByte(u_tx[1], i)' = EchoByte(u_tx[1], i)
      BY Zenon, <1>2, <1>4, <1>5, <2>1 DEF EchoByte
    <3>2. u_tx[1] = u_cur => u_tx[3] <= s
      <4>1. PICK b \in 0 .. 1, p \in Nat \ {0}, e \in Nat :
               /\ SendingIs(b, p, e) /\ p < e /\ e <= BUF_SIZE + 1 /\ Left = e - p
               /\ Frontier = IF b = u_cur THEN EchoBase + p ELSE EchoBase - BUF_SIZE + p
        BY Zenon, <2>1, SendingNumbers
      <4>2. b = u_cur => e <= f
        BY Zenon, <1>1, <2>1, <4>1 DEF EchoInv, EchoSending, SendingIs
      <4>3. e <= f => e <= s
        BY <1>3, <4>1
      <4>4. QED BY Zenon, <4>1, <4>2, <4>3 DEF SendingIs
    <3>3. EchoSending'
      BY Zenon, <1>1, <1>2, <1>4, <1>5, <2>1, <3>1, <3>2 DEF EchoInv, EchoSending
    <3>4. QED BY Zenon, <1>4, <2>1, <3>1, <3>3 DEF Frontier
  <2>2. CASE ~Sending
    <3>1. 1 <= f /\ s <= s /\ \A i \in f .. s - 1 : i \in 1 .. s - 1
      BY <1>0
    <3>2. \A i : EchoByte(u_tx[1], i)' = B + i
      BY Zenon, <1>1, <1>2, <1>4, <1>5, <2>2 DEF EchoByte
    <3>3. \A i \in u_tx'[2] .. u_tx'[3] - 1 : u_buf'[u_tx'[1]][i] = EchoByte(u_tx[1], i)'
      BY Zenon, <1>1, <1>2, <1>4, <2>2, <3>1, <3>2 DEF EchoInv, EchoPlaces
    <3>4. EchoSending'
      BY Zenon, <1>1, <1>2, <1>3, <1>4, <2>2, <3>1, <3>3 DEF EchoSending
    <3>5. Frontier' = B + f /\ Frontier = B + f
      BY Zenon, <1>1, <1>2, <1>4, <1>5, <2>2 DEF Frontier, EchoByte
    <3>6. QED BY <3>4, <3>5
  <2>3. QED BY <2>1, <2>2
<1>10. EchoOrder'
  BY Zenon, <1>2, <1>9 DEF EchoInv, EchoOrder, Echo!EchoInOrder
<1>11. EchoPolite'
  <2>1. ASSUME EchoWaits, Sending PROVE FALSE
    <3>1. u_tx[1] # u_cur
      <4>1. u_tx[1] = u_cur => f = s
        BY Zenon, <1>1, <2>1 DEF EchoInv, EchoPolite
      <4>2. QED BY <1>3, <4>1
    <3>2. PICK L \in Nat, g \in Nat : L = Left /\ g = u_gap /\ g >= RxTimeout
      <4>1. u_gap \in Nat /\ Left \in Nat
        BY <2>1, EchoTypes, SendingTypes
      <4>2. QED BY Zenon, <1>2, <4>1
    <3>3. s > 1 => L <= BUF_SIZE - s - g
      BY Zenon, <1>1, <2>1, <3>1, <3>2 DEF EchoInv, EchoPolite
    <3>4. g >= RxTimeout /\ BUF_SIZE <= RxTimeout + 2
      BY Zenon, <2>1, <3>2 DEF EchoWaits
    <3>5. L = 0
      BY <1>3, <3>3, <3>4, EchoSizes
    <3>6. Left # 0
      BY <2>1, SendingTypes
    <3>7. QED BY Zenon, <3>2, <3>5, <3>6
  <2>2. EchoWaits => u_burst = 0
    <3>1. u_gap > 0
      BY <1>2, EchoSizes, EchoTypes
    <3>2. QED BY Zenon, <1>2, <3>1 DEF EchoInv, EchoPolite
  <2>3. QED BY Zenon, <1>1, <1>2, <1>4, <2>1, <2>2 DEF EchoInv, EchoPolite
<1>12. QED BY Zenon, <1>6, <1>7, <1>8, <1>9, <1>10, <1>11 DEF EchoInv

LEMMA EchoStutters == EchoInv /\ UNCHANGED echoVars => EchoInv'
<1> SUFFICES ASSUME EchoInv, UNCHANGED echoVars PROVE EchoInv'
  OBVIOUS
<1>1. /\ u_polite' = u_polite /\ EchoWaits' = EchoWaits
      /\ u_burst' = u_burst /\ u_received' = u_received
      /\ u_buf' = u_buf /\ u_cur' = u_cur /\ u_pos' = u_pos /\ u_from' = u_from
      /\ u_next' = u_next /\ u_idx' = u_idx /\ u_gap' = u_gap /\ u_tx' = u_tx
      /\ u_echo' = u_echo /\ u_dropped' = u_dropped
  BY DEF echoVars, EchoWaits
<1>2. /\ EchoBase' = EchoBase /\ Sending' = Sending /\ Left' = Left
      /\ \A b, i : EchoByte(b, i)' = EchoByte(b, i)
  BY Zenon, <1>1 DEF EchoBase, Sending, Left, EchoByte, Echo!Idle
<1>3. Frontier' = Frontier /\ \A i : EchoByte(u_tx[1], i)' = EchoByte(u_tx[1], i)
  BY Zenon, <1>1, <1>2 DEF Frontier, EchoByte, EchoBase
<1>4. Echo!TypeOK' /\ EchoPlaces'
  BY Zenon, <1>1, <1>2 DEF EchoInv, Echo!TypeOK, EchoPlaces
<1>5. EchoSending' /\ EchoCount'
  BY Zenon, <1>1, <1>2, <1>3 DEF EchoInv, EchoSending, EchoCount
<1>6. EchoOrder' /\ EchoPolite'
  BY Zenon, <1>1, <1>2, <1>3 DEF EchoInv, EchoOrder, EchoPolite, Echo!EchoInOrder
<1>7. QED BY Zenon, <1>4, <1>5, <1>6 DEF EchoInv

LEMMA EchoHolds == Spec => []EchoInv
<1>1. EchoInv /\ Echo!Next => EchoInv'
  BY Zenon, EchoBurst, EchoFull, EchoRxIdle, EchoByteIn, EchoNoByteIn DEF Echo!Next
<1>2. EchoInv /\ [Next]_vars => EchoInv'
  BY Zenon, <1>1, EchoStutters, StepsApart
<1> QED BY EchoInit, <1>2, Behaviour, PTL

\* app05: whatever the sender does, and however long the line must be idle to be
\* reported, the echo may have holes but is never garbled: no byte comes back
\* twice, out of turn or after the DMA has written over it.
THEOREM EchoIsNeverGarbled == Spec => []Echo!EchoInOrder
<1>1. EchoInv => Echo!EchoInOrder
  BY Zenon DEF EchoInv, EchoOrder
<1> QED BY EchoHolds, <1>1, PTL

\* app05: besides, a sender that waits for its echo gets all of it, when a line that
\* is idle long enough to be reported has also been idle long enough to transmit
\* the end of the buffer before it.
THEOREM EchoIsFaithful == ASSUME BUF_SIZE <= RxTimeout + 2 PROVE Spec => []EchoSound
<1>1. EchoInv => EchoSound
  <2> SUFFICES ASSUME EchoInv PROVE EchoSound
    OBVIOUS
  <2>1. u_echo \in Seq(1 .. MaxBytes) /\ Echo!EchoInOrder
    BY Zenon DEF EchoInv, EchoOrder, Echo!TypeOK
  <2>2. ASSUME u_polite PROVE u_echo = [i \in 1 .. Len(u_echo) |-> i] /\ u_dropped = 0
    <3>1. u_dropped = 0 /\ \A i \in 1 .. Len(u_echo) : u_echo[i] = i
      BY Zenon, <2>2 DEF EchoInv, EchoPolite, EchoWaits
    <3>2. u_echo = [i \in 1 .. Len(u_echo) |-> u_echo[i]]
      BY <2>1
    <3>3. QED BY Zenon, <3>1, <3>2
  <2>3. QED BY Zenon, <2>1, <2>2 DEF EchoSound, Echo!PoliteEcho
<1> QED BY EchoHolds, <1>1, PTL
=============================================================================
