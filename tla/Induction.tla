----------------------------- MODULE Induction -----------------------------
(***************************************************************************)
(* Induction over the natural numbers, for sets instead of predicates, and *)
(* what it gives about recursive functions.  The well-founded order it     *)
(* comes from is that of the finite sets 1 .. n.                           *)
(***************************************************************************)
EXTENDS Integers, FiniteSets, FiniteSetTheorems, TLAPS

LEMMA LeastNatural ==
  ASSUME NEW T \in SUBSET Nat, T # {}
  PROVE  \E x \in T : \A y \in T : x <= y
<1> DEFINE Intervals == {1 .. n : n \in T}
           Smaller   == StrictSubsetOrdering(Nat)
<1>1. Intervals \subseteq FiniteSubsetsOf(Nat) /\ Intervals # {}
  <2>1. ASSUME NEW n \in T PROVE 1 .. n \in FiniteSubsetsOf(Nat)
    <3>1. IsFiniteSet(1 .. n)
      BY FS_Interval
    <3>2. QED BY <3>1 DEF FiniteSubsetsOf
  <2>2. QED BY <2>1
<1>2. IsWellFoundedOn(Smaller, FiniteSubsetsOf(Nat))
  BY FS_StrictSubsetOrderingWellFounded
<1>3. PICK m \in Intervals : \A s \in Intervals : <<s, m>> \notin Smaller
  <2> HIDE DEF Intervals, Smaller
  <2> QED BY <1>1, <1>2, WFMin
<1>4. PICK x \in T : m = 1 .. x
  BY <1>3
<1>5. ASSUME NEW y \in T, ~(x <= y) PROVE FALSE
  <2>1. 1 .. y \subseteq 1 .. x /\ x \in 1 .. x /\ x \notin 1 .. y
    BY <1>5
  <2>2. /\ 1 .. y \in SUBSET Nat /\ m \in SUBSET Nat
        /\ 1 .. y \subseteq m /\ 1 .. y # m
    BY <1>4, <2>1
  <2>3. <<1 .. y, m>> \in Smaller
    BY <2>2 DEF StrictSubsetOrdering
  <2>4. QED BY <1>3, <2>3
<1>6. QED BY <1>4, <1>5

LEMMA NaturalInduction ==
  ASSUME NEW T, 0 \in T, \A n \in Nat : n \in T => n + 1 \in T
  PROVE  \A n \in Nat : n \in T
<1> SUFFICES ASSUME \E n \in Nat : n \notin T PROVE FALSE
  OBVIOUS
<1> DEFINE Others == {n \in Nat : n \notin T}
<1>1. PICK x \in Others : \A y \in Others : x <= y
  <2>1. Others \in SUBSET Nat /\ Others # {}
    OBVIOUS
  <2> HIDE DEF Others
  <2> QED BY <2>1, LeastNatural
<1>2. x # 0 /\ x \in Nat
  OBVIOUS
<1>3. x - 1 \in Nat /\ x - 1 \notin Others
  BY <1>1, <1>2
<1>4. QED BY <1>2, <1>3

LEMMA StrongInduction ==
  ASSUME NEW T, \A n \in Nat : (\A k \in 0 .. n - 1 : k \in T) => n \in T
  PROVE  \A n \in Nat : n \in T
<1> SUFFICES ASSUME \E n \in Nat : n \notin T PROVE FALSE
  OBVIOUS
<1> DEFINE Others == {n \in Nat : n \notin T}
<1>1. PICK x \in Others : \A y \in Others : x <= y
  <2>1. Others \in SUBSET Nat /\ Others # {}
    OBVIOUS
  <2> HIDE DEF Others
  <2> QED BY <2>1, LeastNatural
<1>2. \A k \in 0 .. x - 1 : k \in T
  BY <1>1
<1>3. QED BY <1>2

\* f is the function on 0 .. m with a first value and a step from each value to the next.
Recursive(f, X, m, first, step) ==
  /\ f \in [0 .. m -> X] /\ f[0] = first
  /\ \A n \in 1 .. m : f[n] = step[<<n, f[n - 1]>>]

LEMMA PrimitiveRecursion ==
  ASSUME NEW X, NEW m \in Nat, NEW first \in X, NEW step \in [(1 .. m) \X X -> X]
  PROVE  \E f : Recursive(f, X, m, first, step)
<1> DEFINE Upto(k, f) == f[0] = first /\ \A n \in 1 .. k : f[n] = step[<<n, f[n - 1]>>]
           T == {k \in Nat : k <= m => \E f \in [0 .. k -> X] : Upto(k, f)}
<1>1. 0 \in T
  <2>1. [i \in 0 .. 0 |-> first] \in [0 .. 0 -> X]
    OBVIOUS
  <2>2. Upto(0, [i \in 0 .. 0 |-> first])
    OBVIOUS
  <2>3. QED BY <2>1, <2>2
<1>2. ASSUME NEW k \in Nat, k \in T PROVE k + 1 \in T
  <2> SUFFICES ASSUME k + 1 <= m PROVE \E f \in [0 .. k + 1 -> X] : Upto(k + 1, f)
    OBVIOUS
  <2>1. PICK f \in [0 .. k -> X] : Upto(k, f)
    BY <1>2
  <2> DEFINE g == [i \in 0 .. k + 1 |-> IF i <= k THEN f[i] ELSE step[<<k + 1, f[k]>>]]
  <2>2. step[<<k + 1, f[k]>>] \in X
    <3>1. k + 1 \in 1 .. m /\ f[k] \in X
      OBVIOUS
    <3>2. <<k + 1, f[k]>> \in (1 .. m) \X X
      BY <3>1
    <3>3. QED BY <3>2
  <2>3. g \in [0 .. k + 1 -> X]
    BY <2>2
  <2>4. Upto(k + 1, g)
    <3>1. g[0] = first
      BY <2>1
    <3>2. ASSUME NEW n \in 1 .. k + 1 PROVE g[n] = step[<<n, g[n - 1]>>]
      <4>1. g[n - 1] = f[n - 1]
        OBVIOUS
      <4>2. CASE n <= k
        <5>1. g[n] = f[n] /\ n \in 1 .. k
          BY <4>2
        <5>2. f[n] = step[<<n, f[n - 1]>>]
          BY <2>1, <5>1
        <5>3. QED BY <4>1, <5>1, <5>2
      <4>3. CASE n = k + 1
        <5>1. g[n] = step[<<k + 1, f[k]>>] /\ n - 1 = k
          BY <4>3
        <5> HIDE DEF g
        <5>2. QED BY <4>1, <4>3, <5>1
      <4>4. QED BY <4>2, <4>3
    <3>3. QED BY <3>1, <3>2
  <2>5. QED BY <2>3, <2>4
<1>3. m \in T
  <2> HIDE DEF T
  <2>1. \A n \in Nat : n \in T
    BY <1>1, <1>2, NaturalInduction
  <2>2. QED BY <2>1
<1>4. QED BY <1>3 DEF Recursive
=============================================================================
