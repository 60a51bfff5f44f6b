------------------------ MODULE FrameDecoder_proofs ------------------------
(* What FrameDecoder returns does not depend on how the stream is split.    *)
EXTENDS FrameDecoder, SequenceTheorems, Induction

-----------------------------------------------------------------------------
(* First marks and parts of sequences. *)

LEMMA LeastOf ==
  ASSUME NEW M \in SUBSET Nat, M # {},
         NEW j, j = CHOOSE i \in M : \A k \in M : i <= k
  PROVE  j \in M /\ \A k \in M : j <= k
<1>1. \E i \in M : \A k \in M : i <= k
  BY LeastNatural
<1>2. QED BY <1>1

LEMMA FirstMarkFacts ==
  ASSUME NEW s \in Seq(Nat), Marks(s) # {}
  PROVE  /\ FirstMark(s) \in Marks(s) /\ \A j \in Marks(s) : FirstMark(s) <= j
<1>1. Marks(s) \in SUBSET Nat
  BY DEF Marks
<1>2. FirstMark(s) = CHOOSE i \in Marks(s) : \A j \in Marks(s) : i <= j
  BY DEF FirstMark
<1>3. QED BY <1>1, <1>2, LeastOf

LEMMA FirstFromFacts ==
  ASSUME NEW s \in Seq(Nat), NEW i \in Nat, MarksFrom(s, i) # {}
  PROVE  /\ FirstFrom(s, i) \in MarksFrom(s, i)
         /\ \A j \in MarksFrom(s, i) : FirstFrom(s, i) <= j
<1>1. MarksFrom(s, i) \in SUBSET Nat
  BY DEF MarksFrom
<1>2. FirstFrom(s, i) = CHOOSE j \in MarksFrom(s, i) : \A k \in MarksFrom(s, i) : j <= k
  BY DEF FirstFrom
<1>3. QED BY <1>1, <1>2, LeastOf

LEMMA Cut ==
  ASSUME NEW X, NEW s \in Seq(X), NEW a \in Nat, NEW b \in Nat,
         1 <= a, a <= b + 1, b <= Len(s)
  PROVE  /\ SubSeq(s, a, b) \in Seq(X)
         /\ Len(SubSeq(s, a, b)) = b - a + 1
         /\ \A i \in 1 .. b - a + 1 : SubSeq(s, a, b)[i] = s[a + i - 1]
OBVIOUS

LEMMA CutOfCut ==
  ASSUME NEW X, NEW s \in Seq(X), NEW a \in Nat, NEW b \in Nat, NEW c \in Nat, NEW d \in Nat,
         1 <= a, a <= b + 1, b <= Len(s), 1 <= c, c <= d + 1, d <= b - a + 1
  PROVE  SubSeq(SubSeq(s, a, b), c, d) = SubSeq(s, a + c - 1, a + d - 1)
<1> DEFINE t == SubSeq(s, a, b)
<1>1. t \in Seq(X) /\ Len(t) = b - a + 1 /\ \A i \in 1 .. b - a + 1 : t[i] = s[a + i - 1]
  BY Cut
<1> HIDE DEF t
<1>2. /\ Len(SubSeq(t, c, d)) = d - c + 1 /\ SubSeq(t, c, d) \in Seq(X)
      /\ \A i \in 1 .. d - c + 1 : SubSeq(t, c, d)[i] = t[c + i - 1]
  BY <1>1
<1> DEFINE e == a + c - 1
           g == a + d - 1
<1>3. e \in Nat /\ g \in Nat /\ 1 <= e /\ e <= g + 1 /\ g <= Len(s) /\ g - e + 1 = d - c + 1
  OBVIOUS
<1>4. /\ Len(SubSeq(s, e, g)) = d - c + 1 /\ SubSeq(s, e, g) \in Seq(X)
      /\ \A i \in 1 .. d - c + 1 : SubSeq(s, e, g)[i] = s[e + i - 1]
  <2> HIDE DEF e, g
  <2>1. QED BY <1>3, Cut
<1>5. ASSUME NEW i \in 1 .. d - c + 1 PROVE SubSeq(t, c, d)[i] = SubSeq(s, e, g)[i]
  <2>1. c + i - 1 \in 1 .. b - a + 1 /\ a + (c + i - 1) - 1 = e + i - 1
    OBVIOUS
  <2>2. t[c + i - 1] = s[e + i - 1]
    BY <1>1, <2>1
  <2>3. QED BY <1>2, <1>4, <2>2
<1> HIDE DEF e, g
<1>6. SubSeq(t, c, d) = SubSeq(s, e, g)
  <2> DEFINE u == SubSeq(t, c, d)
             v == SubSeq(s, e, g)
  <2>1. /\ u \in Seq(X) /\ v \in Seq(X) /\ Len(u) = Len(v) /\ Len(u) = d - c + 1
        /\ \A i \in 1 .. d - c + 1 : u[i] = v[i]
    BY <1>2, <1>4, <1>5
  <2> HIDE DEF u, v
  <2>2. u = v
    BY <2>1, SeqEqual
  <2>3. QED BY <2>2 DEF u, v
<1>7. QED BY <1>6 DEF t, e, g

-----------------------------------------------------------------------------
(* Decode, unfolded. *)

Frames == Seq(Seq(Nat))
Rests(s) == [1 .. Len(s) + 1 -> Frames]

Body(s, rest, i) ==
  LET j == FirstFrom(s, i) IN
  IF MarksFrom(s, i) = {} \/ j + 2 > Len(s) \/ FrameEnd(s, j) > Len(s) THEN <<>>
  ELSE IF s[FrameEnd(s, j)] = T
    THEN <<SubSeq(s, j, FrameEnd(s, j))>> \o rest[FrameEnd(s, j) + 1]
    ELSE rest[j + 2]

Unfolds(s, rest) == rest = [i \in 1 .. Len(s) + 1 |-> Body(s, rest, i)]

\* There is a whole frame, or what looks like one, from position i on.
Whole(s, i) ==
  /\ MarksFrom(s, i) # {}
  /\ FirstFrom(s, i) + 2 <= Len(s) /\ FrameEnd(s, FirstFrom(s, i)) <= Len(s)

LEMMA WholeFacts ==
  ASSUME NEW s \in Seq(Nat), NEW i \in 1 .. Len(s) + 1, Whole(s, i)
  PROVE  /\ FirstFrom(s, i) \in i .. Len(s)
         /\ FirstFrom(s, i) + 2 \in i + 1 .. Len(s) + 1
         /\ FrameEnd(s, FirstFrom(s, i)) \in FirstFrom(s, i) .. Len(s)
         /\ FrameEnd(s, FirstFrom(s, i)) + 1 \in i + 1 .. Len(s) + 1
         /\ SubSeq(s, FirstFrom(s, i), FrameEnd(s, FirstFrom(s, i))) \in Seq(Nat)
<1> DEFINE j == FirstFrom(s, i)
<1>1. j \in MarksFrom(s, i)
  BY FirstFromFacts DEF Whole
<1>2. j \in i .. Len(s)
  BY <1>1 DEF MarksFrom
<1>3. j + 2 <= Len(s) /\ FrameEnd(s, j) <= Len(s)
  BY DEF Whole
<1> HIDE DEF j
<1>4. s[j + 2] \in Nat
  BY <1>2, <1>3
<1>5. FrameEnd(s, j) \in Nat /\ FrameEnd(s, j) >= j + 3
  <2>1. PICK k \in Nat : k = s[j + 2]
    BY <1>4
  <2>2. FrameEnd(s, j) = j + 3 + k
    BY Zenon, <2>1 DEF FrameEnd, PREFIX_SIZE
  <2>3. j \in Nat
    BY <1>2
  <2>4. QED BY <2>1, <2>2, <2>3
<1>6. /\ j + 2 \in i + 1 .. Len(s) + 1 /\ FrameEnd(s, j) \in j .. Len(s)
      /\ FrameEnd(s, j) + 1 \in i + 1 .. Len(s) + 1
  BY <1>2, <1>3, <1>5
<1>7. SubSeq(s, j, FrameEnd(s, j)) \in Seq(Nat)
  BY <1>2, <1>3, <1>5, Cut
<1>8. QED BY <1>2, <1>6, <1>7 DEF j

LEMMA BodyCases ==
  ASSUME NEW s, NEW rest, NEW i, NEW j, j = FirstFrom(s, i), NEW n, n \in Nat, n = Len(s),
         j + 2 \in Nat, FrameEnd(s, j) \in Nat
  PROVE  /\ MarksFrom(s, i) = {} => Body(s, rest, i) = <<>>
         /\ Whole(s, i) =>
              Body(s, rest, i) = IF s[FrameEnd(s, j)] = T
                THEN <<SubSeq(s, j, FrameEnd(s, j))>> \o rest[FrameEnd(s, j) + 1]
                ELSE rest[j + 2]
BY DEF Body, Whole

LEMMA BodyWhole ==
  ASSUME NEW s \in Seq(Nat), NEW rest, NEW i \in 1 .. Len(s) + 1, Whole(s, i)
  PROVE  LET j == FirstFrom(s, i) IN
         Body(s, rest, i) = IF s[FrameEnd(s, j)] = T
           THEN <<SubSeq(s, j, FrameEnd(s, j))>> \o rest[FrameEnd(s, j) + 1]
           ELSE rest[j + 2]
<1> DEFINE j == FirstFrom(s, i)
<1>1. j + 2 \in Nat /\ FrameEnd(s, j) \in Nat /\ Len(s) \in Nat
  BY SMTT(30), WholeFacts
<1>2. QED BY Zenon, <1>1, BodyCases

LEMMA BodyNone ==
  ASSUME NEW s \in Seq(Nat), NEW rest, NEW i \in 1 .. Len(s) + 1, ~Whole(s, i)
  PROVE  Body(s, rest, i) = <<>>
<1>1. CASE MarksFrom(s, i) = {}
  BY Zenon, <1>1 DEF Body
<1>2. CASE MarksFrom(s, i) # {}
  <2> DEFINE j == FirstFrom(s, i)
  <2>1. j \in i .. Len(s)
    BY <1>2, FirstFromFacts DEF MarksFrom
  <2>2. j + 2 > Len(s) \/ FrameEnd(s, j) > Len(s)
    <3> SUFFICES ASSUME ~(j + 2 > Len(s)) PROVE FrameEnd(s, j) > Len(s)
      OBVIOUS
    <3>1. j + 2 <= Len(s)
      BY <2>1
    <3>2. ~(FrameEnd(s, j) <= Len(s))
      BY <1>2, <3>1 DEF Whole
    <3> HIDE DEF j
    <3>3. s[j + 2] \in Nat
      BY <2>1, <3>1
    <3>4. QED BY <2>1, <3>2, <3>3 DEF FrameEnd, PREFIX_SIZE
  <2>3. QED BY Zenon, <2>2 DEF Body
<1>3. QED BY <1>1, <1>2

LEMMA BodyType ==
  ASSUME NEW s \in Seq(Nat), NEW rest, NEW i \in 1 .. Len(s) + 1,
         \A k \in i + 1 .. Len(s) + 1 : rest[k] \in Frames
  PROVE  Body(s, rest, i) \in Frames
<1>1. CASE Whole(s, i)
  <2> DEFINE j == FirstFrom(s, i)
             e == FrameEnd(s, j)
  <2>1. /\ SubSeq(s, j, e) \in Seq(Nat)
        /\ rest[e + 1] \in Seq(Seq(Nat)) /\ rest[j + 2] \in Seq(Seq(Nat))
    BY <1>1, WholeFacts DEF Frames
  <2>2. Body(s, rest, i) = IF s[e] = T THEN <<SubSeq(s, j, e)>> \o rest[e + 1] ELSE rest[j + 2]
    BY <1>1, BodyWhole
  <2> HIDE DEF j, e
  <2>3. <<SubSeq(s, j, e)>> \o rest[e + 1] \in Seq(Seq(Nat))
    BY <2>1
  <2>4. QED BY <2>1, <2>2, <2>3 DEF Frames
<1>2. CASE ~Whole(s, i)
  BY <1>2, BodyNone, EmptySeq DEF Frames
<1>3. QED BY <1>1, <1>2

\* Only what lies behind a position matters for it.
LEMMA BodyLocal ==
  ASSUME NEW s \in Seq(Nat), NEW t, NEW u, NEW i \in 1 .. Len(s) + 1,
         \A k \in i + 1 .. Len(s) + 1 : t[k] = u[k]
  PROVE  Body(s, t, i) = Body(s, u, i)
<1>1. CASE Whole(s, i)
  <2> DEFINE j == FirstFrom(s, i)
             e == FrameEnd(s, j)
  <2>1. t[e + 1] = u[e + 1] /\ t[j + 2] = u[j + 2]
    BY <1>1, WholeFacts
  <2>2. /\ Body(s, t, i) = IF s[e] = T THEN <<SubSeq(s, j, e)>> \o t[e + 1] ELSE t[j + 2]
        /\ Body(s, u, i) = IF s[e] = T THEN <<SubSeq(s, j, e)>> \o u[e + 1] ELSE u[j + 2]
    BY <1>1, BodyWhole
  <2> HIDE DEF j, e
  <2>3. CASE s[e] = T
    BY Zenon, <2>1, <2>2, <2>3
  <2>4. CASE s[e] # T
    BY Zenon, <2>1, <2>2, <2>4
  <2>5. QED BY <2>3, <2>4
<1>2. CASE ~Whole(s, i)
  BY <1>2, BodyNone
<1>3. QED BY <1>1, <1>2

\* The table is filled from its end.
LEMMA DecodeExists ==
  ASSUME NEW s \in Seq(Nat)
  PROVE  \E rest \in Rests(s) : Unfolds(s, rest)
<1> DEFINE L == Len(s) + 1
           X == Rests(s)
           first == [i \in 1 .. L |-> <<>>]
           Set(t, i) == [t EXCEPT ![i] = Body(s, t, i)]
           step == [p \in (1 .. L) \X X |-> Set(p[2], L + 1 - p[1])]
<1>1. L \in Nat /\ first \in X
  BY DEF Rests, Frames
<1>2. ASSUME NEW t \in X, NEW i \in 1 .. L PROVE Set(t, i) \in X
  <2>1. Body(s, t, i) \in Frames
    BY BodyType DEF Rests
  <2>2. QED BY <2>1 DEF Rests
<1>3. step \in [(1 .. L) \X X -> X]
  <2>1. ASSUME NEW p \in (1 .. L) \X X PROVE Set(p[2], L + 1 - p[1]) \in X
    <3>1. p[2] \in X /\ L + 1 - p[1] \in 1 .. L
      BY <1>1
    <3> HIDE DEF X, Set
    <3>2. QED BY <1>2, <3>1
  <2> HIDE DEF X, Set
  <2>2. QED BY <2>1
<1>4. PICK f : Recursive(f, X, L, first, step)
  <2> HIDE DEF L, X, first, step
  <2>1. QED BY <1>1, <1>3, PrimitiveRecursion
<1>5. ASSUME NEW n \in 1 .. L PROVE f[n] = Set(f[n - 1], L + 1 - n) /\ f[n - 1] \in X
  <2>1. f[n - 1] \in X /\ n - 1 \in 0 .. L
    <3>1. n - 1 \in 0 .. L
      BY <1>1
    <3> HIDE DEF X, L, first, step
    <3>2. f \in [0 .. L -> X]
      BY <1>4 DEF Recursive
    <3>3. QED BY Zenon, <3>1, <3>2
  <2>2. <<n, f[n - 1]>> \in (1 .. L) \X X
    BY <2>1
  <2>3. f[n] = step[<<n, f[n - 1]>>]
    BY <1>4 DEF Recursive
  <2> HIDE DEF X, Set
  <2>4. QED BY <2>1, <2>2, <2>3
<1> DEFINE Filled(n) == \A i \in L + 1 - n .. L : f[n][i] = Body(s, f[n], i)
           N == {n \in Nat : n <= L => Filled(n)}
<1>6. 0 \in N
  BY <1>1
<1>7. ASSUME NEW n \in Nat, n \in N PROVE n + 1 \in N
  <2> SUFFICES ASSUME n + 1 <= L PROVE Filled(n + 1)
    OBVIOUS
  <2> DEFINE x == L - n
  <2>1. n + 1 \in 1 .. L /\ (n + 1) - 1 = n /\ L + 1 - (n + 1) = x /\ x \in 1 .. L
    BY <1>1
  <2>2. f[n + 1] = Set(f[n], x) /\ f[n] \in X
    BY Zenon, <1>5, <2>1
  <2>3. DOMAIN f[n] = 1 .. L
    BY <2>2 DEF Rests
  <2>4. f[n + 1][x] = Body(s, f[n], x) /\ \A k \in 1 .. L : k # x => f[n + 1][k] = f[n][k]
    <3> HIDE DEF L, x
    <3>1. QED BY <2>1, <2>2, <2>3
  <2>5. ASSUME NEW i \in x .. L PROVE f[n + 1][i] = Body(s, f[n + 1], i)
    <3>1. i \in 1 .. L /\ \A k \in i + 1 .. L : k \in 1 .. L /\ k # x
      BY <2>1, <1>1
    <3>2. \A k \in i + 1 .. L : f[n + 1][k] = f[n][k]
      BY Zenon, <2>4, <3>1
    <3>3. Body(s, f[n + 1], i) = Body(s, f[n], i)
      BY <3>1, <3>2, BodyLocal
    <3>4. CASE i = x
      BY <2>4, <3>3, <3>4
    <3>5. CASE i # x
      <4>1. f[n + 1][i] = f[n][i]
        BY Zenon, <2>4, <3>1, <3>5
      <4>2. i \in L + 1 - n .. L
        BY <2>1, <3>5
      <4>3. n <= L
        BY <1>1, <2>1
      <4>4. f[n][i] = Body(s, f[n], i)
        BY <1>7, <4>2, <4>3
      <4>5. QED BY <3>3, <4>1, <4>4
    <3>6. QED BY <3>4, <3>5
  <2>6. QED BY <2>1, <2>5
<1>8. \A n \in Nat : n \in N
  <2> HIDE DEF N
  <2>1. QED BY <1>6, <1>7, NaturalInduction
<1>9. \A i \in 1 .. L : f[L][i] = Body(s, f[L], i)
  BY <1>1, <1>8
<1>10. f[L] \in Rests(s)
  BY <1>1, <1>4 DEF Recursive
<1>11. f[L] = [i \in 1 .. L |-> f[L][i]]
  BY <1>10 DEF Rests
<1>12. Unfolds(s, f[L])
  BY <1>9, <1>11 DEF Unfolds
<1>13. QED BY <1>10, <1>12

LEMMA DecodeUnfolds ==
  ASSUME NEW s \in Seq(Nat)
  PROVE  \A i \in 1 .. Len(s) + 1 :
           Decode(s)[i] = Body(s, Decode(s), i) /\ Decode(s)[i] \in Frames
<1>1. Decode(s) = CHOOSE rest : Unfolds(s, rest)
  BY DEF Decode, Unfolds, Body
<1>2. Unfolds(s, Decode(s))
  BY <1>1, DecodeExists
<1>3. \A i \in 1 .. Len(s) + 1 : Decode(s)[i] = Body(s, Decode(s), i)
  BY Zenon, <1>2 DEF Unfolds
<1> DEFINE L == Len(s) + 1
           N == {n \in Nat : \A i \in 1 .. L : i + n = L => Decode(s)[i] \in Frames}
<1>4. ASSUME NEW n \in Nat, \A k \in 0 .. n - 1 : k \in N PROVE n \in N
  <2> SUFFICES ASSUME NEW i \in 1 .. L, i + n = L PROVE Decode(s)[i] \in Frames
    OBVIOUS
  <2>1. ASSUME NEW k \in i + 1 .. L PROVE Decode(s)[k] \in Frames
    <3>1. k \in 1 .. L /\ L - k \in 0 .. n - 1 /\ k + (L - k) = L
      OBVIOUS
    <3>2. L - k \in N
      BY <1>4, <3>1
    <3>3. QED BY <3>1, <3>2
  <2>2. Body(s, Decode(s), i) \in Frames
    BY <2>1, BodyType
  <2>3. QED BY <1>3, <2>2
<1>5. \A n \in Nat : n \in N
  <2> HIDE DEF N
  <2>1. QED BY <1>4, StrongInduction
<1>6. ASSUME NEW i \in 1 .. L PROVE Decode(s)[i] \in Frames
  <2>1. L - i \in Nat /\ i + (L - i) = L
    OBVIOUS
  <2>2. QED BY <1>5, <2>1
<1>7. QED BY <1>3, <1>6

-----------------------------------------------------------------------------
(* The loop, unrolled. *)

States == [buf : Seq(Nat), expected : Nat, frames : Frames]

LEMMA KeepCut ==
  ASSUME NEW s \in Seq(Nat)
  PROVE  /\ Keep(s) \in Seq(Nat) /\ Len(Keep(s)) <= Len(s) /\ Marks(Keep(s)) = {}
         /\ Len(s) <= 1 => Keep(s) = s
         /\ Len(s) > 1 /\ s[Len(s)] = M1 => Keep(s) = <<M1>>
         /\ Len(s) > 1 /\ s[Len(s)] # M1 => Keep(s) = <<>>
<1>1. /\ Len(s) <= 1 => Keep(s) = s
      /\ Len(s) > 1 /\ s[Len(s)] = M1 => Keep(s) = <<M1>>
      /\ Len(s) > 1 /\ s[Len(s)] # M1 => Keep(s) = <<>>
  BY DEF Keep
<1>2. /\ <<M1>> \in Seq(Nat) /\ Len(<<M1>>) = 1 /\ <<>> \in Seq(Nat) /\ Len(<<>>) = 0
  BY DecoderAssumption
<1>3. Keep(s) \in Seq(Nat) /\ Len(Keep(s)) <= Len(s) /\ Len(Keep(s)) <= 1
  <2>1. Len(s) \in Nat
    OBVIOUS
  <2>2. CASE Len(s) <= 1
    BY <1>1, <2>2
  <2>3. CASE Len(s) > 1 /\ s[Len(s)] = M1
    <3>1. Keep(s) \in Seq(Nat) /\ Len(Keep(s)) = 1
      BY Zenon, <1>1, <1>2, <2>3
    <3>2. QED BY <2>1, <2>3, <3>1
  <2>4. CASE Len(s) > 1 /\ s[Len(s)] # M1
    <3>1. Keep(s) \in Seq(Nat) /\ Len(Keep(s)) = 0
      BY Zenon, <1>1, <1>2, <2>4
    <3>2. QED BY <2>1, <2>4, <3>1
  <2>5. QED BY <2>1, <2>2, <2>3, <2>4
<1>4. Marks(Keep(s)) = {}
  BY <1>3 DEF Marks, MarkAt
<1>5. QED BY <1>1, <1>3, <1>4

LEMMA FromFacts ==
  ASSUME NEW s \in Seq(Nat), NEW i \in 1 .. Len(s) + 1
  PROVE  /\ From(s, i) \in Seq(Nat) /\ Len(From(s, i)) = Len(s) - i + 1
         /\ \A k \in 1 .. Len(s) - i + 1 : From(s, i)[k] = s[i + k - 1]
BY DEF From

LEMMA MarkFacts ==
  ASSUME NEW s \in Seq(Nat), Marks(s) # {}
  PROVE  /\ FirstMark(s) \in 1 .. Len(s) - 1
         /\ s[FirstMark(s)] = M1 /\ s[FirstMark(s) + 1] = M2
         /\ \A j \in 1 .. FirstMark(s) - 1 : ~MarkAt(s, j)
<1>1. FirstMark(s) \in Marks(s) /\ \A j \in Marks(s) : FirstMark(s) <= j
  BY FirstMarkFacts
<1>2. Marks(s) = {j \in 1 .. Len(s) : MarkAt(s, j)}
  BY DEF Marks
<1>3. FirstMark(s) \in 1 .. Len(s) /\ MarkAt(s, FirstMark(s))
  BY <1>1, <1>2
<1>4. ASSUME NEW j \in 1 .. FirstMark(s) - 1 PROVE ~MarkAt(s, j)
  BY <1>1, <1>2, <1>3
<1>5. QED BY <1>3, <1>4 DEF MarkAt

LEMMA StateFields ==
  ASSUME NEW b, NEW e, NEW fs
  PROVE  /\ State(b, e, fs).buf = b /\ State(b, e, fs).expected = e
         /\ State(b, e, fs).frames = fs
         /\ b \in Seq(Nat) /\ e \in Nat /\ fs \in Frames => State(b, e, fs) \in States
BY DEF State, States

\* The three things that Search may find.
LEMMA SearchCases ==
  ASSUME NEW st \in States
  PROVE  /\ st.expected # 0 => Search(st) = st
         /\ st.expected = 0 /\ Marks(st.buf) = {} =>
              Search(st) = State(Keep(st.buf), 0, st.frames)
         /\ st.expected = 0 /\ Marks(st.buf) # {} =>
              LET b == From(st.buf, FirstMark(st.buf)) IN
              /\ Len(b) < 3 => Search(st) = State(b, 0, st.frames)
              /\ Len(b) >= 3 => Search(st) = State(b, 3 + b[3] + 1, st.frames)
<1> DEFINE b == From(st.buf, FirstMark(st.buf))
<1>1. st.buf \in Seq(Nat)
  BY DEF States
<1>2. Marks(st.buf) # {} => Len(b) \in Nat
  BY <1>1, MarkFacts, FromFacts
<1>3. st.expected # 0 => Search(st) = st
  BY DEF Search
<1>4. st.expected = 0 /\ Marks(st.buf) = {} => Search(st) = State(Keep(st.buf), 0, st.frames)
  BY DEF Search
<1>5. st.expected = 0 /\ Marks(st.buf) # {} =>
        Search(st) = State(b, IF Len(b) < 3 THEN 0 ELSE 3 + b[3] + 1, st.frames)
  BY DEF Search, PREFIX_SIZE, SUFFIX_SIZE
<1> HIDE DEF b
<1>6. QED BY <1>2, <1>3, <1>4, <1>5 DEF b

LEMMA SearchType ==
  ASSUME NEW st \in States
  PROVE  Search(st) \in States
<1>1. st.buf \in Seq(Nat) /\ st.expected \in Nat /\ st.frames \in Frames
  BY DEF States
<1>2. CASE st.expected # 0
  BY <1>2, SearchCases
<1>3. CASE st.expected = 0 /\ Marks(st.buf) = {}
  <2>1. Keep(st.buf) \in Seq(Nat)
    BY <1>1, KeepCut
  <2>2. Search(st) = State(Keep(st.buf), 0, st.frames)
    BY <1>3, SearchCases
  <2>3. QED BY <1>1, <2>1, <2>2, StateFields
<1>4. CASE st.expected = 0 /\ Marks(st.buf) # {}
  <2> DEFINE b == From(st.buf, FirstMark(st.buf))
  <2>1. b \in Seq(Nat)
    BY <1>1, <1>4, MarkFacts, FromFacts
  <2>2. CASE Len(b) < 3
    BY <1>1, <1>4, <2>1, <2>2, SearchCases, StateFields
  <2>3. CASE Len(b) >= 3
    <3>1. 3 + b[3] + 1 \in Nat
      BY <2>1, <2>3
    <3>2. Search(st) = State(b, 3 + b[3] + 1, st.frames)
      BY <1>4, <2>3, SearchCases
    <3> HIDE DEF b
    <3>3. QED BY <1>1, <2>1, <3>1, <3>2, StateFields
  <2>4. QED BY <2>1, <2>2, <2>3
<1>5. QED BY <1>2, <1>3, <1>4

LEMMA ExtractType ==
  ASSUME NEW st \in States, Complete(st), Len(st.buf) >= 2
  PROVE  Extract(st) \in States
<1>1. /\ st.buf \in Seq(Nat) /\ st.expected \in Nat /\ st.frames \in Frames
      /\ Len(st.buf) >= st.expected /\ st.expected > 0
  BY DEF States, Complete
<1>2. From(st.buf, st.expected + 1) \in Seq(Nat) /\ From(st.buf, 3) \in Seq(Nat)
  BY <1>1, FromFacts
<1>3. SubSeq(st.buf, 1, st.expected) \in Seq(Nat)
  BY <1>1, Cut
<1>4. Append(st.frames, SubSeq(st.buf, 1, st.expected)) \in Frames
  BY <1>1, <1>3 DEF Frames
<1>5. QED BY <1>1, <1>2, <1>4, StateFields DEF Extract

Unrolls(f, st) == f = [n \in 0 .. Len(st.buf) |-> IF n = 0 THEN st ELSE Round(f[n - 1])]

LEMMA LoopUnrolls ==
  ASSUME NEW X, NEW st \in X, \A x \in X : Round(x) \in X, st.buf \in Seq(Nat)
  PROVE  \E f \in [0 .. Len(st.buf) -> X] :
           /\ f[0] = st /\ \A n \in 1 .. Len(st.buf) : f[n] = Round(f[n - 1])
           /\ Loop(st) = f[Len(st.buf)]
<1> DEFINE L == Len(st.buf)
           step == [p \in (1 .. L) \X X |-> Round(p[2])]
<1>1. L \in Nat /\ step \in [(1 .. L) \X X -> X]
  OBVIOUS
<1>2. PICK f : Recursive(f, X, L, st, step)
  <2> HIDE DEF L, step
  <2>1. QED BY <1>1, PrimitiveRecursion
<1>3. ASSUME NEW n \in 1 .. L PROVE f[n] = Round(f[n - 1])
  <2>1. <<n, f[n - 1]>> \in (1 .. L) \X X
    <3>1. n - 1 \in 0 .. L
      BY <1>1
    <3> HIDE DEF L, step
    <3>2. f \in [0 .. L -> X]
      BY <1>2 DEF Recursive
    <3>3. QED BY <3>1, <3>2
  <2>2. QED BY <1>2, <2>1 DEF Recursive
<1>4. Unrolls(f, st)
  BY <1>2, <1>3 DEF Unrolls, Recursive
<1>5. PICK h : Unrolls(h, st) /\ Loop(st) = h[L]
  <2>1. Loop(st) = (CHOOSE g : Unrolls(g, st))[L]
    BY DEF Loop, Unrolls
  <2>2. QED BY <1>4, <2>1
<1>6. h[0] = st /\ \A n \in 1 .. L : h[n] = Round(h[n - 1])
  <2>1. \A n \in 0 .. L : h[n] = IF n = 0 THEN st ELSE Round(h[n - 1])
    BY Zenon, <1>5 DEF Unrolls
  <2>2. 0 \in 0 .. L /\ \A n \in 1 .. L : n \in 0 .. L /\ n # 0
    BY <1>1
  <2>3. QED BY Zenon, <2>1, <2>2
<1> DEFINE N == {n \in Nat : n <= L => h[n] \in X}
<1>7. 0 \in N
  BY <1>6
<1>8. ASSUME NEW n \in Nat, n \in N PROVE n + 1 \in N
  <2> SUFFICES ASSUME n + 1 <= L PROVE h[n + 1] \in X
    OBVIOUS
  <2>1. n + 1 \in 1 .. L /\ (n + 1) - 1 = n /\ h[n] \in X
    BY <1>1, <1>8
  <2>2. h[n + 1] = Round(h[n])
    BY Zenon, <1>6, <2>1
  <2>3. QED BY <2>1, <2>2
<1>9. \A n \in Nat : n \in N
  <2> HIDE DEF N
  <2>1. QED BY <1>7, <1>8, NaturalInduction
<1>10. h = [n \in 0 .. L |-> h[n]]
  <2>1. h = [n \in 0 .. L |-> IF n = 0 THEN st ELSE Round(h[n - 1])]
    BY <1>5 DEF Unrolls
  <2>2. QED BY <2>1
<1>11. h \in [0 .. L -> X]
  BY <1>9, <1>10
<1>12. QED BY <1>5, <1>6, <1>11

-----------------------------------------------------------------------------
(* Where the decoder is in the stream: its buffer begins at p and ends at f, *)
(* and what it has returned is what comes before p, however the stream goes  *)
(* on behind f.                                                              *)

Prefix(s, m)  == SubSeq(s, 1, m)
Rest(s, m, p) == Decode(Prefix(s, m))[p]

Continues(s, fs, p, f) == \A m \in f .. Len(s) : fs \o Rest(s, m, p) = Rest(s, m, 1)

Expecting(s, n, p, f) == p + 2 <= f /\ s[p] = M1 /\ s[p + 1] = M2 /\ n = 3 + s[p + 2] + 1

Holds(s, st, p, f) ==
  /\ st \in States /\ p \in 1 .. f + 1
  /\ st.buf = SubSeq(s, p, f)
  /\ Continues(s, st.frames, p, f)
  /\ st.expected # 0 => Expecting(s, st.expected, p, f)

LEMMA PrefixFacts ==
  ASSUME NEW s \in Seq(Nat), NEW m \in 0 .. Len(s)
  PROVE  /\ Prefix(s, m) \in Seq(Nat) /\ Len(Prefix(s, m)) = m
         /\ \A i \in 1 .. m : Prefix(s, m)[i] = s[i]
<1>1. m \in Nat /\ 1 <= m + 1 /\ m <= Len(s) /\ m - 1 + 1 = m
  OBVIOUS
<1>2. QED BY <1>1, Cut DEF Prefix

LEMMA RestUnfolds ==
  ASSUME NEW s \in Seq(Nat), NEW m \in 0 .. Len(s), NEW p \in 1 .. m + 1
  PROVE  /\ Rest(s, m, p) = Body(Prefix(s, m), Decode(Prefix(s, m)), p)
         /\ Rest(s, m, p) \in Frames
<1>1. Prefix(s, m) \in Seq(Nat) /\ p \in 1 .. Len(Prefix(s, m)) + 1
  BY PrefixFacts
<1>2. QED BY <1>1, DecodeUnfolds DEF Rest

\* Nothing begins between p and q.
LEMMA Skipped ==
  ASSUME NEW s \in Seq(Nat), NEW m \in 0 .. Len(s), NEW p \in 1 .. m + 1,
         NEW q \in p .. m + 1, \A j \in p .. q - 1 : ~MarkAt(Prefix(s, m), j)
  PROVE  Rest(s, m, p) = Rest(s, m, q)
<1> DEFINE t == Prefix(s, m)
           d == Decode(t)
<1>1. t \in Seq(Nat) /\ Len(t) = m
  BY PrefixFacts
<1> HIDE DEF t
<1>2. MarksFrom(t, p) = MarksFrom(t, q)
  <2>1. \A j \in p .. m : MarkAt(t, j) => j \in q .. m
    BY DEF t
  <2>2. \A j \in q .. m : j \in p .. m
    OBVIOUS
  <2>3. QED BY <1>1, <2>1, <2>2 DEF MarksFrom
<1>3. FirstFrom(t, p) = FirstFrom(t, q)
  BY Zenon, <1>2 DEF FirstFrom
<1> HIDE DEF d
<1>4. Body(t, d, p) = Body(t, d, q)
  BY Zenon, <1>2, <1>3 DEF Body
<1>5. Rest(s, m, p) = Body(t, d, p) /\ Rest(s, m, q) = Body(t, d, q)
  BY RestUnfolds DEF t, d
<1>6. QED BY <1>4, <1>5

LEMMA ContinuesSkipped ==
  ASSUME NEW s \in Seq(Nat), NEW f \in 0 .. Len(s), NEW p \in 1 .. f + 1,
         NEW q \in p .. f + 1, NEW fs, Continues(s, fs, p, f),
         \A m \in f .. Len(s) : \A j \in p .. q - 1 : ~MarkAt(Prefix(s, m), j)
  PROVE  Continues(s, fs, q, f)
<1> SUFFICES ASSUME NEW m \in f .. Len(s) PROVE fs \o Rest(s, m, q) = Rest(s, m, 1)
  BY DEF Continues
<1>1. m \in 0 .. Len(s) /\ p \in 1 .. m + 1 /\ q \in p .. m + 1
  OBVIOUS
<1>2. \A j \in p .. q - 1 : ~MarkAt(Prefix(s, m), j)
  OBVIOUS
<1>3. Rest(s, m, p) = Rest(s, m, q)
  BY <1>1, <1>2, Skipped
<1>4. fs \o Rest(s, m, p) = Rest(s, m, 1)
  BY DEF Continues
<1>5. QED BY Zenon, <1>3, <1>4

\* A mark in the buffer is one in the stream.
LEMMA MarkInBuffer ==
  ASSUME NEW s \in Seq(Nat), NEW f \in 0 .. Len(s), NEW p \in 1 .. f + 1,
         NEW m \in f .. Len(s), NEW j \in p .. f - 1
  PROVE  MarkAt(Prefix(s, m), j) <=> MarkAt(SubSeq(s, p, f), j - p + 1)
<1> DEFINE t == Prefix(s, m)
           b == SubSeq(s, p, f)
           i == j - p + 1
<1>1. Len(t) = m /\ t[j] = s[j] /\ t[j + 1] = s[j + 1]
  <2>1. m \in 0 .. Len(s) /\ j \in 1 .. m /\ j + 1 \in 1 .. m
    OBVIOUS
  <2>2. QED BY <2>1, PrefixFacts
<1>2. Len(b) = f - p + 1 /\ b[i] = s[j] /\ b[i + 1] = s[j + 1]
  <2>1. f \in Nat /\ p \in Nat /\ 1 <= p /\ p <= f + 1 /\ f <= Len(s)
    OBVIOUS
  <2>2. Len(b) = f - p + 1 /\ \A k \in 1 .. f - p + 1 : b[k] = s[p + k - 1]
    BY <2>1, Cut
  <2>3. i \in 1 .. f - p + 1 /\ i + 1 \in 1 .. f - p + 1 /\ p + i - 1 = j /\ p + (i + 1) - 1 = j + 1
    OBVIOUS
  <2> HIDE DEF i, b
  <2>4. b[i] = s[j]
    BY <2>2, <2>3
  <2>5. b[i + 1] = s[j + 1]
    BY <2>2, <2>3
  <2>6. QED BY <2>2, <2>4, <2>5
<1>3. (j < m) /\ (i < f - p + 1)
  OBVIOUS
<1> HIDE DEF t, b, i
<1>4. MarkAt(t, j) <=> s[j] = M1 /\ s[j + 1] = M2
  BY <1>1, <1>3 DEF MarkAt
<1>5. MarkAt(b, i) <=> s[j] = M1 /\ s[j + 1] = M2
  BY <1>2, <1>3 DEF MarkAt
<1>6. QED BY Zenon, <1>4, <1>5 DEF t, b, i

LEMMA HoldsAt ==
  ASSUME NEW s, NEW f, NEW q, NEW b, NEW e, NEW fs, NEW st, st \in States,
         st = State(b, e, fs), q \in 1 .. f + 1, b = SubSeq(s, q, f),
         Continues(s, fs, q, f), e # 0 => Expecting(s, e, q, f)
  PROVE  Holds(s, st, q, f)
<1>1. st.buf = b /\ st.expected = e /\ st.frames = fs
  BY DEF State
<1>2. QED BY Zenon, <1>1 DEF Holds

LEMMA BufferFacts ==
  ASSUME NEW s \in Seq(Nat), NEW f \in 0 .. Len(s), NEW p, NEW st, Holds(s, st, p, f)
  PROVE  /\ p \in 1 .. f + 1 /\ st \in States
         /\ st.buf \in Seq(Nat) /\ st.expected \in Nat /\ st.frames \in Frames
         /\ Len(st.buf) = f - p + 1
         /\ \A i \in 1 .. f - p + 1 : st.buf[i] = s[p + i - 1]
<1>1. p \in 1 .. f + 1 /\ st \in States /\ st.buf = SubSeq(s, p, f)
  BY DEF Holds
<1>2. f \in Nat /\ p \in Nat /\ 1 <= p /\ p <= f + 1 /\ f <= Len(s)
  BY <1>1
<1>3. st.buf \in Seq(Nat) /\ st.expected \in Nat /\ st.frames \in Frames
  BY <1>1 DEF States
<1>4. Len(SubSeq(s, p, f)) = f - p + 1 /\ \A i \in 1 .. f - p + 1 : SubSeq(s, p, f)[i] = s[p + i - 1]
  BY <1>2, Cut
<1>5. QED BY <1>1, <1>3, <1>4

\* The rest of the buffer, as a part of the stream.
LEMMA RestOfBuffer ==
  ASSUME NEW s \in Seq(Nat), NEW f \in 0 .. Len(s), NEW p, NEW st, Holds(s, st, p, f),
         NEW x \in 1 .. f - p + 2
  PROVE  From(st.buf, x) = SubSeq(s, p + x - 1, f)
<1>1. /\ p \in 1 .. f + 1 /\ st.buf = SubSeq(s, p, f) /\ Len(st.buf) = f - p + 1
  BY BufferFacts DEF Holds
<1> DEFINE n == f - p + 1
<1>2. /\ f \in Nat /\ p \in Nat /\ x \in Nat /\ n \in Nat /\ 1 <= p /\ p <= f + 1 /\ f <= Len(s)
      /\ 1 <= x /\ x <= n + 1 /\ n <= f - p + 1 /\ p + n - 1 = f
  BY <1>1
<1> HIDE DEF n
<1>3. SubSeq(SubSeq(s, p, f), x, n) = SubSeq(s, p + x - 1, p + n - 1)
  BY <1>2, CutOfCut
<1>4. From(st.buf, x) = SubSeq(SubSeq(s, p, f), x, n)
  BY <1>1 DEF From, n
<1>5. QED BY <1>2, <1>3, <1>4

\* The buffer without mark is dropped, but for what may be the first half of one.
LEMMA KeepHolds ==
  ASSUME NEW s \in Seq(Nat), NEW f \in 0 .. Len(s), NEW p, NEW st, Holds(s, st, p, f),
         st.expected = 0, Marks(st.buf) = {}
  PROVE  \E q \in p .. f + 1 : Holds(s, Search(st), q, f)
<1> DEFINE b == st.buf
<1>1. /\ p \in 1 .. f + 1 /\ st \in States /\ b \in Seq(Nat) /\ b = SubSeq(s, p, f)
      /\ Len(b) = f - p + 1 /\ \A i \in 1 .. f - p + 1 : b[i] = s[p + i - 1]
      /\ Continues(s, st.frames, p, f)
  BY BufferFacts DEF Holds
<1>2. Search(st) = State(Keep(b), 0, st.frames) /\ Search(st) \in States
  BY <1>1, SearchCases, SearchType
<1>3. ASSUME NEW m \in f .. Len(s), NEW j \in p .. f - 1 PROVE ~MarkAt(Prefix(s, m), j)
  <2>1. j - p + 1 \in DOMAIN b
    BY <1>1
  <2>2. ~MarkAt(b, j - p + 1)
    BY <2>1 DEF Marks
  <2>3. QED BY <1>1, <2>2, MarkInBuffer
<1> HIDE DEF b
<1>4. CASE Len(b) <= 1
  <2>1. Keep(b) = b
    BY <1>1, <1>4, KeepCut
  <2>2. Holds(s, Search(st), p, f)
    BY Zenon, <1>1, <1>2, <2>1, HoldsAt
  <2>3. QED BY <1>1, <2>2
<1>5. CASE Len(b) > 1 /\ b[Len(b)] = M1
  <2>1. f \in p .. f + 1 /\ s[f] = M1 /\ f >= 1
    BY <1>1, <1>5
  <2>9. f \in 1 .. f + 1
    BY <2>1
  <2>2. SubSeq(s, f, f) \in Seq(Nat) /\ Len(SubSeq(s, f, f)) = 1 /\ SubSeq(s, f, f)[1] = M1
    BY <2>1, Cut
  <2>3. Keep(b) = <<M1>>
    BY <1>1, <1>5, KeepCut
  <2>4. <<M1>> \in Seq(Nat) /\ Len(<<M1>>) = 1 /\ <<M1>>[1] = M1
    BY DecoderAssumption
  <2>5. <<M1>> = SubSeq(s, f, f)
    BY <2>2, <2>4, SeqEqual
  <2>6. Continues(s, st.frames, f, f)
    BY <1>1, <1>3, <2>1, ContinuesSkipped
  <2>7. Holds(s, Search(st), f, f)
    BY Zenon, <1>2, <2>9, <2>3, <2>5, <2>6, HoldsAt
  <2>8. QED BY <2>1, <2>7
<1>6. CASE Len(b) > 1 /\ b[Len(b)] # M1
  <2>1. f + 1 \in p .. f + 1 /\ s[f] # M1 /\ f >= 1 /\ p <= f
    <3>1. f \in Nat /\ p \in Nat /\ 1 <= p
      BY <1>1
    <3>2. f - p + 1 > 1
      BY <1>1, <1>6
    <3>3. f - p + 1 \in 1 .. f - p + 1 /\ p + (f - p + 1) - 1 = f
      BY <3>1, <3>2
    <3>4. b[f - p + 1] = s[f]
      BY <1>1, <3>3
    <3>5. s[f] # M1
      BY Zenon, <1>1, <1>6, <3>4
    <3>6. QED BY <3>1, <3>2, <3>5
  <2>9. f + 1 \in 1 .. f + 1
    BY <2>1
  <2>2. ASSUME NEW m \in f .. Len(s), NEW j \in p .. (f + 1) - 1 PROVE ~MarkAt(Prefix(s, m), j)
    <3>1. CASE j = f
      <4>1. m \in 0 .. Len(s) /\ f \in 1 .. m
        BY <2>1
      <4>2. Prefix(s, m)[f] = s[f]
        BY <4>1, PrefixFacts
      <4>3. QED BY <2>1, <3>1, <4>2 DEF MarkAt
    <3>2. CASE j # f
      <4>1. j \in p .. f - 1
        BY <3>2
      <4>2. QED BY <1>3, <4>1
    <3>3. QED BY <3>1, <3>2
  <2>3. Keep(b) = <<>>
    BY <1>1, <1>6, KeepCut
  <2>4. <<>> = SubSeq(s, f + 1, f)
    BY SubSeqEmpty
  <2>5. Continues(s, st.frames, f + 1, f)
    BY <1>1, <2>1, <2>2, ContinuesSkipped
  <2>6. Holds(s, Search(st), f + 1, f)
    BY Zenon, <1>2, <2>9, <2>3, <2>4, <2>5, HoldsAt
  <2>7. QED BY <2>1, <2>6
<1>7. QED BY <1>1, <1>4, <1>5, <1>6

\* What comes before the first mark is dropped.
LEMMA MarkHolds ==
  ASSUME NEW s \in Seq(Nat), NEW f \in 0 .. Len(s), NEW p, NEW st, Holds(s, st, p, f),
         st.expected = 0, Marks(st.buf) # {}
  PROVE  \E q \in p .. f + 1 : Holds(s, Search(st), q, f)
<1> DEFINE b == st.buf
           x == FirstMark(b)
           q == p + x - 1
           c == From(b, x)
<1>1. /\ p \in 1 .. f + 1 /\ st \in States /\ b \in Seq(Nat) /\ b = SubSeq(s, p, f)
      /\ Len(b) = f - p + 1 /\ \A i \in 1 .. f - p + 1 : b[i] = s[p + i - 1]
      /\ Continues(s, st.frames, p, f)
  BY BufferFacts DEF Holds
<1>2. /\ x \in 1 .. Len(b) - 1 /\ b[x] = M1 /\ b[x + 1] = M2
      /\ \A j \in 1 .. x - 1 : ~MarkAt(b, j)
  BY <1>1, MarkFacts
<1>3. /\ Len(c) < 3 => Search(st) = State(c, 0, st.frames)
      /\ Len(c) >= 3 => Search(st) = State(c, 3 + c[3] + 1, st.frames)
      /\ Search(st) \in States
  BY <1>1, SearchCases, SearchType
<1>4. /\ c = SubSeq(s, q, f) /\ Len(c) = Len(b) - x + 1
      /\ \A k \in 1 .. Len(b) - x + 1 : c[k] = b[x + k - 1]
  <2>1. x \in 1 .. f - p + 2 /\ x \in 1 .. Len(b) + 1
    BY <1>1, <1>2
  <2>2. c = SubSeq(s, q, f)
    BY <2>1, RestOfBuffer
  <2>3. QED BY <1>1, <2>1, <2>2, FromFacts
<1> HIDE DEF b, x, c
<1>5. q \in p .. f + 1 /\ q \in 1 .. f + 1 /\ q < f
  BY <1>1, <1>2
<1>6. ASSUME NEW m \in f .. Len(s), NEW j \in p .. q - 1 PROVE ~MarkAt(Prefix(s, m), j)
  <2>1. j \in p .. f - 1 /\ j - p + 1 \in 1 .. x - 1
    BY SMTT(30), <1>1, <1>2
  <2>2. ~MarkAt(b, j - p + 1)
    BY <1>2, <2>1
  <2>3. QED BY <1>1, <2>1, <2>2, MarkInBuffer
<1>7. Continues(s, st.frames, q, f)
  <2> HIDE DEF q
  <2>1. QED BY <1>1, <1>5, <1>6, ContinuesSkipped
<1>8. Len(c) >= 3 => Expecting(s, 3 + c[3] + 1, q, f)
  <2> SUFFICES ASSUME Len(c) >= 3 PROVE Expecting(s, 3 + c[3] + 1, q, f)
    OBVIOUS
  <2>1. q + 2 <= f
    <3>1. x \in Nat /\ p \in Nat /\ f \in Nat
      BY <1>1, <1>2
    <3>2. Len(c) = (f - p + 1) - x + 1
      BY Zenon, <1>1, <1>4
    <3>3. QED BY <3>1, <3>2
  <2>2. s[q] = M1 /\ s[q + 1] = M2
    <3>1. x \in 1 .. f - p + 1 /\ x + 1 \in 1 .. f - p + 1 /\ p + (x + 1) - 1 = q + 1
      BY <1>1, <1>2
    <3> HIDE DEF q
    <3>2. b[x] = s[p + x - 1] /\ b[x + 1] = s[q + 1]
      BY <1>1, <3>1
    <3>3. QED BY <1>2, <3>2 DEF q
  <2>3. c[3] = s[q + 2]
    <3>1. /\ 3 \in 1 .. Len(b) - x + 1 /\ x + 3 - 1 \in 1 .. f - p + 1
          /\ p + (x + 3 - 1) - 1 = q + 2
      BY <1>1, <1>2, <1>4
    <3>2. c[3] = b[x + 3 - 1]
      BY <1>4, <3>1
    <3>3. b[x + 3 - 1] = s[p + (x + 3 - 1) - 1]
      BY <1>1, <3>1
    <3>4. QED BY <3>1, <3>2, <3>3
  <2>4. QED BY <2>1, <2>2, <2>3 DEF Expecting
<1> HIDE DEF q
<1>9. CASE Len(c) < 3
  <2>1. Holds(s, Search(st), q, f)
    BY Zenon, <1>3, <1>4, <1>5, <1>7, <1>9, HoldsAt
  <2>2. QED BY <1>5, <2>1
<1>10. CASE Len(c) >= 3
  <2>1. Holds(s, Search(st), q, f)
    BY Zenon, <1>3, <1>4, <1>5, <1>7, <1>8, <1>10, HoldsAt
  <2>2. QED BY <1>5, <2>1
<1>11. QED BY <1>1, <1>2, <1>4, <1>9, <1>10

LEMMA SearchHolds ==
  ASSUME NEW s \in Seq(Nat), NEW f \in 0 .. Len(s), NEW p, NEW st, Holds(s, st, p, f)
  PROVE  \E q \in p .. f + 1 : Holds(s, Search(st), q, f)
<1>1. p \in p .. f + 1 /\ st \in States
  BY BufferFacts
<1>2. CASE st.expected # 0
  BY <1>1, <1>2, SearchCases
<1>3. QED BY <1>2, KeepHolds, MarkHolds

\* While a length is expected, a frame from p on ends where it says.
LEMMA ExpectedEnd ==
  ASSUME NEW s \in Seq(Nat), NEW f \in 0 .. Len(s), NEW p \in 1 .. f + 1, NEW n \in Nat,
         Expecting(s, n, p, f), NEW m \in f .. Len(s)
  PROVE  /\ MarksFrom(Prefix(s, m), p) # {} /\ FirstFrom(Prefix(s, m), p) = p
         /\ FrameEnd(Prefix(s, m), p) = p + n - 1 /\ n >= 4
<1> DEFINE t == Prefix(s, m)
<1>1. /\ p + 2 <= f /\ s[p] = M1 /\ s[p + 1] = M2 /\ n = 3 + s[p + 2] + 1
  BY DEF Expecting
<1>2. t \in Seq(Nat) /\ Len(t) = m /\ t[p] = s[p] /\ t[p + 1] = s[p + 1] /\ t[p + 2] = s[p + 2]
  <2>1. m \in 0 .. Len(s) /\ p \in 1 .. m /\ p + 1 \in 1 .. m /\ p + 2 \in 1 .. m
    BY <1>1
  <2>2. QED BY <2>1, PrefixFacts
<1> HIDE DEF t
<1>3. p \in p .. Len(t) /\ p < Len(t) /\ p \in Nat
  BY <1>1, <1>2
<1>4. MarkAt(t, p)
  BY <1>1, <1>2, <1>3 DEF MarkAt
<1>5. p \in MarksFrom(t, p)
  BY <1>3, <1>4 DEF MarksFrom
<1>6. FirstFrom(t, p) \in MarksFrom(t, p) /\ FirstFrom(t, p) <= p
  BY <1>2, <1>3, <1>5, FirstFromFacts
<1>7. FirstFrom(t, p) = p
  BY <1>3, <1>6 DEF MarksFrom
<1>8. s[p + 2] \in Nat
  BY SMTT(30), <1>1
<1>9. FrameEnd(t, p) = p + n - 1 /\ n >= 4
  <2>1. PICK k \in Nat : k = s[p + 2]
    BY <1>8
  <2>2. n = 3 + k + 1 /\ FrameEnd(t, p) = p + 3 + k
    BY Zenon, <1>1, <1>2, <2>1 DEF FrameEnd, PREFIX_SIZE
  <2>3. p \in Nat
    BY <1>3
  <2>4. p + 3 + k = p + (3 + k + 1) - 1 /\ 3 + k + 1 >= 4
    BY SMTT(30), <2>1, <2>3
  <2>5. QED BY Zenon, <2>2, <2>4
<1>10. QED BY <1>5, <1>7, <1>9 DEF t

\* The rest of the stream from p on begins with the expected bytes.
LEMMA RestOfWhole ==
  ASSUME NEW s \in Seq(Nat), NEW f \in 0 .. Len(s), NEW p \in 1 .. f + 1, NEW n \in Nat,
         Expecting(s, n, p, f), p + n - 1 <= f, NEW m \in f .. Len(s)
  PROVE  Rest(s, m, p) = IF s[p + n - 1] = T
           THEN <<SubSeq(s, p, p + n - 1)>> \o Rest(s, m, p + n) ELSE Rest(s, m, p + 2)
<1> DEFINE t == Prefix(s, m)
           e == p + n - 1
<1>1. /\ MarksFrom(t, p) # {} /\ FirstFrom(t, p) = p /\ FrameEnd(t, p) = e /\ n >= 4
  BY ExpectedEnd
<1>2. m \in 0 .. Len(s) /\ p \in 1 .. m + 1 /\ e \in 1 .. m /\ e + 1 = p + n /\ p + 2 <= m
  BY <1>1
<1>3. t \in Seq(Nat) /\ Len(t) = m /\ t[e] = s[e]
  <2> HIDE DEF e
  <2>1. QED BY <1>2, PrefixFacts
<1>4. SubSeq(t, p, e) = SubSeq(s, p, e)
  <2>1. /\ m \in Nat /\ p \in Nat /\ e \in Nat /\ 1 <= m + 1 /\ m <= Len(s)
        /\ 1 <= p /\ p <= e + 1 /\ e <= m - 1 + 1 /\ 1 + p - 1 = p /\ 1 + e - 1 = e
    BY <1>1, <1>2
  <2> HIDE DEF e
  <2>2. SubSeq(SubSeq(s, 1, m), p, e) = SubSeq(s, 1 + p - 1, 1 + e - 1)
    BY <2>1, CutOfCut
  <2>3. QED BY <2>1, <2>2 DEF Prefix
<1> HIDE DEF t, e
<1>5. Whole(t, p)
  BY <1>1, <1>2, <1>3 DEF Whole
<1>6. p \in 1 .. Len(t) + 1
  BY <1>2, <1>3
<1>7. Body(t, Decode(t), p) = IF t[e] = T
        THEN <<SubSeq(t, p, e)>> \o Decode(t)[e + 1] ELSE Decode(t)[p + 2]
  BY <1>1, <1>3, <1>5, <1>6, BodyWhole
<1>8. Rest(s, m, p) = Body(t, Decode(t), p)
  BY <1>2, RestUnfolds DEF t
<1>9. Rest(s, m, p) = IF s[e] = T
        THEN <<SubSeq(s, p, e)>> \o Rest(s, m, p + n) ELSE Rest(s, m, p + 2)
  <2>1. Rest(s, m, p + n) = Decode(t)[e + 1] /\ Rest(s, m, p + 2) = Decode(t)[p + 2]
    BY <1>2 DEF Rest, t
  <2>2. CASE s[e] = T
    BY Zenon, <1>3, <1>4, <1>7, <1>8, <2>1, <2>2
  <2>3. CASE s[e] # T
    BY Zenon, <1>3, <1>4, <1>7, <1>8, <2>1, <2>3
  <2>4. QED BY Zenon, <2>2, <2>3
<1>10. QED BY Zenon, <1>9 DEF e

LEMMA ExtractHolds ==
  ASSUME NEW s \in Seq(Nat), NEW f \in 0 .. Len(s), NEW p, NEW st, Holds(s, st, p, f),
         Complete(st)
  PROVE  \E q \in p + 2 .. f + 1 : Holds(s, Extract(st), q, f)
<1> DEFINE n == st.expected
           e == p + n - 1
           b == st.buf
           fs == st.frames
<1>1. /\ p \in 1 .. f + 1 /\ st \in States /\ b \in Seq(Nat) /\ n \in Nat /\ fs \in Frames
      /\ Len(b) = f - p + 1 /\ \A i \in 1 .. f - p + 1 : b[i] = s[p + i - 1]
      /\ b = SubSeq(s, p, f) /\ Continues(s, fs, p, f)
      /\ n # 0 => Expecting(s, n, p, f)
  <2>1. /\ b = SubSeq(s, p, f) /\ Continues(s, fs, p, f)
        /\ n # 0 => Expecting(s, n, p, f)
    BY DEF Holds
  <2>2. /\ p \in 1 .. f + 1 /\ st \in States /\ b \in Seq(Nat) /\ n \in Nat /\ fs \in Frames
        /\ Len(b) = f - p + 1 /\ \A i \in 1 .. f - p + 1 : b[i] = s[p + i - 1]
    BY BufferFacts
  <2>3. QED BY Zenon, <2>1, <2>2
<1>2. n > 0 /\ n <= f - p + 1
  <2>1. n > 0 /\ Len(b) >= n
    BY DEF Complete
  <2>2. QED BY <1>1, <2>1
<1>3. Expecting(s, n, p, f) /\ p + 2 <= f
  BY <1>1, <1>2 DEF Expecting
<1>4. n >= 4
  <2>1. f \in f .. Len(s)
    OBVIOUS
  <2> HIDE DEF n
  <2>2. QED BY <1>1, <1>3, <2>1, ExpectedEnd
<1>5. Extract(st) \in States
  <2>1. Len(b) >= 2
    BY <1>1, <1>2, <1>4
  <2>2. QED BY <1>1, <2>1, ExtractType
<1>6. Extract(st) = IF b[n] = T THEN State(From(b, n + 1), 0, Append(fs, SubSeq(b, 1, n)))
                                ELSE State(From(b, 3), 0, fs)
  BY DEF Extract, Valid
<1>7. b[n] = s[e]
  BY SMTT(30), <1>1, <1>2
<1>8. ASSUME NEW m \in f .. Len(s)
      PROVE  Rest(s, m, p) = IF s[e] = T
               THEN <<SubSeq(s, p, e)>> \o Rest(s, m, p + n) ELSE Rest(s, m, p + 2)
  <2>1. p + n - 1 <= f
    BY <1>1, <1>2
  <2> HIDE DEF n
  <2>2. QED BY <1>1, <1>3, <2>1, RestOfWhole
<1>9. /\ From(b, n + 1) = SubSeq(s, p + n, f) /\ From(b, 3) = SubSeq(s, p + 2, f)
  <2>1. /\ n + 1 \in 1 .. f - p + 2 /\ 3 \in 1 .. f - p + 2
        /\ p + (n + 1) - 1 = p + n /\ p + 3 - 1 = p + 2
    <3>1. p \in Nat /\ f \in Nat
      BY <1>1
    <3> HIDE DEF n
    <3>2. n \in Nat
      BY <1>1
    <3>3. QED BY <1>2, <1>4, <3>1, <3>2
  <2> HIDE DEF n
  <2>2. /\ From(b, n + 1) = SubSeq(s, p + (n + 1) - 1, f)
        /\ From(b, 3) = SubSeq(s, p + 3 - 1, f)
    BY <2>1, RestOfBuffer
  <2>3. QED BY <2>1, <2>2
<1>10. SubSeq(b, 1, n) = SubSeq(s, p, e) /\ SubSeq(s, p, e) \in Seq(Nat)
  <2>1. /\ p \in Nat /\ f \in Nat /\ n \in Nat /\ e \in Nat /\ 1 <= p /\ p <= f + 1 /\ f <= Len(s)
        /\ 1 <= n + 1 /\ n <= f - p + 1 /\ p + 1 - 1 = p /\ p + n - 1 = e
        /\ p <= e + 1 /\ e <= Len(s)
    <3>1. p \in Nat /\ f \in Nat /\ n \in Nat /\ 1 <= p /\ p <= f + 1 /\ f <= Len(s) /\ Len(s) \in Nat
      BY <1>1
    <3> HIDE DEF n
    <3>2. QED BY <1>2, <3>1
  <2> HIDE DEF n, e
  <2>2. SubSeq(SubSeq(s, p, f), 1, n) = SubSeq(s, p + 1 - 1, p + n - 1)
    BY <2>1, CutOfCut
  <2>3. SubSeq(s, p, e) \in Seq(Nat)
    BY <2>1, Cut
  <2>4. QED BY <1>1, <2>1, <2>2, <2>3
<1>11. /\ p + n \in p + 2 .. f + 1 /\ p + 2 \in p + 2 .. f + 1
       /\ p + n \in 1 .. f + 1 /\ p + 2 \in 1 .. f + 1
  <2>1. p \in Nat /\ f \in Nat /\ n \in Nat /\ 1 <= p
    BY <1>1
  <2> HIDE DEF n
  <2>2. QED BY <1>2, <1>3, <1>4, <2>1
<1> HIDE DEF n, e, b, fs
<1>12. CASE s[e] = T
  <2> DEFINE x  == SubSeq(s, p, e)
             gs == Append(fs, x)
  <2>1. Continues(s, gs, p + n, f)
    <3> SUFFICES ASSUME NEW m \in f .. Len(s)
                 PROVE  gs \o Rest(s, m, p + n) = Rest(s, m, 1)
      BY DEF Continues
    <3> DEFINE r == Rest(s, m, p + n)
    <3>1. r \in Frames
      <4>1. m \in 0 .. Len(s) /\ p + n \in 1 .. m + 1
        BY <1>11
      <4>2. QED BY <4>1, RestUnfolds
    <3>2. Rest(s, m, p) = <<x>> \o r
      BY <1>8, <1>12
    <3>3. fs \o Rest(s, m, p) = Rest(s, m, 1)
      BY <1>1 DEF Continues
    <3>4. fs \in Seq(Seq(Nat)) /\ r \in Seq(Seq(Nat)) /\ x \in Seq(Nat)
      BY <1>1, <1>10, <3>1 DEF Frames
    <3> HIDE DEF r, x
    <3>5. <<x>> \in Seq(Seq(Nat)) /\ Append(fs, x) = fs \o <<x>>
      BY <3>4
    <3>6. (fs \o <<x>>) \o r = fs \o (<<x>> \o r)
      BY SMTT(30), <3>4, <3>5, ConcatAssociative
    <3>7. Append(fs, x) \o r = Rest(s, m, 1)
      BY Zenon, <3>2, <3>3, <3>5, <3>6
    <3>8. QED BY <3>7 DEF r
  <2>2. Extract(st) = State(SubSeq(s, p + n, f), 0, gs)
    BY Zenon, <1>6, <1>7, <1>9, <1>10, <1>12
  <2> HIDE DEF gs
  <2>3. Holds(s, Extract(st), p + n, f)
    BY Zenon, <1>5, <1>11, <2>1, <2>2, HoldsAt
  <2>4. QED BY <1>11, <2>3
<1>13. CASE s[e] # T
  <2>1. Continues(s, fs, p + 2, f)
    <3>1. ASSUME NEW m \in f .. Len(s) PROVE fs \o Rest(s, m, p + 2) = Rest(s, m, 1)
      <4>1. Rest(s, m, p) = Rest(s, m, p + 2)
        BY <1>8, <1>13
      <4>2. fs \o Rest(s, m, p) = Rest(s, m, 1)
        BY <1>1 DEF Continues
      <4>3. QED BY Zenon, <4>1, <4>2
    <3>2. QED BY <3>1 DEF Continues
  <2>2. Extract(st) = State(SubSeq(s, p + 2, f), 0, fs)
    BY Zenon, <1>6, <1>7, <1>9, <1>13
  <2>3. Holds(s, Extract(st), p + 2, f)
    BY Zenon, <1>5, <1>11, <2>1, <2>2, HoldsAt
  <2>4. QED BY <1>11, <2>3
<1>14. QED BY <1>12, <1>13

-----------------------------------------------------------------------------
(* The loop ends where more bytes are needed. *)

Waits(st) ==
  IF st.expected # 0 THEN Len(st.buf) < st.expected
  ELSE Marks(st.buf) = {} \/ Len(From(st.buf, FirstMark(st.buf))) < 3

LEMMA WaitsOn ==
  ASSUME NEW st \in States, Waits(st)
  PROVE  ~Complete(Search(st))
<1>1. st.buf \in Seq(Nat) /\ st.expected \in Nat /\ st.frames \in Frames /\ Len(st.buf) \in Nat
  BY DEF States
<1>2. CASE st.expected # 0
  <2>1. Search(st) = st
    BY <1>2, SearchCases
  <2>2. Len(st.buf) < st.expected
    BY <1>2 DEF Waits
  <2>3. QED BY <1>1, <2>1, <2>2 DEF Complete
<1>3. CASE st.expected = 0
  <2>1. Marks(st.buf) = {} \/ Len(From(st.buf, FirstMark(st.buf))) < 3
    BY <1>3 DEF Waits
  <2>2. \E b : Search(st) = State(b, 0, st.frames)
    BY <1>3, <2>1, SearchCases
  <2>3. Search(st).expected = 0
    BY <2>2 DEF State
  <2>4. QED BY <2>3 DEF Complete
<1>4. QED BY <1>2, <1>3

LEMMA SearchWaits ==
  ASSUME NEW st \in States, ~Complete(Search(st))
  PROVE  Waits(Search(st))
<1> DEFINE b == st.buf
           c == From(b, FirstMark(b))
           x == Search(st)
<1>1. b \in Seq(Nat) /\ st.expected \in Nat /\ st.frames \in Frames
  BY DEF States
<1>2. x \in States /\ x.buf \in Seq(Nat) /\ Len(x.buf) \in Nat /\ x.expected \in Nat
  BY SearchType DEF States
<1>3. x.expected # 0 => Len(x.buf) < x.expected
  <2> HIDE DEF x
  <2>1. QED BY <1>2 DEF Complete, x
<1>4. CASE x.expected # 0
  BY <1>3, <1>4 DEF Waits
<1>5. CASE x.expected = 0
  <2>1. st.expected = 0
    BY <1>5, SearchCases
  <2>2. CASE Marks(b) = {}
    <3>1. x = State(Keep(b), 0, st.frames)
      BY <2>1, <2>2, SearchCases
    <3>2. x.buf = Keep(b)
      BY <3>1 DEF State
    <3>3. Marks(x.buf) = {}
      BY <1>1, <3>2, KeepCut
    <3>4. QED BY <1>5, <3>3 DEF Waits
  <2>3. CASE Marks(b) # {}
    <3>1. c \in Seq(Nat)
      BY <1>1, <2>3, MarkFacts, FromFacts
    <3>2. Len(c) < 3
      <4> SUFFICES ASSUME Len(c) >= 3 PROVE FALSE
        BY <3>1
      <4>1. x = State(c, 3 + c[3] + 1, st.frames)
        BY <2>1, <2>3, SearchCases
      <4>2. x.expected = 3 + c[3] + 1
        BY <4>1 DEF State
      <4> HIDE DEF c, x
      <4>3. c[3] \in Nat
        BY <3>1
      <4>4. QED BY <1>5, <4>2, <4>3
    <3>3. x = State(c, 0, st.frames)
      BY <2>1, <2>3, <3>2, SearchCases
    <3>4. x.buf = c
      BY <3>3 DEF State
    <3>5. Marks(c) # {} => Len(From(c, FirstMark(c))) < 3
      <4> SUFFICES ASSUME Marks(c) # {} PROVE Len(From(c, FirstMark(c))) < 3
        OBVIOUS
      <4> HIDE DEF c
      <4>1. FirstMark(c) \in 1 .. Len(c) - 1
        BY <3>1, MarkFacts
      <4>2. FirstMark(c) \in 1 .. Len(c) + 1
        BY <3>1, <4>1
      <4>3. Len(From(c, FirstMark(c))) = Len(c) - FirstMark(c) + 1
        BY <3>1, <4>2, FromFacts
      <4>4. QED BY <3>1, <3>2, <4>1, <4>3
    <3>6. QED BY <1>5, <3>4, <3>5 DEF Waits
  <2>4. QED BY <2>2, <2>3
<1>6. QED BY <1>4, <1>5

\* Then the stream so far holds no further frame.
LEMMA NothingMore ==
  ASSUME NEW s \in Seq(Nat), NEW f \in 0 .. Len(s), NEW p, NEW st, Holds(s, st, p, f),
         Waits(st)
  PROVE  Rest(s, f, p) = <<>>
<1> DEFINE t == Prefix(s, f)
           j == FirstFrom(t, p)
           b == st.buf
           n == st.expected
<1>1. /\ p \in 1 .. f + 1 /\ b \in Seq(Nat) /\ n \in Nat /\ Len(b) = f - p + 1
      /\ b = SubSeq(s, p, f)
  BY BufferFacts DEF Holds
<1>2. n # 0 => Expecting(s, n, p, f)
  BY DEF Holds
<1>3. t \in Seq(Nat) /\ Len(t) = f
  BY PrefixFacts
<1>4. f \in Nat /\ p \in Nat /\ f \in f .. Len(s) /\ p \in 1 .. Len(t) + 1
  BY <1>1, <1>3
<1>5. ~Whole(t, p)
  <2> SUFFICES ASSUME Whole(t, p) PROVE FALSE
    OBVIOUS
  <2>1. j \in MarksFrom(t, p) /\ j \in p .. f /\ j + 2 <= f /\ FrameEnd(t, j) <= f
    BY <1>3, <1>4, FirstFromFacts, WholeFacts DEF Whole
  <2>2. MarkAt(t, j)
    BY <2>1 DEF MarksFrom
  <2>3. CASE n # 0
    <3> HIDE DEF n
    <3>1. FrameEnd(t, p) = p + n - 1 /\ j = p
      BY <1>1, <1>2, <1>4, <2>3, ExpectedEnd
    <3>2. p + n - 1 <= f
      BY Zenon, <2>1, <3>1
    <3>3. Len(b) < n
      BY <2>3 DEF Waits, n
    <3>4. QED BY <1>1, <1>4, <3>2, <3>3
  <2>4. CASE n = 0
    <3> DEFINE i == j - p + 1
    <3>1. Marks(b) = {} \/ Len(From(b, FirstMark(b))) < 3
      BY <2>4 DEF Waits
    <3> HIDE DEF j, t, b
    <3>2. i \in 1 .. Len(b)
      BY <1>1, <1>4, <2>1
    <3>3. MarkAt(b, i)
      <4>1. j \in p .. f - 1
        BY <1>4, <2>1
      <4>2. QED BY <1>1, <1>4, <2>2, <4>1, MarkInBuffer DEF t
    <3>4. i \in Marks(b)
      BY <1>1, <3>2, <3>3 DEF Marks
    <3>5. FirstMark(b) \in 1 .. Len(b) - 1 /\ FirstMark(b) <= i
      BY <1>1, <3>4, FirstMarkFacts, MarkFacts
    <3>6. Len(From(b, FirstMark(b))) = Len(b) - FirstMark(b) + 1
      <4>1. FirstMark(b) \in 1 .. Len(b) + 1
        BY <1>1, <3>5
      <4>2. QED BY <1>1, <4>1, FromFacts
    <3>7. Len(From(b, FirstMark(b))) < 3
      BY <3>1, <3>4
    <3>8. PICK y \in Nat : y = FirstMark(b)
      BY <1>1, <3>5
    <3>9. (f - p + 1) - y + 1 < 3 /\ y <= j - p + 1
      BY Zenon, <1>1, <3>5, <3>6, <3>7, <3>8
    <3>10. j \in Nat
      BY <1>4, <2>1
    <3>11. QED BY <1>4, <2>1, <3>8, <3>9, <3>10
  <2>5. QED BY <2>3, <2>4
<1>6. Body(t, Decode(t), p) = <<>>
  <2> HIDE DEF t
  <2>1. QED BY <1>3, <1>4, <1>5, BodyNone
<1>7. f \in 0 .. Len(s) /\ p \in 1 .. f + 1
  BY <1>1
<1>8. QED BY <1>6, <1>7, RestUnfolds

LEMMA RoundHolds ==
  ASSUME NEW s \in Seq(Nat), NEW f \in 0 .. Len(s), NEW p, NEW st, Holds(s, st, p, f)
  PROVE  \E q \in p .. f + 1 :
           Holds(s, Round(st), q, f) /\ (Waits(Round(st)) \/ (~Waits(st) /\ q >= p + 2))
<1> DEFINE x == Search(st)
<1>1. PICK q \in p .. f + 1 : Holds(s, x, q, f)
  BY SearchHolds
<1>2. st \in States /\ p \in 1 .. f + 1
  BY BufferFacts
<1>3. CASE Complete(x)
  <2>1. Round(st) = Extract(x)
    BY <1>3 DEF Round
  <2>2. PICK r \in q + 2 .. f + 1 : Holds(s, Extract(x), r, f)
    <3> HIDE DEF x
    <3>1. QED BY <1>1, <1>3, ExtractHolds
  <2>3. ~Waits(st)
    BY <1>2, <1>3, WaitsOn
  <2>4. r \in p .. f + 1 /\ r >= p + 2
    BY <1>2
  <2>5. QED BY Zenon, <2>1, <2>2, <2>3, <2>4
<1>4. CASE ~Complete(x)
  <2>1. Round(st) = x
    BY <1>4 DEF Round
  <2>2. Waits(x)
    BY <1>2, <1>4, SearchWaits
  <2> HIDE DEF x
  <2>3. QED BY <1>1, <2>1, <2>2
<1>5. QED BY <1>3, <1>4

\* As many rounds as there are bytes in the buffer are enough.
LEMMA LoopHolds ==
  ASSUME NEW s \in Seq(Nat), NEW f \in 0 .. Len(s), NEW p, NEW st, Holds(s, st, p, f)
  PROVE  \E q \in 1 .. f + 1 : Holds(s, Loop(st), q, f) /\ Waits(Loop(st))
<1> DEFINE L == Len(st.buf)
           X == {x \in States : \E q \in 1 .. f + 1 : Holds(s, x, q, f)}
<1>1. st.buf \in Seq(Nat) /\ p \in 1 .. f + 1 /\ L = f - p + 1 /\ st \in States
  BY BufferFacts
<1>2. st \in X
  BY <1>1
<1>3. ASSUME NEW x \in X PROVE Round(x) \in X
  <2>1. PICK q \in 1 .. f + 1 : Holds(s, x, q, f)
    OBVIOUS
  <2>2. PICK r \in q .. f + 1 : Holds(s, Round(x), r, f)
    BY <2>1, RoundHolds
  <2>3. r \in 1 .. f + 1 /\ Round(x) \in States
    BY <2>1, <2>2 DEF Holds
  <2>4. QED BY <2>2, <2>3
<1>4. PICK h \in [0 .. L -> X] :
        /\ h[0] = st /\ \A n \in 1 .. L : h[n] = Round(h[n - 1])
        /\ Loop(st) = h[L]
  <2> HIDE DEF X
  <2>1. QED BY <1>1, <1>2, <1>3, LoopUnrolls
<1> DEFINE At(n, q) == Holds(s, h[n], q, f)
           N == {n \in Nat : n <= L =>
                   \E q \in 1 .. f + 1 : At(n, q) /\ (Waits(h[n]) \/ q >= p + 2 * n)}
<1>5. 0 \in N
  <2>1. At(0, p) /\ p >= p + 2 * 0
    BY <1>1, <1>4
  <2>2. QED BY <1>1, <2>1
<1>6. ASSUME NEW n \in Nat, n \in N PROVE n + 1 \in N
  <2> SUFFICES ASSUME n + 1 <= L
      PROVE  \E q \in 1 .. f + 1 : At(n + 1, q) /\ (Waits(h[n + 1]) \/ q >= p + 2 * (n + 1))
    OBVIOUS
  <2>1. L \in Nat /\ n <= L /\ n + 1 \in 1 .. L /\ (n + 1) - 1 = n
    BY <1>1
  <2>2. PICK q \in 1 .. f + 1 : At(n, q) /\ (Waits(h[n]) \/ q >= p + 2 * n)
    BY <1>6, <2>1
  <2>3. h[n + 1] = Round(h[n])
    BY Zenon, <1>4, <2>1
  <2>4. PICK r \in q .. f + 1 :
          /\ Holds(s, Round(h[n]), r, f)
          /\ Waits(Round(h[n])) \/ (~Waits(h[n]) /\ r >= q + 2)
    BY <2>2, RoundHolds
  <2>5. r \in 1 .. f + 1
    OBVIOUS
  <2>6. Waits(h[n + 1]) \/ r >= p + 2 * (n + 1)
    <3>1. CASE Waits(Round(h[n]))
      BY <2>3, <3>1
    <3>2. CASE ~Waits(h[n]) /\ r >= q + 2
      <4>1. q >= p + 2 * n
        BY <2>2, <3>2
      <4>2. p \in Nat /\ q \in Nat /\ r \in Nat
        BY <1>1
      <4>3. QED BY <3>2, <4>1, <4>2
    <3>3. QED BY <2>4, <3>1, <3>2
  <2>7. At(n + 1, r)
    BY <2>3, <2>4
  <2>8. QED BY <2>5, <2>6, <2>7
<1>7. \A n \in Nat : n \in N
  <2> HIDE DEF N
  <2>1. QED BY <1>5, <1>6, NaturalInduction
<1>8. L \in Nat /\ L <= L
  BY <1>1
<1>9. PICK q \in 1 .. f + 1 : At(L, q) /\ (Waits(h[L]) \/ q >= p + 2 * L)
  <2> HIDE DEF L
  <2>1. QED BY <1>7, <1>8
<1>10. ASSUME q >= p + 2 * L PROVE Waits(h[L])
  <2>1. p \in Nat /\ q \in Nat /\ f \in Nat /\ q <= f + 1
    BY <1>1
  <2> DEFINE y == h[L]
  <2>2. y.buf \in Seq(Nat) /\ y.expected \in Nat /\ Len(y.buf) = f - q + 1
    BY <1>9, BufferFacts
  <2>3. q = f + 1
    <3> HIDE DEF L
    <3>1. QED BY <1>1, <1>8, <1>10, <2>1
  <2>4. y.expected # 0 => q + 2 <= f
    BY <1>9 DEF Holds, Expecting
  <2> HIDE DEF y
  <2>5. y.expected = 0
    BY <2>1, <2>3, <2>4
  <2>6. Len(y.buf) = 0
    BY <2>1, <2>2, <2>3
  <2>7. Marks(y.buf) = {}
    BY <2>2, <2>6 DEF Marks
  <2>8. QED BY <2>5, <2>7 DEF Waits, y
<1>11. Waits(h[L])
  BY <1>9, <1>10
<1>12. QED BY <1>4, <1>9, <1>11

-----------------------------------------------------------------------------
(* The invariant. *)

\* Decoder and stream, between two reads.
DecoderInv ==
  /\ stream \in Seq(Nat) /\ fed \in 0 .. Len(stream)
  /\ \E p \in 1 .. fed + 1 :
       LET st == State(buf, expected_len, frames) IN
       Holds(stream, st, p, fed) /\ Waits(st)

LEMMA DecoderInit == Init => DecoderInv
<1> SUFFICES ASSUME Init PROVE DecoderInv
  OBVIOUS
<1>1. /\ stream \in Seq(Nat) /\ fed = 0 /\ buf = <<>> /\ expected_len = 0 /\ frames = <<>>
  BY DecoderAssumption DEF Init
<1>2. fed \in 0 .. Len(stream) /\ 1 \in 1 .. fed + 1
  BY <1>1
<1> DEFINE st == State(buf, expected_len, frames)
<1>3. st \in States /\ st.buf = <<>> /\ st.expected = 0
  BY <1>1, EmptySeq DEF State, States, Frames
<1>4. Holds(stream, st, 1, fed)
  <2>1. <<>> = SubSeq(stream, 1, fed)
    BY <1>1, SubSeqEmpty
  <2>2. Continues(stream, <<>>, 1, fed)
    <3>1. ASSUME NEW m \in fed .. Len(stream) PROVE <<>> \o Rest(stream, m, 1) = Rest(stream, m, 1)
      <4>1. m \in 0 .. Len(stream) /\ 1 \in 1 .. m + 1
        BY <1>1
      <4>2. Rest(stream, m, 1) \in Seq(Seq(Nat))
        BY <1>1, <4>1, RestUnfolds DEF Frames
      <4>3. QED BY <4>2, ConcatEmptySeq
    <3>2. QED BY <3>1 DEF Continues
  <2> HIDE DEF st
  <2>3. QED BY Zenon, <1>1, <1>2, <1>3, <2>1, <2>2, HoldsAt DEF st
<1>5. Waits(st)
  <2>1. Marks(<<>>) = {}
    BY DEF Marks
  <2>2. QED BY <1>3, <2>1 DEF Waits
<1>6. QED BY <1>1, <1>2, <1>4, <1>5 DEF DecoderInv

LEMMA FeedStep ==
  ASSUME DecoderInv, NEW k \in 1 .. Len(stream), Feed(k)
  PROVE  DecoderInv'
<1> DEFINE f  == fed + k
           st == State(buf, expected_len, frames)
           more == SubSeq(stream, fed + 1, f)
           in == State(buf \o more, expected_len, frames)
<1>1. /\ stream \in Seq(Nat) /\ fed \in 0 .. Len(stream) /\ f \in 0 .. Len(stream)
      /\ stream' = stream /\ fed' = f
  BY DEF DecoderInv, Feed
<1>2. PICK p \in 1 .. fed + 1 : Holds(stream, st, p, fed)
  BY DEF DecoderInv
<1>3. /\ st.buf = buf /\ st.expected = expected_len /\ st.frames = frames
  BY DEF State
<1>4. /\ buf = SubSeq(stream, p, fed) /\ Continues(stream, frames, p, fed)
      /\ expected_len # 0 => Expecting(stream, expected_len, p, fed)
  BY Zenon, <1>2, <1>3 DEF Holds
<1>5. buf \in Seq(Nat) /\ expected_len \in Nat /\ frames \in Frames
  BY <1>1, <1>2, <1>3, BufferFacts
<1>6. buf \o more = SubSeq(stream, p, f)
  <2>1. p \in 1 .. Len(stream) + 1 /\ fed \in p - 1 .. Len(stream) /\ f \in fed .. Len(stream)
    BY <1>1
  <2> HIDE DEF f
  <2>2. QED BY <1>1, <1>4, <2>1, ConcatAdjacentSubSeq
<1>7. p \in 1 .. f + 1 /\ p \in Nat /\ f \in Nat /\ fed <= f
  BY <1>1
<1> HIDE DEF f, st
<1>8. Holds(stream, in, p, f)
  <2>1. Continues(stream, frames, p, f)
    <3>1. \A m \in f .. Len(stream) : m \in fed .. Len(stream)
      BY <1>1, <1>7
    <3>2. QED BY Zenon, <1>4, <3>1 DEF Continues
  <2>2. expected_len # 0 => Expecting(stream, expected_len, p, f)
    BY <1>1, <1>4, <1>7 DEF Expecting
  <2>3. SubSeq(stream, p, f) \in Seq(Nat)
    BY <1>1, <1>7, Cut
  <2>4. in \in States
    BY <1>5, <1>6, <2>3, StateFields
  <2> HIDE DEF more, in
  <2>5. QED BY Zenon, <1>6, <1>7, <2>1, <2>2, <2>4, HoldsAt DEF in
<1>9. PICK q \in 1 .. f + 1 : Holds(stream, Loop(in), q, f) /\ Waits(Loop(in))
  <2> HIDE DEF in
  <2>1. QED BY <1>1, <1>8, LoopHolds
<1>10. /\ buf' = Loop(in).buf /\ expected_len' = Loop(in).expected
       /\ frames' = Loop(in).frames
  BY DEF Feed, f
<1>11. State(buf, expected_len, frames)' = Loop(in)
  <2> HIDE DEF in
  <2>1. Loop(in) \in States
    BY <1>9 DEF Holds
  <2>2. QED BY <1>10, <2>1 DEF State, States
<1> HIDE DEF in
<1>12. q \in 1 .. fed' + 1 /\ Holds(stream', State(buf, expected_len, frames)', q, fed')
       /\ Waits(State(buf, expected_len, frames)')
  BY Zenon, <1>1, <1>9, <1>11
<1>13. stream' \in Seq(Nat) /\ fed' \in 0 .. Len(stream')
  BY <1>1
<1>14. QED BY <1>12, <1>13 DEF DecoderInv

LEMMA DecoderStep == DecoderInv /\ [Next]_vars => DecoderInv'
<1> SUFFICES ASSUME DecoderInv, [Next]_vars PROVE DecoderInv'
  OBVIOUS
<1>1. CASE Next
  BY <1>1, FeedStep DEF Next
<1>2. CASE UNCHANGED vars
  BY <1>2 DEF vars, DecoderInv, State
<1>3. QED BY <1>1, <1>2

LEMMA DecoderPromise == DecoderInv => SplitIrrelevant
<1> SUFFICES ASSUME DecoderInv PROVE SplitIrrelevant
  OBVIOUS
<1> DEFINE st == State(buf, expected_len, frames)
<1>1. PICK p \in 1 .. fed + 1 : Holds(stream, st, p, fed) /\ Waits(st)
  BY DEF DecoderInv
<1>2. stream \in Seq(Nat) /\ fed \in 0 .. Len(stream) /\ fed \in fed .. Len(stream)
  BY DEF DecoderInv
<1>3. st.frames = frames
  BY DEF State
<1> HIDE DEF st
<1>4. Rest(stream, fed, p) = <<>>
  BY <1>1, <1>2, NothingMore
<1>5. frames \in Seq(Seq(Nat))
  BY <1>1, <1>2, <1>3, BufferFacts DEF Frames
<1>6. frames \o Rest(stream, fed, p) = Rest(stream, fed, 1)
  BY Zenon, <1>1, <1>2, <1>3 DEF Holds, Continues
<1>7. frames = Rest(stream, fed, 1)
  BY <1>4, <1>5, <1>6, ConcatEmptySeq
<1>8. QED BY <1>7 DEF SplitIrrelevant, Rest, Prefix

\* However the bytes are split over the reads, a read that ends in the middle of a
\* mark, a length or a tail included, feed has returned what the stream so far
\* means: for every set of streams, every mark and tail, and lengths of any size.
THEOREM SplittingIsIrrelevant == Spec => []SplitIrrelevant
<1>1. QED BY DecoderInit, DecoderStep, DecoderPromise, PTL DEF Spec

=============================================================================
