------------------------- MODULE DemoStorage_proofs -------------------------
(***************************************************************************)
(* Proofs about the programs that store something: what is on the medium   *)
(* and in the open file at every place of the program, through writes that *)
(* are short or leave a bad cell, calls that fail, and power that fails.   *)
(* At the end, as this module reaches the invariants of all the programs:  *)
(* that every variable of every one of them keeps its type.                *)
(***************************************************************************)
EXTENDS DemoBuffers_proofs, DemoTiming_proofs

-----------------------------------------------------------------------------
(* Quotients and remainders by a variable. *)

\* Division by a variable, which the provers know of in this form only.
LEMMA Division ==
  ASSUME NEW p \in Nat \ {0}, NEW j \in Nat
  PROVE  j = p * (j \div p) + (j % p) /\ j \div p \in Nat /\ j % p \in 0 .. p - 1
  OBVIOUS

LEMMA Remainder ==
  ASSUME NEW p \in Nat \ {0}, NEW k \in Nat, NEW a \in 0 .. p - 1
  PROVE  (p * k + a) % p = a
  OBVIOUS

LEMMA Multiples ==
  ASSUME NEW p \in Nat \ {0}, NEW k \in Nat, NEW q \in Nat, k + 1 <= q
  PROVE  p * k + p <= p * q
  OBVIOUS

LEMMA Quotient ==
  ASSUME NEW p \in Nat \ {0}, NEW k \in Nat, NEW a \in 0 .. p - 1
  PROVE  (p * k + a) \div p = k
  OBVIOUS

LEMMA NextMultiple ==
  ASSUME NEW p \in Nat, NEW k \in Nat
  PROVE  p * (k + 1) = p * k + p /\ p * k \in Nat
  OBVIOUS

-----------------------------------------------------------------------------
(* Files as sequences of cells. *)

\* Writing over a part of a sequence keeps its elements' type.
LEMMA OverwriteCells ==
  ASSUME NEW S, NEW s \in Seq(S), NEW d \in Seq(S), NEW pos \in 0 .. Len(s)
  PROVE  /\ SubSeq(s, 1, pos) \o d \o SubSeq(s, pos + Len(d) + 1, Len(s)) \in Seq(S)
         /\ Len(SubSeq(s, 1, pos) \o d \o SubSeq(s, pos + Len(d) + 1, Len(s)))
              = IF pos + Len(d) <= Len(s) THEN Len(s) ELSE pos + Len(d)
<1> DEFINE a == SubSeq(s, 1, pos)
           c == SubSeq(s, pos + Len(d) + 1, Len(s))
<1>1. a \in Seq(S) /\ Len(a) = pos
  OBVIOUS
<1>2. /\ c \in Seq(S)
      /\ Len(c) = IF pos + Len(d) <= Len(s) THEN Len(s) - (pos + Len(d)) ELSE 0
  <2>1. Len(s) \in Nat /\ Len(d) \in Nat /\ pos \in Nat
    OBVIOUS
  <2>2. \A i \in pos + Len(d) + 1 .. Len(s) : s[i] \in S
    BY <2>1
  <2>3. pos + Len(d) + 1 \in Int /\ Len(s) \in Int
    BY <2>1
  <2>4. /\ c \in Seq(S)
        /\ Len(c) = IF pos + Len(d) + 1 <= Len(s)
                      THEN Len(s) - (pos + Len(d) + 1) + 1 ELSE 0
    BY <2>2, <2>3, SubSeqProperties
  <2> HIDE DEF c
  <2> QED BY <2>1, <2>4
<1> HIDE DEF a, c
<1> DEFINE e == a \o d
<1>3. e \in Seq(S) /\ Len(e) = pos + Len(d)
  BY <1>1
<1> HIDE DEF e
<1>4. e \o c \in Seq(S) /\ Len(e \o c) = Len(e) + Len(c)
  BY <1>2, <1>3, ConcatProperties
<1>5. Len(s) \in Nat /\ Len(d) \in Nat /\ pos \in Nat
  OBVIOUS
<1>6. Len(e \o c) = IF pos + Len(d) <= Len(s) THEN Len(s) ELSE pos + Len(d)
  <2>1. CASE pos + Len(d) <= Len(s)
    <3>1. Len(e \o c) = (pos + Len(d)) + (Len(s) - (pos + Len(d)))
      BY <1>2, <1>3, <1>4, <2>1, Zenon
    <3>2. Len(e \o c) = Len(s)
      BY <1>5, <3>1
    <3> QED BY <2>1, <3>2
  <2>2. CASE ~(pos + Len(d) <= Len(s))
    <3>1. Len(e \o c) = (pos + Len(d)) + 0
      BY <1>2, <1>3, <1>4, <2>2, Zenon
    <3>2. Len(e \o c) = pos + Len(d)
      BY <1>5, <3>1
    <3> QED BY <2>2, <3>2, Zenon
  <2> QED BY <2>1, <2>2
<1> QED BY <1>4, <1>6 DEF a, c, e

\* What is written of d: its first n cells, one of them perhaps bad.
LEMMA WrittenCells ==
  ASSUME NEW S, NEW d \in Seq(S), NEW n \in 0 .. Len(d), NEW bad, NEW b \in S
  PROVE  /\ [i \in 1 .. n |-> IF i = bad THEN b ELSE d[i]] \in Seq(S)
         /\ Len([i \in 1 .. n |-> IF i = bad THEN b ELSE d[i]]) = n
<1> DEFINE w == [i \in 1 .. n |-> IF i = bad THEN b ELSE d[i]]
<1>1. w \in [1 .. n -> S] /\ n \in Nat
  OBVIOUS
<1> HIDE DEF w
<1>2. w \in Seq(S) /\ Len(w) = n
  BY <1>1
<1> QED BY <1>2 DEF w

\* The elements of a part of a sequence.
LEMMA NextPart ==
  ASSUME NEW S, NEW data \in Seq(S), NEW pos \in 0 .. Len(data), NEW end \in pos .. Len(data)
  PROVE  /\ SubSeq(data, pos + 1, end) \in Seq(S)
         /\ Len(SubSeq(data, pos + 1, end)) = end - pos
         /\ \A j \in 1 .. end - pos : SubSeq(data, pos + 1, end)[j] = data[pos + j]
<1> DEFINE cells == SubSeq(data, pos + 1, end)
<1>1. pos \in Nat /\ Len(data) \in Nat /\ end \in Nat /\ pos <= end /\ end <= Len(data)
  OBVIOUS
<1>2. \A i \in pos + 1 .. end : data[i] \in S
  BY <1>1
<1>3. /\ cells \in Seq(S)
      /\ Len(cells) = IF pos + 1 <= end THEN end - (pos + 1) + 1 ELSE 0
      /\ \A i \in 1 .. end - (pos + 1) + 1 : cells[i] = data[pos + 1 + i - 1]
  BY <1>1, <1>2, SubSeqProperties
<1> HIDE DEF cells
<1>4. Len(cells) = end - pos
  <2>1. CASE pos + 1 <= end
    BY <1>1, <1>3, <2>1
  <2>2. CASE end = pos
    BY <1>1, <1>3, <2>2
  <2> QED BY <1>1, <2>1, <2>2
<1>5. ASSUME NEW j \in 1 .. end - pos PROVE cells[j] = data[pos + j]
  <2>1. /\ j \in 1 .. end - (pos + 1) + 1 /\ pos + 1 + j - 1 = pos + j
    BY <1>1
  <2> QED BY <1>3, <2>1, Zenon
<1> QED BY <1>3, <1>4, <1>5 DEF cells

-----------------------------------------------------------------------------
(* app20: what the card holds. *)

\* app20: a file is open only inside the three functions that open one.
CardPlace ==
  /\ c_step \in 1 .. 8 /\ c_phase \in {"open", "io", "close", "error"}
  /\ c_phase # "open" => c_step \in {3, 4, 7}
  /\ c_phase = "open" => d_file = <<>>

\* Which call is made at which step.
LEMMA CardProgram ==
  ASSUME c_step \in 1 .. 8
  PROVE  /\ Len(Card!Program) = 7
         /\ Card!Calling("write") => c_step = 3
         /\ Card!Calling("read") => c_step = 4
         /\ Card!Calling("verify") => c_step = 5
         /\ Card!Calling("write nested") => c_step = 7
         /\ Card!Calling("init") \/ Card!Calling("mount") => c_step \in {1, 2}
         /\ Card!Calling("mkdir") => c_step = 6
<1>1. /\ Len(Card!Program) = 7
      /\ Card!Program[1] = "init" /\ Card!Program[2] = "mount"
      /\ Card!Program[3] = "write" /\ Card!Program[4] = "read"
      /\ Card!Program[5] = "verify" /\ Card!Program[6] = "mkdir"
      /\ Card!Program[7] = "write nested"
  BY DEF Card!Program
<1>2. \/ c_step = 1 \/ c_step = 2 \/ c_step = 3 \/ c_step = 4
      \/ c_step = 5 \/ c_step = 6 \/ c_step = 7 \/ ~(c_step <= 7)
  OBVIOUS
<1> QED BY <1>1, <1>2 DEF Card!Calling

LEMMA CardPlaceStep == CardPlace /\ Card!Next => CardPlace'
<1> SUFFICES ASSUME CardPlace, Card!Next PROVE CardPlace'
  OBVIOUS
<1>0. /\ Len(Card!Program) = 7
      /\ Card!Writing \/ Card!Calling("read") => c_step \in {3, 4, 7}
      /\ Card!Calling("verify") => c_step = 5
      /\ Card!Calling("init") \/ Card!Calling("mount") \/ Card!Calling("mkdir")
           => c_step \in {1, 2, 6}
  BY CardProgram DEF CardPlace, Card!Writing
<1> USE <1>0 DEF CardPlace, Card!NextStep, Card!GiveUp
<1>1. CASE Card!OpenFile
  <2>1. \/ c_phase' = "io" /\ c_step' = c_step
        \/ Card!GiveUp /\ d_file' = d_file
    BY <1>1, Zenon DEF Card!OpenFile, Card!fsVars
  <2>2. c_phase = "open" /\ (Card!Writing \/ Card!Calling("read"))
    BY <1>1 DEF Card!OpenFile
  <2> QED BY <2>1, <2>2
<1>2. CASE Card!WriteFile
  BY <1>2 DEF Card!WriteFile
<1>3. CASE Card!ReadFile
  BY <1>3 DEF Card!ReadFile
<1>4. CASE Card!CloseFile
  <2>1. d_file' = <<>> /\ (Card!NextStep \/ Card!GiveUp)
    BY <1>4, Zenon DEF Card!CloseFile, Card!Close, Card!CloseFails
  <2>2. c_phase # "open"
    BY <1>4 DEF Card!CloseFile
  <2> QED BY <2>1, <2>2
<1>5. CASE Card!CloseAfterError
  BY <1>5 DEF Card!CloseAfterError, Card!Close, Card!CloseFails
<1>6. CASE Card!Verify
  BY <1>6 DEF Card!Verify, Card!fsVars
<1>7. CASE Card!SetUp
  BY <1>7 DEF Card!SetUp, Card!fsVars
<1>8. CASE Card!Reset
  <2>1. d_file' = <<>> /\ c_step' = 1 /\ c_phase' = "open"
    BY <1>8, Zenon DEF Card!Reset, Card!PowerLoss
  <2> QED BY <2>1
<1> QED BY <1>1, <1>2, <1>3, <1>4, <1>5, <1>6, <1>7, <1>8 DEF Card!Next

CardCells == {"text", "0", "1", "nested", "bad"}

CardPath == IF c_step = 7 THEN Card!NestedFile ELSE Card!TestFile

\* What has been read is the beginning of the file of the test.
ReadBack ==
  \E n \in 0 .. Len(Card!Content(Card!TestFile)) :
    c_buf = SubSeq(Card!Content(Card!TestFile), 1, n)

\* The file that is open; while it is read it is the file on the card.
CardOpen(data, pos) ==
  /\ d_file = <<[path |-> CardPath, data |-> data, pos |-> pos]>>
  /\ CardPath \in DOMAIN d_disk
  /\ c_step = 4 => data = d_disk[Card!TestFile]
  /\ c_step = 4 /\ c_phase = "io" => pos = 0
  /\ c_step = 4 /\ c_phase = "close" => ReadBack

CardInv ==
  /\ CardPlace
  /\ d_room \in Nat /\ \A p \in DOMAIN d_disk : d_disk[p] \in Seq(CardCells)
  /\ c_phase # "open" =>
       \E data \in Seq(CardCells) : \E pos \in 0 .. Len(data) : CardOpen(data, pos)
  /\ c_step = 5 => ReadBack
  /\ c_step <= 5 => c_verdict \notin {"passed", "completed"}
  /\ c_step \in {6, 7} => c_verdict = "passed"
  /\ Card!PassedIsStored

LEMMA CardContent ==
  ASSUME CardInv, NEW p
  PROVE  Card!Content(p) \in Seq(CardCells) /\ Len(Card!Content(p)) \in Nat
<1>1. <<>> \in Seq(CardCells)
  OBVIOUS
<1>2. Card!Content(p) \in Seq(CardCells)
  BY <1>1 DEF CardInv, Card!Content
<1> QED BY <1>2

\* A prefix of a prefix.
LEMMA PrefixOfPart ==
  ASSUME NEW S, NEW s \in Seq(S), NEW n \in 0 .. Len(s), NEW d \in Seq(S),
         Card!IsPrefix(d, SubSeq(s, 1, n))
  PROVE  Card!IsPrefix(d, s)
<1> DEFINE t == SubSeq(s, 1, n)
<1>1. /\ t \in Seq(S) /\ Len(t) = n /\ Len(d) \in Nat /\ n \in Nat /\ Len(s) \in Nat
      /\ \A i \in 1 .. n : t[i] = s[i]
  OBVIOUS
<1>2. Len(d) <= Len(t) /\ SubSeq(d, 1, Len(d)) = SubSeq(t, 1, Len(d))
  BY DEF Card!IsPrefix
<1> HIDE DEF t
<1>3. SubSeq(t, 1, Len(d)) = SubSeq(s, 1, Len(d))
  <2>1. /\ SubSeq(t, 1, Len(d)) = [i \in 1 .. Len(d) |-> t[i]]
        /\ SubSeq(s, 1, Len(d)) = [i \in 1 .. Len(d) |-> s[i]]
    BY <1>1, <1>2
  <2> QED BY <1>1, <1>2, <2>1
<1> QED BY <1>1, <1>2, <1>3 DEF Card!IsPrefix

LEMMA CardSteps ==
  ASSUME CardPlace
  PROVE  /\ Len(Card!Program) = 7
         /\ Card!Writing => c_step \in {3, 7}
         /\ Card!Calling("read") => c_step = 4
         /\ Card!Calling("verify") => c_step = 5
         /\ Card!Calling("init") \/ Card!Calling("mount") \/ Card!Calling("mkdir")
              => c_step \in {1, 2, 6}
         /\ Card!Calling("write nested") <=> c_step = 7
         /\ c_step \in {3, 4, 7} => Card!Path = CardPath
<1>1. c_step \in 1 .. 8
  BY DEF CardPlace
<1>0. Len(Card!Program) = 7
  BY DEF Card!Program
<1>2. /\ Card!Program[7] = "write nested"
      /\ Card!Program[3] = "write" /\ Card!Program[4] = "read"
  BY DEF Card!Program
<1>3. c_step \in {3, 4, 7} => Card!Path = CardPath
  BY <1>2 DEF Card!Path, CardPath
<1>4. ASSUME c_step = 7 PROVE Card!Calling("write nested")
  <2>1. c_step <= Len(Card!Program)
    BY <1>0, <1>4
  <2>2. Card!Program[c_step] = "write nested"
    BY <1>2, <1>4
  <2> QED BY <2>1, <2>2, Zenon DEF Card!Calling
<1> QED BY <1>0, <1>1, <1>3, <1>4, CardProgram DEF Card!Writing

\* Nothing the invariant speaks of changes but the step.
LEMMA CardGiveUp ==
  ASSUME CardInv, CardPlace', Card!GiveUp, UNCHANGED <<d_room, c_run, c_buf>>,
         \A p \in DOMAIN d_disk' : d_disk'[p] \in Seq(CardCells)
  PROVE  CardInv'
<1>0. Len(Card!Program) = 7
  BY DEF Card!Program
<1>1. c_step' = 8 /\ c_phase' = "open" /\ c_verdict' = "error"
  BY <1>0 DEF Card!GiveUp
<1> QED BY <1>1 DEF CardInv, Card!PassedIsStored

LEMMA CardInvOpen == CardInv /\ CardPlace' /\ Card!OpenFile => CardInv'
<1> SUFFICES ASSUME CardInv, CardPlace', Card!OpenFile PROVE CardInv'
  OBVIOUS
<1> DEFINE opened == Card!Content(CardPath)
<1>1. c_phase = "open" /\ c_step \in {3, 4, 7} /\ UNCHANGED <<c_run, c_buf>>
  BY CardSteps DEF Card!OpenFile, CardInv
<1>2. CASE Card!GiveUp /\ UNCHANGED Card!fsVars
  <2>1. d_disk' = d_disk /\ d_room' = d_room
    BY <1>2 DEF Card!fsVars
  <2> QED BY <1>1, <1>2, <2>1, CardGiveUp DEF CardInv
<1>3. CASE /\ Card!Open(Card!Path, FALSE, FALSE)
           /\ c_phase' = "io" /\ UNCHANGED <<c_step, c_verdict>>
  <2>0. c_phase' = "io" /\ c_step' = c_step /\ c_verdict' = c_verdict
    BY <1>3, Zenon
  <2>1. /\ d_file' = <<[path |-> CardPath, data |-> opened, pos |-> 0]>>
        /\ d_disk' = [q \in DOMAIN d_disk \cup {CardPath} |-> Card!Content(q)]
        /\ d_room' = d_room
    <3>1. Card!Path = CardPath
      BY <1>1, CardSteps DEF CardInv
    <3> QED BY <1>3, <3>1, Zenon DEF Card!Open
  <2>2. opened \in Seq(CardCells) /\ 0 \in 0 .. Len(opened)
    BY CardContent
  <2>3. CardPath' = CardPath /\ c_step' = c_step
    BY <2>0 DEF CardPath
  <2>4. \A p \in DOMAIN d_disk' : d_disk'[p] \in Seq(CardCells)
    BY <2>1, CardContent
  <2>5. Card!Content(Card!TestFile)' = Card!Content(Card!TestFile)
    BY <2>1 DEF Card!Content
  <2>6. CardPath \in DOMAIN d_disk' /\ d_disk'[CardPath] = opened
    BY <2>1
  <2>7. c_step = 4 => CardPath = Card!TestFile
    BY DEF CardPath
  <2> HIDE DEF opened
  <2>8. PICK data \in Seq(CardCells) : data = opened
    BY <2>2
  <2>9. CardOpen(data, 0)'
    BY <2>0, <2>1, <2>3, <2>6, <2>7, <2>8 DEF CardOpen
  <2>10. 0 \in 0 .. Len(data)
    BY <2>2, <2>8
  <2>11. Card!PassedIsStored'
    BY <1>1, <2>0, <2>5 DEF CardInv, Card!PassedIsStored, Card!FullWriteData
  <2>12. \E dt \in Seq(CardCells) : \E pos \in 0 .. Len(dt) : CardOpen(dt, pos)'
    BY <2>9, <2>10
  <2>13. /\ c_step' # 5 /\ (c_step' <= 5 => c_verdict' \notin {"passed", "completed"})
         /\ c_step' \in {6, 7} => c_verdict' = "passed"
    BY <1>1, <2>0 DEF CardInv
  <2>14. d_room' \in Nat
    BY <2>1 DEF CardInv
  <2> QED BY <2>4, <2>11, <2>12, <2>13, <2>14 DEF CardInv
<1> QED BY <1>2, <1>3 DEF Card!OpenFile

\* A write leaves some sequence in the file and the position inside it.
LEMMA CardWritten ==
  ASSUME NEW d \in Seq(CardCells), Card!Write(d), d_room \in Nat, NEW path,
         NEW data \in Seq(CardCells), NEW pos \in 0 .. Len(data),
         d_file = <<[path |-> path, data |-> data, pos |-> pos]>>
  PROVE  \E new \in Seq(CardCells) : \E to \in 0 .. Len(new) :
           d_file' = <<[path |-> path, data |-> new, pos |-> to]>>
<1> DEFINE f == d_file[1]
           end == IF d_room > Len(f.data) THEN d_room ELSE Len(f.data)
           n == IF f.pos + Len(d) <= end THEN Len(d) ELSE end - f.pos
           w(bad) == [i \in 1 .. n |-> IF i = bad THEN "bad" ELSE d[i]]
           new(bad) == SubSeq(data, 1, pos) \o w(bad)
                         \o SubSeq(data, pos + Len(w(bad)) + 1, Len(data))
<1>1. f.path = path /\ f.data = data /\ f.pos = pos
  OBVIOUS
<1>2. n \in 0 .. Len(d)
  <2>1. Len(d) \in Nat /\ Len(data) \in Nat /\ pos \in Nat /\ pos <= Len(data)
    OBVIOUS
  <2> HIDE DEF f
  <2> QED BY <1>1, <2>1
<1>3. PICK bad \in 0 .. n :
        d_file' = <<[path |-> f.path, pos |-> f.pos + n,
                     data |-> Card!Overwritten(f.data, f.pos,
                                [i \in 1 .. n |-> IF i = bad THEN "bad" ELSE d[i]])]>>
  BY DEF Card!Write
<1> HIDE DEF n, f
<1>4. w(bad) \in Seq(CardCells) /\ Len(w(bad)) = n
  BY <1>2, WrittenCells DEF CardCells
<1> HIDE DEF w
<1>5. new(bad) \in Seq(CardCells) /\ pos + n <= Len(new(bad))
  <2>1. /\ new(bad) \in Seq(CardCells)
        /\ Len(new(bad)) = IF pos + n <= Len(data) THEN Len(data) ELSE pos + n
    BY <1>4, OverwriteCells
  <2>2. pos + n \in Nat /\ Len(data) \in Nat
    BY <1>2
  <2> HIDE DEF new
  <2> QED BY <2>1, <2>2
<1> HIDE DEF new
<1>6. pos + n \in 0 .. Len(new(bad))
  BY <1>2, <1>5
<1>7. d_file' = <<[path |-> path, data |-> new(bad), pos |-> pos + n]>>
  BY <1>1, <1>3 DEF new, w, Card!Overwritten
<1> QED BY <1>5, <1>6, <1>7

LEMMA CardInvWrite == CardInv /\ CardPlace' /\ Card!WriteFile => CardInv'
<1> SUFFICES ASSUME CardInv, CardPlace', Card!WriteFile PROVE CardInv'
  OBVIOUS
<1>1. /\ c_phase = "io" /\ c_step \in {3, 7}
      /\ UNCHANGED <<d_disk, d_room, c_step, c_run, c_buf, c_verdict>>
  <2>1. c_phase = "io" /\ c_step \in {3, 7}
    BY CardSteps DEF Card!WriteFile, CardInv
  <2>2. UNCHANGED <<d_disk, d_room, c_step, c_run, c_buf, c_verdict>>
    BY Zenon DEF Card!WriteFile, Card!Write, Card!fsVars
  <2> QED BY <2>1, <2>2
<1>2a. PICK data \in Seq(CardCells) : \E pos \in 0 .. Len(data) : CardOpen(data, pos)
  BY <1>1 DEF CardInv
<1>2. PICK pos \in 0 .. Len(data) : CardOpen(data, pos)
  BY <1>2a
<1>3. Card!PassedIsStored' /\ CardPath' = CardPath
  BY <1>1 DEF CardInv, Card!PassedIsStored, Card!Content, Card!FullWriteData, CardPath
<1>4. CASE c_phase' = "error" /\ UNCHANGED Card!fsVars
  <2>1. CardOpen(data, pos)'
    BY <1>1, <1>2, <1>3, <1>4 DEF CardOpen, Card!fsVars
  <2> QED BY <1>1, <1>3, <1>4, <2>1 DEF CardInv
<1>5. CASE Card!Write(Card!Data) /\ c_phase' = "close"
  <2>1. Card!Data \in Seq(CardCells)
    <3>1. /\ <<"nested">> \in Seq(CardCells) /\ <<"text", "0">> \in Seq(CardCells)
          /\ <<"text", "1", "1">> \in Seq(CardCells)
      BY DEF CardCells
    <3> QED BY <3>1, Zenon DEF Card!Data, Card!FullWriteData
  <2>2. d_file = <<[path |-> CardPath, data |-> data, pos |-> pos]>>
    BY <1>2 DEF CardOpen
  <2>3a. PICK new \in Seq(CardCells) : \E to \in 0 .. Len(new) :
           d_file' = <<[path |-> CardPath, data |-> new, pos |-> to]>>
    BY <1>5, <2>1, <2>2, CardWritten DEF CardInv
  <2>3. PICK to \in 0 .. Len(new) :
          d_file' = <<[path |-> CardPath, data |-> new, pos |-> to]>>
    BY <2>3a
  <2>4. CardOpen(new, to)'
    BY <1>1, <1>2, <1>3, <2>3 DEF CardOpen
  <2> QED BY <1>1, <1>3, <1>5, <2>4 DEF CardInv
<1> QED BY <1>4, <1>5 DEF Card!WriteFile

LEMMA CardInvRead == CardInv /\ CardPlace' /\ Card!ReadFile => CardInv'
<1> SUFFICES ASSUME CardInv, CardPlace', Card!ReadFile PROVE CardInv'
  OBVIOUS
<1>1. c_phase = "io" /\ c_step = 4 /\ UNCHANGED <<c_step, c_run, c_verdict>>
  BY CardSteps DEF Card!ReadFile, CardInv
<1>2. UNCHANGED <<d_disk, d_room>>
  BY Zenon DEF Card!ReadFile, Card!Read, Card!fsVars
<1>3. PICK data \in Seq(CardCells) : \E pos \in 0 .. Len(data) : CardOpen(data, pos)
  BY <1>1 DEF CardInv
<1>4. /\ CardOpen(data, 0) /\ data = d_disk[Card!TestFile] /\ CardPath = Card!TestFile
      /\ Card!TestFile \in DOMAIN d_disk
  BY <1>1, <1>3 DEF CardOpen, CardPath
<1>5. /\ Card!PassedIsStored' /\ CardPath' = CardPath
      /\ Card!Content(Card!TestFile) = data /\ Card!Content(Card!TestFile)' = data
  BY <1>1, <1>2, <1>4 DEF CardInv, Card!PassedIsStored, Card!Content, Card!FullWriteData,
    CardPath
<1>6. CASE c_phase' = "error" /\ UNCHANGED <<Card!fsVars, c_buf>>
  <2>1. CardOpen(data, 0)'
    BY <1>1, <1>2, <1>4, <1>5, <1>6 DEF CardOpen, Card!fsVars
  <2>2. 0 \in 0 .. Len(data)
    OBVIOUS
  <2> QED BY <1>1, <1>2, <1>5, <1>6, <2>1, <2>2 DEF CardInv
<1>7. CASE Card!Read(MaxRoom) /\ c_buf' = Card!NextCells(MaxRoom) /\ c_phase' = "close"
  <2> DEFINE n == IF MaxRoom < Len(data) THEN MaxRoom ELSE Len(data)
  <2>1. n \in 0 .. Len(data)
    BY DemosAssumption DEF DemosAssumption
  <2>2. d_file = <<[path |-> CardPath, data |-> data, pos |-> 0]>>
    BY <1>4 DEF CardOpen
  <2>3. Card!NextCells(MaxRoom) = SubSeq(data, 1, n)
    <3>1. 0 + 1 = 1 /\ 0 + MaxRoom = MaxRoom
      BY DemosAssumption DEF DemosAssumption
    <3> QED BY <2>2, <3>1 DEF Card!NextCells
  <2>4. Len(SubSeq(data, 1, n)) = n
    BY <2>1
  <2>5. d_file' = <<[path |-> CardPath, data |-> data, pos |-> n]>>
    <3>1. 0 + n = n
      BY <2>1
    <3> HIDE DEF n
    <3>2. d_file' = <<[d_file[1] EXCEPT !.pos = @ + Len(Card!NextCells(MaxRoom))]>>
      BY <1>7 DEF Card!Read
    <3>3. Len(Card!NextCells(MaxRoom)) = n
      BY <2>3, <2>4
    <3>4. d_file' = <<[d_file[1] EXCEPT !.pos = @ + n]>>
      BY <3>2, <3>3
    <3>5. d_file[1] = [path |-> CardPath, data |-> data, pos |-> 0]
      BY <2>2
    <3> QED BY <3>1, <3>4, <3>5
  <2> HIDE DEF n
  <2>6. ReadBack'
    BY <1>5, <1>7, <2>1, <2>3 DEF ReadBack
  <2>7. PICK pos \in 0 .. Len(data) : pos = n
    BY <2>1
  <2>8. CardOpen(data, pos)'
    BY <1>1, <1>2, <1>4, <1>5, <1>7, <2>5, <2>6, <2>7 DEF CardOpen
  <2> QED BY <1>1, <1>2, <1>5, <1>7, <2>8 DEF CardInv
<1> QED BY <1>6, <1>7 DEF Card!ReadFile

\* What closing the file stores.
LEMMA CardStored ==
  ASSUME CardInv, c_phase # "open"
  PROVE  /\ \A p \in DOMAIN Card!Stored : Card!Stored[p] \in Seq(CardCells)
         /\ DOMAIN Card!Stored = DOMAIN d_disk
         /\ c_step \in {4, 7} /\ Card!TestFile \in DOMAIN d_disk =>
              Card!Stored[Card!TestFile] = d_disk[Card!TestFile]
<1>1. PICK data \in Seq(CardCells) : \E pos \in 0 .. Len(data) : CardOpen(data, pos)
  BY DEF CardInv
<1>2. PICK pos \in 0 .. Len(data) : CardOpen(data, pos)
  BY <1>1
<1>3. Card!Stored = [d_disk EXCEPT ![CardPath] = data]
  BY <1>2 DEF CardOpen, Card!Stored
<1>4. c_step = 4 => CardPath = Card!TestFile /\ data = d_disk[Card!TestFile]
  BY <1>2 DEF CardOpen, CardPath
<1>5. c_step = 7 => CardPath # Card!TestFile
  BY DEF CardPath, Card!TestFile, Card!NestedFile
<1> QED BY <1>3, <1>4, <1>5 DEF CardInv

LEMMA CardInvClose == CardInv /\ CardPlace' /\ Card!CloseFile => CardInv'
<1> SUFFICES ASSUME CardInv, CardPlace', Card!CloseFile PROVE CardInv'
  OBVIOUS
<1>1. /\ c_phase = "close" /\ c_step \in {3, 4, 7}
      /\ UNCHANGED <<d_room, c_run, c_buf>>
  <2>1. c_phase = "close" /\ c_step \in {3, 4, 7}
    BY DEF Card!CloseFile, CardInv, CardPlace
  <2>2. UNCHANGED <<d_room, c_run, c_buf>>
    BY Zenon DEF Card!CloseFile, Card!Close, Card!CloseFails
  <2> QED BY <2>1, <2>2
<1>2. CASE Card!CloseFails /\ Card!GiveUp
  <2>1. \A p \in DOMAIN d_disk' : d_disk'[p] \in Seq(CardCells)
    BY <1>1, <1>2, CardStored DEF Card!CloseFails, CardInv
  <2> QED BY <1>1, <1>2, <2>1, CardGiveUp
<1>3. CASE /\ Card!Close /\ Card!NextStep
           /\ c_verdict' = IF Card!Calling("write nested") THEN "completed" ELSE c_verdict
  <2>1. /\ d_disk' = Card!Stored /\ c_step' = c_step + 1 /\ c_phase' = "open"
        /\ c_verdict' = IF c_step = 7 THEN "completed" ELSE c_verdict
    <3>1. Card!Calling("write nested") <=> c_step = 7
      BY CardSteps DEF CardInv
    <3> QED BY <1>3, <3>1, Zenon DEF Card!Close, Card!NextStep
  <2>2. /\ \A p \in DOMAIN d_disk' : d_disk'[p] \in Seq(CardCells)
        /\ c_step \in {4, 7} =>
             Card!Content(Card!TestFile)' = Card!Content(Card!TestFile)
    BY <1>1, <2>1, CardStored DEF Card!Content
  <2>3. CASE c_step = 3
    <3>1. c_step' = 4 /\ c_verdict' = c_verdict
      BY <2>1, <2>3
    <3> QED BY <1>1, <2>1, <2>2, <2>3, <3>1 DEF CardInv, Card!PassedIsStored
  <2>4. CASE c_step = 4
    <3>1. c_step' = 5 /\ c_verdict' = c_verdict
      BY <2>1, <2>4
    <3>2. ReadBack'
      <4>1. ReadBack
        BY <1>1, <2>4 DEF CardInv, CardOpen
      <4> QED BY <1>1, <2>2, <2>4, <4>1 DEF ReadBack
    <3> QED BY <1>1, <2>1, <2>2, <2>4, <3>1, <3>2 DEF CardInv, Card!PassedIsStored
  <2>5. CASE c_step = 7
    <3>1. c_step' = 8 /\ c_verdict' = "completed"
      BY <2>1, <2>5
    <3>2. Card!PassedIsStored'
      BY <1>1, <2>2, <2>5 DEF CardInv, Card!PassedIsStored, Card!FullWriteData
    <3> QED BY <1>1, <2>1, <2>2, <3>1, <3>2 DEF CardInv
  <2> QED BY <1>1, <2>3, <2>4, <2>5
<1> QED BY <1>2, <1>3 DEF Card!CloseFile

LEMMA CardInvCloseAfterError == CardInv /\ CardPlace' /\ Card!CloseAfterError => CardInv'
<1> SUFFICES ASSUME CardInv, CardPlace', Card!CloseAfterError PROVE CardInv'
  OBVIOUS
<1>1. /\ c_phase = "error" /\ Card!GiveUp /\ UNCHANGED <<d_room, c_run, c_buf>>
      /\ d_disk' \in {d_disk, Card!Stored}
  BY DEF Card!CloseAfterError, Card!Close, Card!CloseFails
<1>2. \A p \in DOMAIN d_disk' : d_disk'[p] \in Seq(CardCells)
  BY <1>1, CardStored DEF CardInv
<1> QED BY <1>1, <1>2, CardGiveUp

LEMMA CardInvVerify == CardInv /\ CardPlace' /\ Card!Verify => CardInv'
<1> SUFFICES ASSUME CardInv, CardPlace', Card!Verify PROVE CardInv'
  OBVIOUS
<1>1. c_step = 5 /\ UNCHANGED <<d_disk, d_file, d_room, c_run, c_buf>>
  BY CardSteps DEF Card!Verify, Card!fsVars, CardInv
<1>2. CASE Card!GiveUp
  BY <1>1, <1>2, CardGiveUp DEF CardInv
<1>3. CASE /\ Card!IsPrefix(Card!FullWriteData, c_buf)
           /\ Card!NextStep /\ c_verdict' = "passed"
  <2>1. c_step' = 6 /\ c_phase' = "open"
    BY <1>1, <1>3 DEF Card!NextStep
  <2>2. PICK n \in 0 .. Len(Card!Content(Card!TestFile)) :
          c_buf = SubSeq(Card!Content(Card!TestFile), 1, n)
    BY <1>1 DEF CardInv, ReadBack
  <2>3. Card!FullWriteData \in Seq(CardCells)
    <3>1. <<"text", "0">> \in Seq(CardCells) /\ <<"text", "1", "1">> \in Seq(CardCells)
      BY DEF CardCells
    <3> QED BY <3>1, Zenon DEF Card!FullWriteData
  <2>4. Card!IsPrefix(Card!FullWriteData, Card!Content(Card!TestFile))
    BY <1>3, <2>2, <2>3, CardContent, PrefixOfPart
  <2>5. Card!PassedIsStored'
    <3>1. /\ Card!FullWriteData' = Card!FullWriteData
          /\ Card!Content(Card!TestFile)' = Card!Content(Card!TestFile)
      BY <1>1 DEF Card!FullWriteData, Card!Content
    <3>2. Card!IsPrefix(Card!FullWriteData', Card!Content(Card!TestFile)')
      BY <2>4, <3>1
    <3> QED BY <3>2 DEF Card!PassedIsStored, Card!IsPrefix
  <2> QED BY <1>1, <1>3, <2>1, <2>5 DEF CardInv
<1> QED BY <1>2, <1>3 DEF Card!Verify

LEMMA CardInvSetUp == CardInv /\ CardPlace' /\ Card!SetUp => CardInv'
<1> SUFFICES ASSUME CardInv, CardPlace', Card!SetUp PROVE CardInv'
  OBVIOUS
<1>1. c_step \in {1, 2, 6} /\ UNCHANGED <<d_disk, d_file, d_room, c_run, c_buf>>
  BY CardSteps DEF Card!SetUp, Card!fsVars, CardInv
<1>2. CASE Card!GiveUp
  BY <1>1, <1>2, CardGiveUp DEF CardInv
<1>3. CASE Card!NextStep /\ UNCHANGED c_verdict
  <2>1. c_step' \in {2, 3, 7} /\ c_step' = c_step + 1 /\ c_phase' = "open"
    BY <1>1, <1>3 DEF Card!NextStep
  <2>2. Card!PassedIsStored'
    BY <1>1, <1>3 DEF CardInv, Card!PassedIsStored, Card!FullWriteData, Card!Content
  <2> QED BY <1>1, <1>3, <2>1, <2>2 DEF CardInv
<1> QED BY <1>2, <1>3 DEF Card!SetUp

LEMMA CardInvReset == CardInv /\ CardPlace' /\ Card!Reset => CardInv'
<1> SUFFICES ASSUME CardInv, CardPlace', Card!Reset PROVE CardInv'
  OBVIOUS
<1>1. /\ c_step' = 1 /\ c_phase' = "open" /\ d_room' = d_room
      /\ d_disk' = d_disk \/ (d_file # <<>> /\ d_disk' = Card!Stored)
  BY Zenon DEF Card!Reset, Card!PowerLoss
<1>2. c_verdict' \notin {"passed", "completed"}
  BY Zenon DEF Card!Reset
<1>3. d_file # <<>> => c_phase # "open"
  BY DEF CardInv, CardPlace
<1>4. \A p \in DOMAIN d_disk' : d_disk'[p] \in Seq(CardCells)
  BY <1>1, <1>3, CardStored DEF CardInv
<1>5. Card!PassedIsStored'
  BY <1>2 DEF Card!PassedIsStored
<1> QED BY <1>1, <1>2, <1>4, <1>5 DEF CardInv

LEMMA CardInit == Init => CardInv
<1> SUFFICES ASSUME Init PROVE CardInv
  OBVIOUS
<1>1. /\ c_step = 1 /\ c_phase = "open" /\ d_disk = <<>> /\ d_file = <<>>
      /\ d_room \in 0 .. MaxRoom
  BY Zenon DEF Init, Card!Init, Card!FsInit
<1>2. c_verdict \notin {"passed", "completed"}
  BY Zenon DEF Init, Card!Init
<1>3. d_room \in Nat
  BY <1>1, DemosAssumption DEF DemosAssumption
<1>4. \A p \in DOMAIN d_disk : d_disk[p] \in Seq(CardCells)
  BY <1>1
<1>5. CardPlace /\ Card!PassedIsStored
  BY <1>1, <1>2 DEF CardPlace, Card!PassedIsStored
<1> QED BY <1>1, <1>2, <1>3, <1>4, <1>5 DEF CardInv

LEMMA CardStep == CardInv /\ Card!Next => CardInv'
<1>1. CardInv /\ Card!Next => CardPlace'
  BY CardPlaceStep DEF CardInv
<1> QED BY <1>1, CardInvOpen, CardInvWrite, CardInvRead, CardInvClose,
  CardInvCloseAfterError, CardInvVerify, CardInvSetUp, CardInvReset DEF Card!Next

-----------------------------------------------------------------------------
(* app21: what the file of the test holds. *)

\* app21: the buffer is allocated from the malloc to the end of its test, the file
\* open in between.
SpeedPlace ==
  /\ v_pc \in Speed!Labels
  /\ v_pc \in {"write open", "write", "read open", "read"} => v_heap = 1
  /\ v_pc \notin {"write open", "write", "read open", "read"} => v_heap = 0
  /\ v_pc \notin {"write", "read"} => d_file = <<>>

LEMMA SpeedPlaceStep == SpeedPlace /\ Speed!Next => SpeedPlace'
<1> SUFFICES ASSUME SpeedPlace, Speed!Next PROVE SpeedPlace'
  OBVIOUS
<1>0. 0 + 1 = 1 /\ 1 - 1 = 0
  OBVIOUS
<1> USE DEF SpeedPlace, Speed!Goto, Speed!Labels, Speed!fsVars
<1>1. CASE Speed!SetUp
  BY <1>1 DEF Speed!SetUp
<1>2. CASE \/ Speed!Malloc("write malloc", "write open")
           \/ Speed!Malloc("read malloc", "read open")
  <2>1. v_heap = 0
    BY <1>2 DEF Speed!Malloc
  <2>2. /\ \/ v_heap' = v_heap + 1 /\ v_pc' \in {"write open", "read open"}
           \/ v_heap' = v_heap /\ v_pc' = "ended"
        /\ d_file = <<>> /\ d_file' = d_file
    BY <1>2, Zenon DEF Speed!Malloc
  <2> QED BY <1>0, <2>1, <2>2, Zenon
<1>3. CASE Speed!OpenToWrite \/ Speed!OpenToRead
  <2>1. v_heap = 1
    BY <1>3 DEF Speed!OpenToWrite, Speed!OpenToRead
  <2>2. \/ v_heap' = v_heap /\ v_pc' \in {"write", "read"}
        \/ v_heap' = v_heap - 1 /\ v_pc' = "ended" /\ d_file = <<>> /\ d_file' = d_file
    BY <1>3, Zenon DEF Speed!OpenToWrite, Speed!OpenToRead
  <2> QED BY <1>0, <2>1, <2>2, Zenon
<1>4. CASE Speed!WriteChunk
  <2>1. v_heap = 1
    BY <1>4 DEF Speed!WriteChunk
  <2>2. \/ v_heap' = 1 /\ v_pc' = "write"
        \/ v_heap' = 0 /\ v_pc' = "ended" /\ d_file' = <<>>
    BY <1>4, <2>1 DEF Speed!WriteChunk, Speed!Close, Speed!CloseFails
  <2> QED BY <2>2
<1>5. CASE Speed!ReadChunk
  BY <1>5 DEF Speed!ReadChunk
<1>6. CASE Speed!WriteDone \/ Speed!ReadDone
  <2>1. v_heap = 1
    BY <1>6 DEF Speed!WriteDone, Speed!ReadDone
  <2>2. /\ v_heap' = v_heap - 1 /\ d_file' = <<>>
        /\ v_pc' \in {"read malloc", "unlink", "ended"}
    BY <1>6, Zenon DEF Speed!WriteDone, Speed!ReadDone, Speed!Close, Speed!CloseFails
  <2> QED BY <1>0, <2>1, <2>2, Zenon
<1>7. CASE Speed!Cleanup \/ Speed!Restart
  BY <1>7 DEF Speed!Cleanup, Speed!Restart, Speed!Unlink
<1> QED BY <1>1, <1>2, <1>3, <1>4, <1>5, <1>6, <1>7 DEF Speed!Next

Total == ChunkSize * ChunkCount

\* The cell that belongs at place i of the file.
RightCell(i) == Speed!Filled((i - 1) \div ChunkSize)[((i - 1) % ChunkSize) + 1]

\* While the file is written it holds some numbers, no more than the chunks there
\* are; while it is read it is the file on the card, and all right so far.
SpeedWriting(data, pos) ==
  /\ d_file = <<[path |-> Speed!TestFile, data |-> data, pos |-> pos]>>
  /\ pos <= ChunkSize * v_chunk

SpeedReading(data, pos) ==
  /\ d_file = <<[path |-> Speed!TestFile, data |-> data, pos |-> pos]>>
  /\ data = Speed!Content(Speed!TestFile)
  /\ v_ok = TRUE =>
       /\ pos = IF ChunkSize * v_chunk <= Len(data) THEN ChunkSize * v_chunk ELSE Len(data)
       /\ \A i \in 1 .. pos : data[i] = RightCell(i)

SpeedContent == Speed!Content(Speed!TestFile)

\* Reading begins with the first chunk.
SpeedFromStart == v_pc = "read open" => v_chunk = 0

SpeedInv ==
  /\ SpeedPlace /\ d_room \in Nat /\ v_chunk \in 0 .. ChunkCount
  /\ SpeedContent \in Seq(Int) /\ Len(SpeedContent) <= Total
  /\ SpeedFromStart
  /\ v_pc \in {"write", "read"} => Speed!TestFile \in DOMAIN d_disk
  /\ v_pc = "write" =>
       \E data \in Seq(Int) : \E pos \in 0 .. Len(data) :
         Len(data) <= Total /\ SpeedWriting(data, pos)
  /\ v_pc = "read" =>
       \E data \in Seq(Int) : \E pos \in 0 .. Len(data) : SpeedReading(data, pos)
  /\ Speed!PassedIsRight

\* Cell j of chunk k is the one that belongs behind k chunks and j - 1 cells.
LEMMA CellOfChunk ==
  ASSUME NEW k \in Nat, NEW j \in 1 .. ChunkSize
  PROVE  RightCell(ChunkSize * k + j) = Speed!Filled(k)[j]
<1>1. ChunkSize \in Nat \ {0}
  BY DemosAssumption DEF DemosAssumption
<1>2. ChunkSize * k \in Nat
  BY <1>1
<1> DEFINE a == j - 1
           i == ChunkSize * k + j
<1>3. a \in 0 .. ChunkSize - 1 /\ a + 1 = j
  BY <1>1
<1>4. i - 1 = ChunkSize * k + a
  BY <1>1, <1>2
<1> HIDE DEF a, i
<1>5. (ChunkSize * k + a) \div ChunkSize = k /\ (ChunkSize * k + a) % ChunkSize = a
  BY <1>1, <1>3, Quotient, Remainder
<1>6. RightCell(i) = Speed!Filled(k)[j]
  BY <1>3, <1>4, <1>5, Zenon DEF RightCell
<1> QED BY <1>6 DEF i

LEMMA FilledCells ==
  ASSUME NEW k \in Nat
  PROVE  /\ Speed!Filled(k) \in Seq(Int) /\ Len(Speed!Filled(k)) = ChunkSize
         /\ \A j \in 1 .. ChunkSize : Speed!Filled(k)[j] = j - 1 + k
  BY DemosAssumption DEF DemosAssumption, Speed!Filled

LEMMA SpeedSizes ==
  ASSUME SpeedInv
  PROVE  /\ ChunkSize \in Nat \ {0} /\ v_chunk \in Nat /\ ChunkCount \in Nat
         /\ Total \in Nat /\ ChunkSize * v_chunk \in Nat
         /\ v_chunk < ChunkCount => ChunkSize * (v_chunk + 1) <= Total
<1>1. ChunkSize \in Nat \ {0} /\ ChunkCount \in Nat /\ v_chunk \in Nat
  BY DemosAssumption DEF DemosAssumption, SpeedInv
<1>2. Total \in Nat /\ ChunkSize * v_chunk \in Nat
  BY <1>1 DEF Total
<1>3. ASSUME v_chunk < ChunkCount PROVE ChunkSize * (v_chunk + 1) <= Total
  <2>1. v_chunk + 1 <= ChunkCount
    BY <1>1, <1>3
  <2>2. ChunkSize * v_chunk + ChunkSize <= ChunkSize * ChunkCount
    BY <1>1, <2>1, Multiples
  <2> QED BY <1>1, <2>2, NextMultiple DEF Total
<1> QED BY <1>1, <1>2, <1>3

\* A chunk written: the file stays within what the chunks may fill.
LEMMA SpeedWritten ==
  ASSUME NEW k \in Nat, Speed!Write(Speed!Filled(k)), d_room \in Nat, NEW path,
         NEW data \in Seq(Int), NEW pos \in 0 .. Len(data), NEW most \in Nat,
         Len(data) <= most, pos + ChunkSize <= most,
         d_file = <<[path |-> path, data |-> data, pos |-> pos]>>
  PROVE  \E new \in Seq(Int) : \E to \in 0 .. Len(new) :
           /\ d_file' = <<[path |-> path, data |-> new, pos |-> to]>>
           /\ Len(new) <= most /\ to <= pos + ChunkSize
<1> DEFINE d == Speed!Filled(k)
           f == d_file[1]
           end == IF d_room > Len(f.data) THEN d_room ELSE Len(f.data)
           n == IF f.pos + Len(d) <= end THEN Len(d) ELSE end - f.pos
           w(bad) == [i \in 1 .. n |-> IF i = bad THEN -1 ELSE d[i]]
           new(bad) == SubSeq(data, 1, pos) \o w(bad)
                         \o SubSeq(data, pos + Len(w(bad)) + 1, Len(data))
<1>1. f.path = path /\ f.data = data /\ f.pos = pos
  OBVIOUS
<1>0. /\ d \in Seq(Int) /\ Len(d) = ChunkSize /\ ChunkSize \in Nat
      /\ Len(data) \in Nat /\ pos \in Nat /\ pos <= Len(data)
  BY FilledCells, DemosAssumption DEF DemosAssumption
<1> HIDE DEF d
<1>2. n \in 0 .. Len(d)
  <2> HIDE DEF f
  <2> QED BY <1>0, <1>1
<1>3. PICK bad \in 0 .. n :
        d_file' = <<[path |-> f.path, pos |-> f.pos + n,
                     data |-> Speed!Overwritten(f.data, f.pos,
                                [i \in 1 .. n |-> IF i = bad THEN -1 ELSE d[i]])]>>
  BY DEF Speed!Write, d
<1> HIDE DEF n, f
<1>4. w(bad) \in Seq(Int) /\ Len(w(bad)) = n
  <2>1. -1 \in Int
    OBVIOUS
  <2> QED BY <1>0, <1>2, <2>1, WrittenCells
<1> HIDE DEF w
<1>5. /\ new(bad) \in Seq(Int)
      /\ Len(new(bad)) = IF pos + n <= Len(data) THEN Len(data) ELSE pos + n
  BY <1>4, OverwriteCells
<1> HIDE DEF new
<1>6. pos + n \in 0 .. Len(new(bad)) /\ pos + n <= pos + ChunkSize /\ Len(new(bad)) <= most
  BY <1>0, <1>2, <1>5
<1>7. d_file' = <<[path |-> path, data |-> new(bad), pos |-> pos + n]>>
  BY <1>1, <1>3 DEF new, w, Speed!Overwritten
<1> QED BY <1>5, <1>6, <1>7
\* Where the program does not access the file, what is on the card matters.
LEMMA SpeedElsewhere ==
  ASSUME SpeedInv, SpeedPlace', v_pc' \notin {"write", "read", "unlink"},
         v_chunk' \in 0 .. ChunkCount, SpeedFromStart',
         d_room' = d_room,
         SpeedContent' \in Seq(Int), Len(SpeedContent') <= Total
  PROVE  SpeedInv'
<1>1. Speed!PassedIsRight'
  BY DEF Speed!PassedIsRight
<1>2. Total' = Total
  BY DEF Total
<1> QED BY <1>1, <1>2 DEF SpeedInv

\* What closing the file leaves on the card, whether it fails or not.
LEMMA SpeedClosed ==
  ASSUME SpeedInv, v_pc \in {"write", "read"}, Speed!Close \/ Speed!CloseFails
  PROVE  /\ SpeedContent' \in Seq(Int) /\ Len(SpeedContent') <= Total
         /\ v_pc = "read" => SpeedContent' = SpeedContent
         /\ d_room' = d_room /\ d_file' = <<>>
<1>1. /\ d_disk' \in {d_disk, Speed!Stored} /\ d_room' = d_room /\ d_file' = <<>>
      /\ Speed!TestFile \in DOMAIN d_disk
  BY DEF Speed!Close, Speed!CloseFails, SpeedInv
<1>2. PICK data \in Seq(Int) :
        /\ d_file[1].path = Speed!TestFile /\ d_file[1].data = data
        /\ v_pc = "write" => Len(data) <= Total
        /\ v_pc = "read" => data = SpeedContent
  BY DEF SpeedInv, SpeedWriting, SpeedReading, SpeedContent
<1>3. Speed!Stored = [d_disk EXCEPT ![Speed!TestFile] = data]
  BY <1>2 DEF Speed!Stored
<1>4. SpeedContent' = SpeedContent \/ SpeedContent' = data
  BY <1>1, <1>3 DEF SpeedContent, Speed!Content, Speed!TestFile
<1> QED BY <1>1, <1>2, <1>4 DEF SpeedInv

LEMMA SpeedInvOpenToWrite == SpeedInv /\ SpeedPlace' /\ Speed!OpenToWrite => SpeedInv'
<1> SUFFICES ASSUME SpeedInv, SpeedPlace', Speed!OpenToWrite PROVE SpeedInv'
  OBVIOUS
<1>1. v_pc = "write open" /\ v_chunk' = v_chunk
  BY DEF Speed!OpenToWrite
<1>2. CASE v_pc' = "ended" /\ UNCHANGED Speed!fsVars
  <2>1. SpeedContent' = SpeedContent /\ d_room' = d_room
    BY <1>2 DEF Speed!fsVars, SpeedContent, Speed!Content
  <2>2. SpeedFromStart'
    BY <1>2 DEF SpeedFromStart
  <2> QED BY <1>1, <1>2, <2>1, <2>2, SpeedElsewhere DEF SpeedInv
<1>3. CASE v_pc' = "write" /\ Speed!Open(Speed!TestFile, FALSE, FALSE)
  <2>1. /\ d_file' = <<[path |-> Speed!TestFile, data |-> SpeedContent, pos |-> 0]>>
        /\ d_disk' = [q \in DOMAIN d_disk \cup {Speed!TestFile} |-> Speed!Content(q)]
        /\ d_room' = d_room
    BY <1>3, Zenon DEF Speed!Open, SpeedContent
  <2>2. /\ SpeedContent' = SpeedContent /\ Speed!TestFile \in DOMAIN d_disk'
    BY <2>1 DEF SpeedContent, Speed!Content
  <2>3. PICK data \in Seq(Int) : data = SpeedContent
    BY DEF SpeedInv
  <2>4. SpeedWriting(data, 0)' /\ 0 \in 0 .. Len(data) /\ Len(data) <= Total
    <3>1. 0 <= ChunkSize * v_chunk /\ Len(data) \in Nat
      BY SpeedSizes
    <3>2. v_chunk' = v_chunk /\ data = SpeedContent /\ Speed!TestFile' = Speed!TestFile
      BY <1>1, <2>3 DEF Speed!TestFile
    <3>3. SpeedWriting(data, 0)'
      BY <2>1, <3>1, <3>2 DEF SpeedWriting
    <3> QED BY <2>3, <3>1, <3>3 DEF SpeedInv
  <2>5. Speed!PassedIsRight'
    BY <1>3 DEF Speed!PassedIsRight
  <2>6. Total' = Total
    BY DEF Total
  <2>7. SpeedFromStart'
    BY <1>3 DEF SpeedFromStart
  <2> QED BY <1>1, <1>3, <2>1, <2>2, <2>4, <2>5, <2>6, <2>7 DEF SpeedInv
<1> QED BY <1>2, <1>3 DEF Speed!OpenToWrite, Speed!Goto

LEMMA SpeedInvWrite ==
  SpeedInv /\ SpeedPlace' /\ (Speed!WriteChunk \/ Speed!WriteDone) => SpeedInv'
<1> SUFFICES ASSUME SpeedInv, SpeedPlace', Speed!WriteChunk \/ Speed!WriteDone
    PROVE SpeedInv'
  OBVIOUS
<1>1. v_pc = "write"
  BY DEF Speed!WriteChunk, Speed!WriteDone
<1>2. CASE /\ Speed!Close \/ Speed!CloseFails
           /\ v_pc' \in {"ended", "read malloc"} /\ v_chunk' = v_chunk
  <2>1. /\ SpeedContent' \in Seq(Int) /\ Len(SpeedContent') <= Total /\ d_room' = d_room
    BY <1>1, <1>2, SpeedClosed
  <2>2. v_pc' \notin {"write", "read", "unlink"} /\ v_chunk' \in 0 .. ChunkCount
    BY <1>2 DEF SpeedInv
  <2>3. SpeedFromStart'
    BY <1>2 DEF SpeedFromStart
  <2> QED BY <2>1, <2>2, <2>3, SpeedElsewhere
<1>3. CASE /\ v_chunk < ChunkCount /\ Speed!Write(Speed!Filled(v_chunk))
           /\ v_chunk' = v_chunk + 1 /\ v_pc' = v_pc
  <2>1a. PICK data \in Seq(Int) : \E pos \in 0 .. Len(data) :
           Len(data) <= Total /\ SpeedWriting(data, pos)
    BY <1>1 DEF SpeedInv
  <2>1. PICK pos \in 0 .. Len(data) : Len(data) <= Total /\ SpeedWriting(data, pos)
    BY <2>1a
  <2>2. /\ ChunkSize * (v_chunk + 1) = ChunkSize * v_chunk + ChunkSize
        /\ ChunkSize * v_chunk \in Nat
    BY SpeedSizes, NextMultiple
  <2>3. pos + ChunkSize <= Total /\ pos + ChunkSize <= ChunkSize * (v_chunk + 1)
    <3>1. pos <= ChunkSize * v_chunk /\ ChunkSize * (v_chunk + 1) <= Total
      BY <1>3, <2>1, SpeedSizes DEF SpeedWriting
    <3>2. pos \in Nat /\ ChunkSize \in Nat /\ Total \in Nat
      BY SpeedSizes
    <3> QED BY <2>2, <3>1, <3>2
  <2>4a. PICK new \in Seq(Int) : \E to \in 0 .. Len(new) :
           /\ d_file' = <<[path |-> Speed!TestFile, data |-> new, pos |-> to]>>
           /\ Len(new) <= Total /\ to <= pos + ChunkSize
    BY <1>3, <2>1, <2>3, SpeedSizes, SpeedWritten DEF SpeedInv, SpeedWriting
  <2>4. PICK to \in 0 .. Len(new) :
           /\ d_file' = <<[path |-> Speed!TestFile, data |-> new, pos |-> to]>>
           /\ Len(new) <= Total /\ to <= pos + ChunkSize
    BY <2>4a
  <2>5. d_disk' = d_disk /\ d_room' = d_room
    BY <1>3 DEF Speed!Write
  <2>6. SpeedWriting(new, to)'
    <3>1. to <= ChunkSize * (v_chunk + 1)
      BY <2>2, <2>3, <2>4, SpeedSizes
    <3>2. to <= ChunkSize * v_chunk'
      BY <1>3, <3>1
    <3> QED BY <2>4, <3>2 DEF SpeedWriting, Speed!TestFile
  <2>7. SpeedContent' = SpeedContent /\ Total' = Total
    BY <2>5 DEF SpeedContent, Speed!Content, Total
  <2>8. v_chunk' \in 0 .. ChunkCount /\ v_pc' = "write"
    BY <1>1, <1>3, SpeedSizes
  <2>9. Speed!PassedIsRight'
    BY <2>8 DEF Speed!PassedIsRight
  <2>10. \E dt \in Seq(Int) : \E p \in 0 .. Len(dt) : Len(dt) <= Total /\ SpeedWriting(dt, p)'
    BY <2>4, <2>6
  <2>11. SpeedFromStart'
    BY <2>8 DEF SpeedFromStart
  <2> QED BY <1>1, <2>5, <2>7, <2>8, <2>9, <2>10, <2>11 DEF SpeedInv
<1> QED BY <1>2, <1>3 DEF Speed!WriteChunk, Speed!WriteDone, Speed!Goto

LEMMA SpeedInvOpenToRead == SpeedInv /\ SpeedPlace' /\ Speed!OpenToRead => SpeedInv'
<1> SUFFICES ASSUME SpeedInv, SpeedPlace', Speed!OpenToRead PROVE SpeedInv'
  OBVIOUS
<1>1. v_pc = "read open" /\ v_chunk' = v_chunk
  BY DEF Speed!OpenToRead
<1>2. CASE v_pc' = "ended" /\ UNCHANGED Speed!fsVars
  <2>1. SpeedContent' = SpeedContent /\ d_room' = d_room
    BY <1>2 DEF Speed!fsVars, SpeedContent, Speed!Content
  <2>2. SpeedFromStart'
    BY <1>2 DEF SpeedFromStart
  <2> QED BY <1>1, <1>2, <2>1, <2>2, SpeedElsewhere DEF SpeedInv
<1>3. CASE v_pc' = "read" /\ Speed!Open(Speed!TestFile, FALSE, FALSE)
  <2>1. /\ d_file' = <<[path |-> Speed!TestFile, data |-> SpeedContent, pos |-> 0]>>
        /\ d_disk' = [q \in DOMAIN d_disk \cup {Speed!TestFile} |-> Speed!Content(q)]
        /\ d_room' = d_room
    BY <1>3, Zenon DEF Speed!Open, SpeedContent
  <2>2. SpeedContent' = SpeedContent /\ Speed!TestFile \in DOMAIN d_disk'
    BY <2>1 DEF SpeedContent, Speed!Content
  <2>3. PICK data \in Seq(Int) : data = SpeedContent
    BY DEF SpeedInv
  <2>4. v_chunk' = 0 /\ ChunkSize * v_chunk' = 0
    <3>1. v_chunk' = 0 /\ ChunkSize \in Nat
      BY <1>1, SpeedSizes DEF SpeedInv, SpeedFromStart
    <3> QED BY <3>1
  <2>5. 0 \in 0 .. Len(data)
    OBVIOUS
  <2>6. 0 = IF ChunkSize * v_chunk' <= Len(data) THEN ChunkSize * v_chunk' ELSE Len(data)
    BY <2>4
  <2>7. SpeedReading(data, 0)'
    <3>1. \A i \in 1 .. 0 : data[i] = RightCell(i)
      OBVIOUS
    <3>2. data = Speed!Content(Speed!TestFile)'
      BY <2>2, <2>3 DEF SpeedContent
    <3> QED BY <2>1, <2>3, <2>6, <3>1, <3>2 DEF SpeedReading, Speed!TestFile, RightCell,
              Speed!Filled
  <2>8. Speed!PassedIsRight'
    BY <1>3 DEF Speed!PassedIsRight
  <2>9. Total' = Total /\ v_chunk' \in 0 .. ChunkCount
    BY <1>1 DEF Total, SpeedInv
  <2>10. SpeedFromStart'
    BY <1>3 DEF SpeedFromStart
  <2> QED BY <1>1, <1>3, <2>1, <2>2, <2>5, <2>7, <2>8, <2>9, <2>10 DEF SpeedInv
<1> QED BY <1>2, <1>3 DEF Speed!OpenToRead, Speed!Goto

\* How far a file of some length is read when c more cells are asked for.
LEMMA NextEnd ==
  ASSUME NEW c \in Nat \ {0}, NEW m \in Nat, NEW len \in Nat,
         NEW pos, pos = IF m <= len THEN m ELSE len,
         NEW end, end = IF pos + c < len THEN pos + c ELSE len
  PROVE  /\ end \in pos .. len /\ end - pos \in 0 .. c
         /\ end = IF m + c <= len THEN m + c ELSE len
         /\ pos < end => pos = m
  OBVIOUS

\* The cells that pass the comparison with a chunk are the first of it.
LEMMA PassedCells ==
  ASSUME NEW k \in Nat, NEW cells \in Seq(Int), Speed!IsPrefix(cells, Speed!Filled(k)),
         NEW n \in 0 .. ChunkSize, Len(cells) = n, NEW j \in 1 .. n
  PROVE  cells[j] = Speed!Filled(k)[j]
<1> DEFINE f == Speed!Filled(k)
<1>1. f \in Seq(Int) /\ Len(f) = ChunkSize /\ ChunkSize \in Nat
  BY FilledCells, DemosAssumption DEF DemosAssumption
<1>2. SubSeq(cells, 1, n) = SubSeq(f, 1, n)
  BY DEF Speed!IsPrefix
<1> HIDE DEF f
<1>3. SubSeq(cells, 1, n)[j] = cells[j] /\ SubSeq(f, 1, n)[j] = f[j]
  BY <1>1
<1> QED BY <1>2, <1>3 DEF f

\* A chunk that passes continues what is right by a chunk, or to the end of the file.
LEMMA ChunkRight ==
  ASSUME NEW k \in Nat, NEW data \in Seq(Int), NEW pos \in 0 .. Len(data),
         NEW end \in pos .. Len(data), end - pos \in 0 .. ChunkSize,
         pos < end => pos = ChunkSize * k,
         \A i \in 1 .. pos : data[i] = RightCell(i),
         Speed!IsPrefix(SubSeq(data, pos + 1, end), Speed!Filled(k))
  PROVE  \A i \in 1 .. end : data[i] = RightCell(i)
<1> DEFINE cells == SubSeq(data, pos + 1, end)
<1>1. /\ cells \in Seq(Int) /\ Len(cells) = end - pos
      /\ \A j \in 1 .. end - pos : cells[j] = data[pos + j]
  BY NextPart
<1> HIDE DEF cells
<1>2. ASSUME NEW i \in pos + 1 .. end PROVE data[i] = RightCell(i)
  <2>1. pos \in Nat /\ end \in Nat /\ ChunkSize \in Nat /\ pos < end
    BY DemosAssumption DEF DemosAssumption
  <2> DEFINE j == i - pos
  <2>2. j \in 1 .. end - pos /\ pos + j = i
    BY <2>1
  <2> HIDE DEF j
  <2>3. j \in 1 .. ChunkSize
    BY <2>1, <2>2
  <2>4. cells[j] = Speed!Filled(k)[j]
    BY <1>1, <2>2, PassedCells DEF cells
  <2>5. i = ChunkSize * k + j
    <3>1. pos = ChunkSize * k
      BY <2>1
    <3> QED BY <2>2, <3>1, Zenon
  <2>6. RightCell(i) = Speed!Filled(k)[j]
    BY <2>3, <2>5, CellOfChunk
  <2>7. data[i] = cells[j]
    BY <1>1, <2>2, Zenon
  <2> QED BY <2>4, <2>6, <2>7
<1>3. ASSUME NEW i \in 1 .. end PROVE data[i] = RightCell(i)
  <2>1. i \in 1 .. pos \/ i \in pos + 1 .. end
    OBVIOUS
  <2> QED BY <1>2, <2>1
<1> QED BY <1>3

\* Apart from the rest, for the provers' sake.
SpeedFlag == v_ok \in BOOLEAN

LEMMA SpeedFlagStep == SpeedFlag /\ Speed!Next => SpeedFlag'
  BY DEF SpeedFlag, Speed!Next, Speed!SetUp, Speed!Malloc, Speed!OpenToWrite, Speed!WriteChunk,
    Speed!WriteDone, Speed!OpenToRead, Speed!ReadChunk, Speed!ReadDone, Speed!Cleanup,
    Speed!Restart

\* verify_ok stays set when it was and the chunk is as it was written.
LEMMA StillOk ==
  ASSUME SpeedFlag, NEW P, v_ok' = (v_ok /\ P), v_ok' = TRUE
  PROVE  v_ok = TRUE /\ P
  BY Zenon DEF SpeedFlag

LEMMA SpeedInvRead == SpeedFlag /\ SpeedInv /\ SpeedPlace' /\ Speed!ReadChunk => SpeedInv'
<1> SUFFICES ASSUME SpeedFlag, SpeedInv, SpeedPlace', Speed!ReadChunk PROVE SpeedInv'
  OBVIOUS
<1>1. v_pc = "read" /\ v_pc' = "read" /\ v_chunk < ChunkCount
  BY Zenon DEF Speed!ReadChunk
<1>2. d_disk' = d_disk /\ d_room' = d_room
  BY Zenon DEF Speed!ReadChunk, Speed!Read, Speed!fsVars
<1>3. SpeedContent' = SpeedContent /\ Total' = Total /\ SpeedFromStart'
      /\ Speed!TestFile \in DOMAIN d_disk'
  BY <1>1, <1>2 DEF SpeedContent, Speed!Content, Total, SpeedFromStart, SpeedInv
<1>4. Speed!PassedIsRight'
  BY <1>1 DEF Speed!PassedIsRight
<1>5a. PICK data \in Seq(Int) : \E pos \in 0 .. Len(data) : SpeedReading(data, pos)
  BY <1>1 DEF SpeedInv
<1>5. PICK pos \in 0 .. Len(data) : SpeedReading(data, pos)
  BY <1>5a
<1>6. ASSUME v_chunk' \in 0 .. ChunkCount, NEW to \in 0 .. Len(data), SpeedReading(data, to)'
      PROVE  SpeedInv'
  <2>1. d_room' \in Nat /\ SpeedContent' \in Seq(Int) /\ Len(SpeedContent') <= Total'
    BY <1>2, <1>3 DEF SpeedInv
  <2>2. \E dt \in Seq(Int) : \E p \in 0 .. Len(dt) : SpeedReading(dt, p)'
    BY <1>6
  <2>3. v_pc' # "write"
    BY <1>1
  <2> QED BY <1>3, <1>4, <1>6, <2>1, <2>2, <2>3 DEF SpeedInv
<1>7. CASE v_chunk' = ChunkCount /\ v_ok' = FALSE /\ UNCHANGED Speed!fsVars
  <2>1. d_file' = d_file
    BY <1>7, Zenon DEF Speed!fsVars
  <2>2. v_ok' # TRUE /\ v_chunk' = ChunkCount
    BY <1>7, Zenon
  <2>3. data = Speed!Content(Speed!TestFile)'
    BY <1>3, <1>5 DEF SpeedReading, SpeedContent
  <2>4. SpeedReading(data, pos)'
    BY <1>5, <2>1, <2>2, <2>3, Zenon DEF SpeedReading, Speed!TestFile
  <2>5. v_chunk' \in 0 .. ChunkCount
    BY <2>2, SpeedSizes
  <2> QED BY <1>6, <2>4, <2>5
<1>8. CASE /\ Speed!Read(ChunkSize) /\ v_chunk' = v_chunk + 1
           /\ v_ok' = (v_ok /\ Speed!IsPrefix(Speed!NextCells(ChunkSize),
                                              Speed!Filled(v_chunk)))
  <2> DEFINE end == IF pos + ChunkSize < Len(data) THEN pos + ChunkSize ELSE Len(data)
             cells == SubSeq(data, pos + 1, end)
  <2>1. d_file = <<[path |-> Speed!TestFile, data |-> data, pos |-> pos]>>
    BY <1>5 DEF SpeedReading
  <2>2. Speed!NextCells(ChunkSize) = cells
    BY <2>1 DEF Speed!NextCells
  <2>3. end \in pos .. Len(data)
    <3>1. Len(data) \in Nat /\ pos \in Nat /\ pos <= Len(data) /\ ChunkSize \in Nat
      BY SpeedSizes
    <3> QED BY <3>1
  <2> HIDE DEF end
  <2>4. Len(cells) = end - pos
    BY <2>3, NextPart
  <2>5. d_file' = <<[path |-> Speed!TestFile, data |-> data, pos |-> end]>>
    <3>1. pos + (end - pos) = end
      BY <2>3
    <3>2. d_file' = <<[d_file[1] EXCEPT !.pos = @ + (end - pos)]>>
      BY <1>8, <2>2, <2>4 DEF Speed!Read
    <3>3. d_file[1] = [path |-> Speed!TestFile, data |-> data, pos |-> pos]
      BY <2>1
    <3>4. d_file' = <<[path |-> Speed!TestFile, data |-> data, pos |-> pos + (end - pos)]>>
      BY <3>2, <3>3
    <3> QED BY <3>1, <3>4
  <2>6. v_chunk' = v_chunk + 1
    BY <1>8, Zenon
  <2>7. v_chunk' \in 0 .. ChunkCount
    BY <1>1, <2>6, SpeedSizes
  <2>8. ASSUME v_ok' = TRUE
        PROVE  /\ end = IF ChunkSize * (v_chunk + 1) <= Len(data)
                          THEN ChunkSize * (v_chunk + 1) ELSE Len(data)
               /\ \A i \in 1 .. end : data[i] = RightCell(i)
    <3>1. v_ok = TRUE /\ Speed!IsPrefix(Speed!NextCells(ChunkSize), Speed!Filled(v_chunk))
      BY <1>8, <2>8, StillOk
    <3>2. /\ pos = IF ChunkSize * v_chunk <= Len(data) THEN ChunkSize * v_chunk ELSE Len(data)
          /\ \A i \in 1 .. pos : data[i] = RightCell(i)
      BY <1>5, <3>1, Zenon DEF SpeedReading
    <3>3. /\ ChunkSize \in Nat \ {0} /\ v_chunk \in Nat /\ ChunkSize * v_chunk \in Nat
          /\ ChunkSize * (v_chunk + 1) = ChunkSize * v_chunk + ChunkSize
      BY SpeedSizes, NextMultiple
    <3>4. Len(data) \in Nat
      OBVIOUS
    <3>5. /\ end - pos \in 0 .. ChunkSize
          /\ end = IF ChunkSize * v_chunk + ChunkSize <= Len(data)
                     THEN ChunkSize * v_chunk + ChunkSize ELSE Len(data)
          /\ pos < end => pos = ChunkSize * v_chunk
      BY <3>2, <3>3, <3>4, NextEnd DEF end
    <3>6. Speed!IsPrefix(cells, Speed!Filled(v_chunk))
      BY <2>2, <3>1
    <3>7. \A i \in 1 .. end : data[i] = RightCell(i)
      BY SMTT(30), <2>3, <3>2, <3>3, <3>5, <3>6, ChunkRight
    <3> QED BY <3>3, <3>5, <3>7, Zenon
  <2>9. SpeedReading(data, end)'
    <3>1. data = Speed!Content(Speed!TestFile)'
      BY <1>3, <1>5 DEF SpeedReading, SpeedContent
    <3>2. \A i : RightCell(i)' = RightCell(i)
      BY DEF RightCell, Speed!Filled
    <3>3. v_ok' = TRUE =>
            /\ end = IF ChunkSize * v_chunk' <= Len(data) THEN ChunkSize * v_chunk' ELSE Len(data)
            /\ \A i \in 1 .. end : data[i] = RightCell(i)
      BY <2>6, <2>8, Zenon
    <3> QED BY <2>5, <3>1, <3>2, <3>3, Zenon DEF SpeedReading, Speed!TestFile
  <2> QED BY <1>6, <2>3, <2>7, <2>9
<1> QED BY <1>7, <1>8 DEF Speed!ReadChunk

LEMMA SpeedInvReadDone == SpeedFlag /\ SpeedInv /\ SpeedPlace' /\ Speed!ReadDone => SpeedInv'
<1> SUFFICES ASSUME SpeedFlag, SpeedInv, SpeedPlace', Speed!ReadDone PROVE SpeedInv'
  OBVIOUS
<1>1. /\ v_pc = "read" /\ v_chunk = ChunkCount /\ v_chunk' = v_chunk
      /\ Speed!Close \/ Speed!CloseFails
      /\ v_pc' \in {"unlink", "ended"} /\ (v_pc' = "unlink" => v_ok = TRUE)
  BY Zenon DEF Speed!ReadDone, Speed!Goto, SpeedFlag
<1>2. /\ SpeedContent' = SpeedContent /\ d_room' = d_room
      /\ SpeedContent' \in Seq(Int) /\ Len(SpeedContent') <= Total
  BY <1>1, SpeedClosed
<1>3. SpeedFromStart' /\ v_chunk' \in 0 .. ChunkCount
  BY <1>1 DEF SpeedFromStart, SpeedInv
<1>4. CASE v_pc' = "ended"
  BY <1>2, <1>3, <1>4, SpeedElsewhere
<1>5. CASE v_pc' = "unlink"
  <2>1a. PICK data \in Seq(Int) : \E pos \in 0 .. Len(data) : SpeedReading(data, pos)
    BY <1>1 DEF SpeedInv
  <2>1. PICK pos \in 0 .. Len(data) : SpeedReading(data, pos)
    BY <2>1a
  <2>2. /\ pos = IF Total <= Len(data) THEN Total ELSE Len(data)
        /\ \A i \in 1 .. pos : data[i] = RightCell(i)
        /\ data = SpeedContent
    BY <1>1, <1>5, <2>1, Zenon DEF SpeedReading, SpeedContent, Total
  <2>3. pos = Len(data)
    <3>1. Len(data) <= Total /\ Len(data) \in Nat /\ Total \in Nat
      BY <2>2, SpeedSizes DEF SpeedInv
    <3> QED BY <2>2, <3>1
  <2>4. \A i \in DOMAIN SpeedContent : SpeedContent[i] = RightCell(i)
    BY <2>2, <2>3
  <2>5. Speed!PassedIsRight'
    <3>1. \A i : RightCell(i)' = RightCell(i)
      BY DEF RightCell, Speed!Filled
    <3>2. \A i \in DOMAIN SpeedContent' : SpeedContent'[i] = RightCell(i)'
      BY <1>2, <2>4, <3>1
    <3> QED BY <3>2, Zenon DEF Speed!PassedIsRight, SpeedContent, RightCell
  <2>6. Total' = Total
    BY DEF Total
  <2> QED BY <1>2, <1>3, <1>5, <2>5, <2>6 DEF SpeedInv
<1> QED BY <1>1, <1>4, <1>5

LEMMA SpeedLimits ==
  ASSUME SpeedInv
  PROVE  /\ 0 \in 0 .. ChunkCount /\ v_chunk \in 0 .. ChunkCount
         /\ <<>> \in Seq(Int) /\ Len(<<>>) <= Total
<1>1. 0 \in 0 .. ChunkCount /\ v_chunk \in 0 .. ChunkCount
  BY SpeedSizes DEF SpeedInv
<1>2. <<>> \in Seq(Int) /\ Len(<<>>) = 0 /\ 0 <= Total
  BY SpeedSizes
<1> QED BY <1>1, <1>2

LEMMA SpeedInvRest ==
  ASSUME SpeedInv, SpeedPlace',
         \/ Speed!SetUp \/ Speed!Malloc("write malloc", "write open")
         \/ Speed!Malloc("read malloc", "read open") \/ Speed!Cleanup \/ Speed!Restart
  PROVE  SpeedInv'
<1>1. /\ v_pc' \notin {"write", "read", "unlink"}
      /\ v_chunk' = v_chunk \/ v_chunk' = 0
      /\ v_pc' = "read open" => v_chunk' = 0
  BY Zenon DEF Speed!SetUp, Speed!Malloc, Speed!Cleanup, Speed!Restart, Speed!Goto
<1>2. d_disk' = d_disk \/ d_disk' = [q \in DOMAIN d_disk \ {Speed!TestFile} |-> d_disk[q]]
  BY Zenon DEF Speed!SetUp, Speed!Malloc, Speed!Cleanup, Speed!Restart, Speed!Unlink,
    Speed!fsVars
<1>3. d_room' = d_room
  BY Zenon DEF Speed!SetUp, Speed!Malloc, Speed!Cleanup, Speed!Restart, Speed!Unlink,
    Speed!fsVars
<1>4. SpeedContent' = SpeedContent \/ SpeedContent' = <<>>
  BY <1>2 DEF SpeedContent, Speed!Content, Speed!TestFile
<1>5. SpeedContent' \in Seq(Int) /\ Len(SpeedContent') <= Total
  BY <1>4, SpeedLimits, Zenon DEF SpeedInv
<1>6. v_chunk' \in 0 .. ChunkCount
  BY <1>1, SpeedLimits, Zenon
<1>7. SpeedFromStart'
  BY <1>1, Zenon DEF SpeedFromStart
<1> QED BY <1>1, <1>3, <1>5, <1>6, <1>7, SpeedElsewhere

LEMMA SpeedInit == Init => SpeedFlag /\ SpeedInv
<1> SUFFICES ASSUME Init PROVE SpeedFlag /\ SpeedInv
  OBVIOUS
<1>1. /\ v_pc = "set up" /\ v_chunk = 0 /\ d_disk = <<>> /\ d_room \in 0 .. MaxRoom
      /\ v_heap = 0 /\ d_file = <<>>
  BY Zenon DEF Init, Speed!Init, Speed!FsInit
<1>2. SpeedFlag
  BY Zenon DEF Init, Speed!Init, SpeedFlag
<1>3. SpeedPlace
  BY <1>1 DEF SpeedPlace, Speed!Labels
<1>4. d_room \in Nat /\ v_chunk \in 0 .. ChunkCount
  <2>1. d_room \in 0 .. MaxRoom /\ v_chunk = 0
    BY <1>1, Zenon
  <2> QED BY <2>1, DemosAssumption DEF DemosAssumption
<1>5. SpeedContent = <<>> /\ SpeedContent \in Seq(Int)
  <2>1. SpeedContent = <<>>
    <3>1. DOMAIN d_disk = {}
      <4>1. d_disk = <<>>
        BY <1>1, Zenon
      <4> QED BY <4>1
    <3> QED BY <3>1, Zenon DEF SpeedContent, Speed!Content
  <2> QED BY <2>1
<1>6. Len(SpeedContent) <= Total
  <2>1. ChunkSize \in Nat /\ ChunkCount \in Nat /\ Len(SpeedContent) = 0
    BY <1>5, DemosAssumption DEF DemosAssumption
  <2> QED BY <2>1 DEF Total
<1>7. SpeedFromStart /\ Speed!PassedIsRight
  BY <1>1 DEF SpeedFromStart, Speed!PassedIsRight
<1> QED BY <1>1, <1>2, <1>3, <1>4, <1>5, <1>6, <1>7 DEF SpeedInv

LEMMA SpeedStep == SpeedFlag /\ SpeedInv /\ Speed!Next => (SpeedFlag /\ SpeedInv)'
<1>1. SpeedInv /\ Speed!Next => SpeedPlace'
  BY SpeedPlaceStep DEF SpeedInv
<1> QED BY <1>1, SpeedFlagStep, SpeedInvOpenToWrite, SpeedInvWrite, SpeedInvOpenToRead,
  SpeedInvRead, SpeedInvReadDone, SpeedInvRest DEF Speed!Next

-----------------------------------------------------------------------------
(* app81: what the flash holds. *)

\* app81: a file is open only inside a call of a mounted run, and main does not
\* return with the file system still to be unmounted.
FlashPlace ==
  /\ f_step \in 1 .. 7 /\ f_phase \in {"open", "io", "close", "error"}
  /\ f_phase # "open" => f_mounted = "yes" /\ f_step <= 5
  /\ f_phase = "open" => d_file = <<>>
  /\ f_step = 7 => f_mounted # "yes"

LEMMA FlashPlaceStep == FlashPlace /\ LittleFs!Next => FlashPlace'
<1> SUFFICES ASSUME FlashPlace, LittleFs!Next PROVE FlashPlace'
  OBVIOUS
<1>0. Len(LittleFs!Program) = 5
  BY DEF LittleFs!Program
<1> USE <1>0 DEF FlashPlace, LittleFs!GotoOut, LittleFs!InRun, LittleFs!Out, LittleFs!Returned
<1>1. CASE LittleFs!Mount
  BY <1>1 DEF LittleFs!Mount, LittleFs!fsVars
<1>2. CASE LittleFs!OpenFile
  BY <1>2 DEF LittleFs!OpenFile, LittleFs!fsVars
<1>3. CASE LittleFs!Access
  BY <1>3 DEF LittleFs!Access, LittleFs!fsVars
<1>4. CASE LittleFs!CloseFile
  BY <1>4 DEF LittleFs!CloseFile, LittleFs!Close, LittleFs!CloseFails
<1>5. CASE LittleFs!Unmount
  BY <1>5 DEF LittleFs!Unmount, LittleFs!fsVars
<1>6. CASE LittleFs!Reset
  BY <1>6 DEF LittleFs!Reset, LittleFs!PowerLoss
<1> QED BY <1>1, <1>2, <1>3, <1>4, <1>5, <1>6 DEF LittleFs!Next

\* The two lines of the file, as they become one file.
FlashCells == {"hello", "works", "bin"}

OneLine  == <<"hello">>
TwoLines == <<"hello", "works">>

\* What a call finds in its file and what it leaves there.
Before(n) == CASE n \in {2, 3} -> OneLine [] n = 4 -> TwoLines [] OTHER -> <<>>
After(n)  == CASE n \in {1, 2} -> OneLine [] n \in {3, 4} -> TwoLines
               [] OTHER -> <<"bin">>

CallPath(n) == IF n = 5 THEN LittleFs!Bin ELSE LittleFs!Hello

\* The file that is open, before and after it is accessed.
FlashOpen ==
  /\ \E pos : d_file = <<[path |-> CallPath(f_step), pos |-> pos,
                          data |-> IF f_phase = "close" THEN After(f_step)
                                   ELSE Before(f_step)]>>
  /\ f_phase = "io" => d_file[1].pos = IF f_step = 3 THEN 1 ELSE 0

FlashInv ==
  /\ FlashPlace /\ d_room \in Nat
  /\ f_failed => f_step > 5
  /\ f_step \in {2, 3} => LittleFs!Content(LittleFs!Hello) = OneLine
  /\ f_step \in {4, 5} => LittleFs!Content(LittleFs!Hello) = TwoLines
  /\ f_phase # "open" => FlashOpen /\ CallPath(f_step) \in DOMAIN d_disk
  /\ LittleFs!RunLeavesBoth

\* What the call of each step is.
LEMMA FlashCalls ==
  ASSUME FlashPlace, f_step <= 5
  PROVE  /\ LittleFs!Call.path = CallPath(f_step)
         /\ LittleFs!Call.call = IF f_step \in {1, 5} THEN "write"
                                 ELSE IF f_step = 3 THEN "append" ELSE "read"
         /\ f_step = 1 => LittleFs!Call.data = <<"hello">>
         /\ f_step = 3 => LittleFs!Call.data = <<"works">>
         /\ f_step = 5 => LittleFs!Call.data = <<"bin">>
<1>1. \/ f_step = 1 \/ f_step = 2 \/ f_step = 3 \/ f_step = 4 \/ f_step = 5
  BY DEF FlashPlace
<1>2. CASE f_step = 1
  BY <1>2 DEF LittleFs!Call, LittleFs!Program, CallPath
<1>3. CASE f_step = 2
  BY <1>3 DEF LittleFs!Call, LittleFs!Program, CallPath
<1>4. CASE f_step = 3
  BY <1>4 DEF LittleFs!Call, LittleFs!Program, CallPath
<1>5. CASE f_step = 4
  BY <1>5 DEF LittleFs!Call, LittleFs!Program, CallPath
<1>6. CASE f_step = 5
  BY <1>6 DEF LittleFs!Call, LittleFs!Program, CallPath
<1> QED BY <1>1, <1>2, <1>3, <1>4, <1>5, <1>6

\* A step that gives up asks nothing of the medium.
LEMMA FlashGiveUp ==
  ASSUME FlashInv, FlashPlace', LittleFs!GotoOut, UNCHANGED d_room
  PROVE  FlashInv'
<1>1. Len(LittleFs!Program) = 5
  BY DEF LittleFs!Program
<1>2. f_step' = 6 /\ f_phase' = "open" /\ f_failed'
  BY <1>1 DEF LittleFs!GotoOut, LittleFs!Out
<1> QED BY <1>1, <1>2 DEF FlashInv, LittleFs!RunLeavesBoth

LEMMA FlashInvOpen == FlashInv /\ FlashPlace' /\ LittleFs!OpenFile => FlashInv'
<1> SUFFICES ASSUME FlashInv, FlashPlace', LittleFs!OpenFile PROVE FlashInv'
  OBVIOUS
<1>0. Len(LittleFs!Program) = 5
  BY DEF LittleFs!Program
<1>1. f_step <= 5 /\ f_step \in 1 .. 7 /\ f_phase = "open"
  BY <1>0 DEF LittleFs!OpenFile, LittleFs!InRun, FlashInv, FlashPlace
<1>2. CASE LittleFs!GotoOut /\ UNCHANGED LittleFs!fsVars
  BY <1>2, FlashGiveUp DEF LittleFs!fsVars
<1>3. CASE /\ LittleFs!Open(LittleFs!Call.path, LittleFs!Call.call = "write",
                            LittleFs!Call.call = "append")
           /\ f_phase' = "io" /\ UNCHANGED <<f_step, f_failed>>
  <2> DEFINE old == IF LittleFs!Call.call = "write" THEN <<>>
                    ELSE LittleFs!Content(CallPath(f_step))
             pos == IF LittleFs!Call.call = "append" THEN Len(old) ELSE 0
  <2>1. /\ d_file' = <<[path |-> CallPath(f_step), data |-> old, pos |-> pos]>>
        /\ d_disk' = [q \in DOMAIN d_disk \cup {CallPath(f_step)} |-> LittleFs!Content(q)]
        /\ d_room' = d_room
    <3>1. LittleFs!Call.path = CallPath(f_step)
      BY <1>1, FlashCalls DEF FlashInv
    <3> QED BY <1>3, <3>1, Zenon DEF LittleFs!Open
  <2>2. old = Before(f_step)
    BY <1>1, FlashCalls DEF FlashInv, Before, CallPath
  <2>3. pos = IF f_step = 3 THEN 1 ELSE 0
    <3>1. f_step = 3 <=> LittleFs!Call.call = "append"
      BY <1>1, FlashCalls DEF FlashInv
    <3>2. f_step = 3 => Len(old) = 1
      <4>1. Len(OneLine) = 1
        BY DEF OneLine
      <4>2. f_step = 3 => old = OneLine
        BY <2>2 DEF Before
      <4> QED BY <4>1, <4>2, Zenon
    <3> QED BY <3>1, <3>2, Zenon
  <2> HIDE DEF old, pos
  <2>4. /\ \A p : LittleFs!Content(p)' = LittleFs!Content(p)
        /\ CallPath(f_step)' \in DOMAIN d_disk'
    BY <1>3, <2>1 DEF LittleFs!Content, CallPath
  <2>5. FlashOpen'
    <3>1. d_file' = <<[path |-> CallPath(f_step), data |-> Before(f_step), pos |-> pos]>>
      BY <2>1, <2>2
    <3>2. f_phase' = "io" /\ f_step' = f_step
      BY <1>3, Zenon
    <3>3. /\ d_file' = <<[path |-> CallPath(f_step)', data |-> Before(f_step)', pos |-> pos]>>
          /\ d_file'[1].pos = IF f_step' = 3 THEN 1 ELSE 0
      BY <2>3, <3>1, <3>2 DEF CallPath, Before
    <3> QED BY <3>2, <3>3 DEF FlashOpen
  <2>6. LittleFs!RunLeavesBoth'
    BY <1>0, <1>1, <1>3 DEF LittleFs!RunLeavesBoth
  <2>7. f_step' = f_step /\ f_failed' = f_failed /\ f_phase' = "io" /\ LittleFs!Hello' = LittleFs!Hello
    BY <1>3, Zenon DEF LittleFs!Hello
  <2>8. LittleFs!Content(LittleFs!Hello)' = LittleFs!Content(LittleFs!Hello)
    BY <2>1 DEF LittleFs!Content
  <2>9. f_failed' => f_step' > 5
    BY <2>7 DEF FlashInv
  <2>10. d_room' \in Nat
    BY <2>1 DEF FlashInv
  <2> QED BY <2>4, <2>5, <2>6, <2>7, <2>8, <2>9, <2>10 DEF FlashInv
<1> QED BY <1>2, <1>3 DEF LittleFs!OpenFile

\* Two cells, one behind the other.
LEMMA TwoCells == ASSUME NEW x, NEW y PROVE <<x>> \o <<y>> = <<x, y>>
<1> DEFINE s == <<x>> \o <<y>>
           t == <<x, y>>
<1>1. <<x>> \in Seq({x, y}) /\ <<y>> \in Seq({x, y}) /\ Len(<<x>>) = 1 /\ Len(<<y>>) = 1
  OBVIOUS
<1>2. /\ s \in Seq({x, y}) /\ Len(s) = 2
      /\ \A i \in 1 .. 1 : s[i] = <<x>>[i]
      /\ \A i \in 2 .. 2 : s[i] = <<y>>[i - 1]
  <2>1. Len(s) = 2
    BY <1>1
  <2> QED BY <1>1, <2>1, ConcatProperties
<1>3. s[1] = x /\ s[2] = y
  BY <1>2
<1>4. t \in Seq({x, y}) /\ Len(t) = 2 /\ t[1] = x /\ t[2] = y
  OBVIOUS
<1> HIDE DEF s, t
<1>5. \A i \in 1 .. Len(s) : s[i] = t[i]
  BY <1>2, <1>3, <1>4
<1>6. s = t
  BY <1>2, <1>4, <1>5, SeqEqual
<1> QED BY <1>6 DEF s, t

\* A cell written at the end of a file that has room for it.
LEMMA FlashWritten ==
  ASSUME NEW s \in Seq(FlashCells), NEW x \in FlashCells, NEW path, d_room \in Nat,
         d_file = <<[path |-> path, pos |-> Len(s), data |-> s]>>,
         Len(s) + 1 <= d_room, LittleFs!Write(<<x>>)
  PROVE  \E pos : d_file' = <<[path |-> path, pos |-> pos, data |-> s \o <<x>>]>>
<1> DEFINE d == <<x>>
           f == d_file[1]
           end == IF d_room > Len(f.data) THEN d_room ELSE Len(f.data)
           n == IF f.pos + Len(d) <= end THEN Len(d) ELSE end - f.pos
           w == [i \in 1 .. n |-> IF i = 0 THEN "bad" ELSE d[i]]
<1>1. f.path = path /\ f.data = s /\ f.pos = Len(s) /\ Len(d) = 1 /\ Len(s) \in Nat
  OBVIOUS
<1>2. d_file' = <<[path |-> f.path, pos |-> f.pos + n,
                   data |-> LittleFs!Overwritten(f.data, f.pos, w)]>>
  BY DEF LittleFs!Write
<1> HIDE DEF f
<1>3. n = 1
  BY <1>1
<1> HIDE DEF n
<1>4. w = <<x>>
  BY <1>3
<1> HIDE DEF w, d
<1>5. LittleFs!Overwritten(s, Len(s), <<x>>) = s \o <<x>>
  <2>1. SubSeq(s, 1, Len(s)) = s
    OBVIOUS
  <2>2. SubSeq(s, Len(s) + Len(<<x>>) + 1, Len(s)) = <<>>
    <3>1. Len(s) + Len(<<x>>) + 1 = Len(s) + 2
      BY <1>1
    <3> QED BY <1>1, <3>1
  <2>3. (s \o <<x>>) \o <<>> = s \o <<x>>
    OBVIOUS
  <2> QED BY <2>1, <2>2, <2>3 DEF LittleFs!Overwritten
<1> QED BY <1>1, <1>2, <1>4, <1>5

LEMMA FlashInvAccess == FlashInv /\ FlashPlace' /\ LittleFs!Access => FlashInv'
<1> SUFFICES ASSUME FlashInv, FlashPlace', LittleFs!Access PROVE FlashInv'
  OBVIOUS
<1>0. Len(LittleFs!Program) = 5
  BY DEF LittleFs!Program
<1>1. f_step <= 5 /\ f_step \in 1 .. 7 /\ f_phase = "io" /\ f_step' = f_step
  BY <1>0 DEF LittleFs!Access, LittleFs!InRun, FlashInv, FlashPlace
<1>2. d_disk' = d_disk /\ d_room' = d_room /\ f_failed' = f_failed
  BY Zenon DEF LittleFs!Access, LittleFs!Read, LittleFs!Write, LittleFs!fsVars
<1>3. PICK pos : d_file = <<[path |-> CallPath(f_step), pos |-> pos, data |-> Before(f_step)]>>
  BY <1>1 DEF FlashInv, FlashOpen
<1>4. pos = IF f_step = 3 THEN 1 ELSE 0
  BY <1>1, <1>3 DEF FlashInv, FlashOpen
<1>5. ASSUME FlashOpen', f_phase' # "io" PROVE FlashInv'
  <2>1. LittleFs!RunLeavesBoth'
    BY <1>0, <1>1 DEF LittleFs!RunLeavesBoth
  <2>2. /\ LittleFs!Content(LittleFs!Hello)' = LittleFs!Content(LittleFs!Hello)
        /\ (f_failed' => f_step' > 5) /\ CallPath(f_step)' \in DOMAIN d_disk'
    BY <1>1, <1>2 DEF LittleFs!Content, CallPath, FlashInv
  <2> QED BY <1>1, <1>2, <1>5, <2>1, <2>2 DEF FlashInv
<1>6. CASE f_phase' = "error" /\ UNCHANGED LittleFs!fsVars
  <2>1. FlashOpen'
    <3>1. /\ d_file' = <<[path |-> CallPath(f_step)', pos |-> pos, data |-> Before(f_step)']>>
          /\ f_phase' = "error"
      BY <1>1, <1>3, <1>6 DEF LittleFs!fsVars, CallPath, Before
    <3> QED BY <3>1 DEF FlashOpen
  <2> QED BY <1>5, <1>6, <2>1
<1>7. CASE LittleFs!Call.call = "read" /\ LittleFs!Read(MaxRoom) /\ f_phase' = "close"
  <2>1. f_step \in {2, 4}
    BY <1>1, <1>7, FlashCalls DEF FlashInv
  <2>2. \E to : d_file' = <<[path |-> CallPath(f_step), pos |-> to, data |-> Before(f_step)]>>
    <3>1. PICK n : d_file' = <<[d_file[1] EXCEPT !.pos = @ + n]>>
      BY <1>7 DEF LittleFs!Read
    <3>2. d_file[1] = [path |-> CallPath(f_step), pos |-> pos, data |-> Before(f_step)]
      BY <1>3
    <3>3. d_file' = <<[path |-> CallPath(f_step), pos |-> pos + n, data |-> Before(f_step)]>>
      BY <3>1, <3>2
    <3> QED BY <3>3
  <2>3. Before(f_step) = After(f_step)
    BY <2>1 DEF Before, After
  <2>4. FlashOpen'
    BY <1>1, <1>7, <2>2, <2>3 DEF FlashOpen, CallPath, After
  <2> QED BY <1>5, <1>7, <2>4
<1>8. CASE /\ LittleFs!Call.call # "read" /\ f_phase' = "close"
           /\ d_file[1].pos + Len(LittleFs!Call.data) <= d_room
           /\ LittleFs!Write(LittleFs!Call.data)
  <2>1. f_step \in {1, 3, 5}
    BY <1>1, <1>8, FlashCalls DEF FlashInv
  <2>2. PICK x \in FlashCells : LittleFs!Call.data = <<x>> /\ After(f_step) = Before(f_step) \o <<x>>
    <3>1. /\ <<>> \o <<"hello">> = <<"hello">> /\ <<>> \o <<"bin">> = <<"bin">>
          /\ <<"hello">> \o <<"works">> = <<"hello", "works">>
      BY TwoCells
    <3>2. CASE f_step = 1
      BY <1>1, <3>1, <3>2, FlashCalls DEF FlashInv, After, Before, OneLine, FlashCells
    <3>3. CASE f_step = 3
      BY <1>1, <3>1, <3>3, FlashCalls
        DEF FlashInv, After, Before, OneLine, TwoLines, FlashCells
    <3>4. CASE f_step = 5
      BY <1>1, <3>1, <3>4, FlashCalls DEF FlashInv, After, Before, FlashCells
    <3> QED BY <2>1, <3>2, <3>3, <3>4
  <2>3. Before(f_step) \in Seq(FlashCells) /\ pos = Len(Before(f_step))
    <3>1. /\ <<>> \in Seq(FlashCells) /\ <<"hello">> \in Seq(FlashCells)
          /\ Len(<<"hello">>) = 1 /\ Len(<<>>) = 0
      BY DEF FlashCells
    <3>2. CASE f_step = 3
      BY <1>4, <3>1, <3>2 DEF Before, OneLine
    <3>3. CASE f_step \in {1, 5}
      BY <1>4, <3>1, <3>3 DEF Before
    <3> QED BY <2>1, <3>2, <3>3
  <2>4. Len(Before(f_step)) + 1 <= d_room
    <3>1. d_file[1].pos = Len(Before(f_step)) /\ Len(LittleFs!Call.data) = 1
      BY <1>3, <2>2, <2>3
    <3> QED BY <1>8, <3>1
  <2>5. \E to : d_file' = <<[path |-> CallPath(f_step), pos |-> to,
                             data |-> Before(f_step) \o <<x>>]>>
    BY <1>3, <1>8, <2>2, <2>3, <2>4, FlashWritten DEF FlashInv
  <2>6. FlashOpen'
    BY <1>1, <1>8, <2>2, <2>5 DEF FlashOpen, CallPath, After
  <2> QED BY <1>5, <1>8, <2>6
<1> QED BY <1>6, <1>7, <1>8 DEF LittleFs!Access

LEMMA FlashInvClose == FlashInv /\ FlashPlace' /\ LittleFs!CloseFile => FlashInv'
<1> SUFFICES ASSUME FlashInv, FlashPlace', LittleFs!CloseFile PROVE FlashInv'
  OBVIOUS
<1>0. Len(LittleFs!Program) = 5
  BY DEF LittleFs!Program
<1>1. f_step <= 5 /\ f_step \in 1 .. 7 /\ f_phase \in {"close", "error"} /\ d_room' = d_room
  BY <1>0 DEF LittleFs!CloseFile, LittleFs!InRun, FlashInv, FlashPlace, LittleFs!Close,
    LittleFs!CloseFails
<1>2. CASE LittleFs!GotoOut
  BY <1>1, <1>2, FlashGiveUp
<1>3. CASE /\ LittleFs!Close /\ f_phase = "close"
           /\ f_step' = f_step + 1 /\ f_phase' = "open" /\ UNCHANGED f_failed
  <2>1. CallPath(f_step) \in DOMAIN d_disk /\ d_file[1].path = CallPath(f_step)
        /\ d_file[1].data = After(f_step)
    BY <1>3 DEF FlashInv, FlashOpen
  <2>2. d_disk' = [d_disk EXCEPT ![CallPath(f_step)] = After(f_step)]
    BY <1>3, <2>1 DEF LittleFs!Close, LittleFs!Stored
  <2>3. /\ f_step = 5 => /\ LittleFs!Content(LittleFs!Bin)' = <<"bin">>
                         /\ LittleFs!Content(LittleFs!Hello)' = LittleFs!Content(LittleFs!Hello)
        /\ f_step # 5 => LittleFs!Content(LittleFs!Hello)' = After(f_step)
    BY <2>1, <2>2 DEF LittleFs!Content, CallPath, After, LittleFs!Bin, LittleFs!Hello
  <2>4. ~f_failed'
    <3>1. ~f_failed
      BY <1>1 DEF FlashInv
    <3> QED BY <1>3, <3>1, Zenon
  <2>5. \/ f_step' = 2 /\ f_step = 1
        \/ f_step' = 3 /\ f_step = 2
        \/ f_step' = 4 /\ f_step = 3
        \/ f_step' = 5 /\ f_step = 4
        \/ f_step' = 6 /\ f_step = 5
    <3>1. f_step' = f_step + 1
      BY <1>3, Zenon
    <3> QED BY <1>1, <3>1
  <2>6. /\ f_step' \in {2, 3} => LittleFs!Content(LittleFs!Hello)' = OneLine
        /\ f_step' \in {4, 5} => LittleFs!Content(LittleFs!Hello)' = TwoLines
        /\ f_step' = 6 => /\ LittleFs!Content(LittleFs!Hello)' = TwoLines
                          /\ LittleFs!Content(LittleFs!Bin)' = <<"bin">>
    BY <2>3, <2>5 DEF After, FlashInv
  <2>7. LittleFs!RunLeavesBoth'
    BY <1>0, <2>5, <2>6 DEF LittleFs!RunLeavesBoth, TwoLines
  <2> QED BY <1>1, <1>3, <2>4, <2>6, <2>7 DEF FlashInv
<1> QED BY <1>1, <1>2, <1>3 DEF LittleFs!CloseFile

LEMMA FlashInvRest ==
  FlashInv /\ FlashPlace' /\ (LittleFs!Mount \/ LittleFs!Unmount \/ LittleFs!Reset) => FlashInv'
<1> SUFFICES ASSUME FlashInv, FlashPlace' , LittleFs!Mount \/ LittleFs!Unmount \/ LittleFs!Reset
    PROVE FlashInv'
  OBVIOUS
<1>0. Len(LittleFs!Program) = 5
  BY DEF LittleFs!Program
<1>1. CASE LittleFs!Mount
  <2>1. f_step = 1 /\ f_phase' = f_phase /\ UNCHANGED <<d_disk, d_file, d_room>>
    BY <1>1 DEF LittleFs!Mount, LittleFs!fsVars
  <2>2. \/ f_step' = 1 /\ f_failed' = f_failed
        \/ f_step' = 7 /\ f_failed'
    <3>1. LittleFs!Returned = 7
      BY <1>0 DEF LittleFs!Returned
    <3> QED BY <1>1, <2>1, <3>1, Zenon DEF LittleFs!Mount
  <2>3. f_step' = 7 => f_phase' = "open" /\ f_failed'
    BY <2>1, <2>2 DEF FlashInv, FlashPlace
  <2>4. f_step' = 1 => FlashOpen' = FlashOpen /\ CallPath(f_step)' = CallPath(f_step)
    BY <2>1 DEF FlashOpen, CallPath, Before, After
  <2>5. f_step' # 7 => f_step' = 1 /\ ~f_failed'
    BY <2>1, <2>2 DEF FlashInv
  <2>6. LittleFs!RunLeavesBoth'
    BY <1>0, <2>3, <2>5 DEF LittleFs!RunLeavesBoth
  <2>7. f_phase' # "open" => FlashOpen' /\ CallPath(f_step)' \in DOMAIN d_disk'
    BY <2>1, <2>3, <2>4, <2>5 DEF FlashInv
  <2> QED BY <2>1, <2>3, <2>5, <2>6, <2>7 DEF FlashInv
<1>2. CASE LittleFs!Unmount
  <2>1. /\ f_step = 6 /\ f_step' = 7 /\ f_phase' = f_phase /\ f_failed' = f_failed
        /\ UNCHANGED <<d_disk, d_file, d_room>>
    BY <1>0, <1>2 DEF LittleFs!Unmount, LittleFs!fsVars, LittleFs!Out, LittleFs!Returned
  <2>2. LittleFs!RunLeavesBoth'
    BY <1>0, <2>1 DEF LittleFs!RunLeavesBoth, LittleFs!Content, FlashInv
  <2> QED BY <2>1, <2>2 DEF FlashInv, FlashPlace
<1>3. CASE LittleFs!Reset
  BY <1>0, <1>3 DEF LittleFs!Reset, LittleFs!PowerLoss, FlashInv, LittleFs!RunLeavesBoth
<1> QED BY <1>1, <1>2, <1>3

LEMMA FlashInit == Init => FlashInv
<1> SUFFICES ASSUME Init PROVE FlashInv
  OBVIOUS
<1>0. Len(LittleFs!Program) = 5
  BY DEF LittleFs!Program
<1>1. f_step = 1 /\ f_phase = "open" /\ d_file = <<>> /\ d_room \in 0 .. MaxRoom /\ ~f_failed
  BY Zenon DEF Init, LittleFs!Init, LittleFs!FsInit
<1>2. d_room \in Nat
  BY <1>1, DemosAssumption DEF DemosAssumption
<1> QED BY <1>0, <1>1, <1>2 DEF FlashInv, FlashPlace, LittleFs!RunLeavesBoth

LEMMA FlashStep == FlashInv /\ LittleFs!Next => FlashInv'
<1>1. FlashInv /\ LittleFs!Next => FlashPlace'
  BY FlashPlaceStep DEF FlashInv
<1> QED BY <1>1, FlashInvOpen, FlashInvAccess, FlashInvClose, FlashInvRest DEF LittleFs!Next

-----------------------------------------------------------------------------
(* app10: the EEPROM test. *)

\* What has been sent is in a page that holds it all; in a smaller one the cell
\* behind the page is never written.
EepromInv ==
  /\ At24!TypeOK
  /\ r_page >= TestDataSize /\ r_step \in {"sleep", "read", "verify"} =>
       r_memory = At24!WriteData
  /\ r_page < TestDataSize => r_memory[r_page] = -1
  /\ r_step = "verify" => r_data = r_memory
  /\ r_step \in {"write", "sleep", "read", "verify"} => r_result = ""
  /\ At24!ResultTellsPage

\* Of the bytes that a page of p cells puts at address a there is one sent last.
LEMMA LastSent ==
  ASSUME NEW p \in Nat \ {0}, NEW a \in Nat, NEW size \in Nat,
         NEW first \in 0 .. size - 1, first % p = a
  PROVE  \E i \in {j \in 0 .. size - 1 : j % p = a} :
           \A j \in {n \in 0 .. size - 1 : n % p = a} : j <= i
<1> DEFINE k == (size - 1 - a) \div p
           i == p * k + a
<1>1. a \in 0 .. p - 1 /\ a <= first
  <2>1. first = p * (first \div p) + (first % p) /\ first % p \in 0 .. p - 1
    BY Division
  <2>2. first \div p \in Nat /\ p * (first \div p) \in Nat
    BY Division
  <2> QED BY <2>1, <2>2
<1>2. size - 1 - a \in Nat
  BY <1>1
<1>3. k \in Nat /\ p * k <= size - 1 - a /\ size - 1 - a < p * k + p
  <2>1. /\ size - 1 - a = p * k + ((size - 1 - a) % p) /\ k \in Nat
        /\ (size - 1 - a) % p \in 0 .. p - 1
    BY <1>2, Division
  <2>2. p * k \in Nat
    BY <2>1
  <2> HIDE DEF k
  <2> QED BY <2>1, <2>2
<1> HIDE DEF k
<1>4. i \in 0 .. size - 1 /\ i % p = a
  <2>1. p * k \in Nat
    BY <1>3
  <2>2. i \in 0 .. size - 1
    BY <1>2, <1>3, <2>1
  <2>3. i % p = a
    BY <1>1, <1>3, Remainder
  <2> QED BY <2>2, <2>3
<1>5. ASSUME NEW j \in 0 .. size - 1, j % p = a PROVE j <= i
  <2>1. PICK q \in Nat : j = p * q + a
    <3>1. j = p * (j \div p) + (j % p) /\ j \div p \in Nat
      BY Division
    <3>2. j = p * (j \div p) + a
      BY <1>5, <3>1
    <3> QED BY <3>1, <3>2
  <2>2. p * q \in Nat /\ p * k \in Nat
    BY <1>3, <2>1
  <2>3. CASE k + 1 <= q
    <3>1. p * k + p <= p * q
      BY <1>3, <2>1, <2>3, Multiples
    <3> QED BY <1>2, <1>3, <2>1, <2>2, <3>1
  <2>4. CASE q <= k
    <3>1. p * q <= p * k
      <4>1. CASE q = k
        BY <4>1, <2>2
      <4>2. CASE q + 1 <= k
        BY <1>3, <2>1, <2>2, <4>2, Multiples
      <4> QED BY <1>3, <2>1, <2>4, <4>1, <4>2
    <3> QED BY <2>1, <2>2, <3>1
  <2> QED BY <1>3, <2>1, <2>3, <2>4
<1> QED BY <1>4, <1>5

LEMMA EepromFacts ==
  ASSUME EepromInv
  PROVE  /\ TestDataSize \in Nat \ {0} /\ r_page \in Nat \ {0}
         /\ At24!Addresses = 0 .. TestDataSize - 1
         /\ \A a \in At24!Addresses : At24!WriteData[a] = a
         /\ At24!WriteData \in [At24!Addresses -> At24!Addresses]
  BY DemosAssumption DEF DemosAssumption, EepromInv, At24!TypeOK, At24!Addresses,
    At24!WriteData

\* Where the byte sent to address a ends up.
LEMMA SentTo ==
  ASSUME EepromInv, At24!SendAll, NEW a \in At24!Addresses
  PROVE  /\ r_memory'[a] \in {-1} \cup At24!Addresses
         /\ r_page >= TestDataSize => r_memory'[a] = a
         /\ a = r_page => r_memory'[a] = r_memory[a]
<1> DEFINE sent == {i \in At24!Addresses : i % r_page = a}
           last == CHOOSE i \in sent : \A j \in sent : j <= i
<1>1. r_memory'[a] = IF sent = {} THEN r_memory[a] ELSE At24!WriteData[last]
  BY DEF At24!SendAll
<1>2. sent # {} => last \in sent /\ last \in At24!Addresses
  <2>1. sent # {} => \E i \in sent : \A j \in sent : j <= i
    <3>1. a \in Nat
      BY EepromFacts
    <3> QED BY <3>1, EepromFacts, LastSent
  <2> QED BY <2>1
<1>3. r_memory[a] \in {-1} \cup At24!Addresses
  BY DEF EepromInv, At24!TypeOK
<1>4. sent # {} => r_memory'[a] = last
  BY <1>1, <1>2, EepromFacts
<1>5. \A i \in At24!Addresses : i % r_page < r_page /\ (r_page >= TestDataSize => i % r_page = i)
  <2>1. \A i, p \in Nat : p > 0 => i % p < p /\ (i < p => i % p = i)
    OBVIOUS
  <2>2. \A i \in At24!Addresses : i \in Nat /\ (r_page >= TestDataSize => i < r_page)
    BY EepromFacts
  <2> QED BY <2>1, <2>2, EepromFacts
<1>6. r_page >= TestDataSize => sent = {a}
  BY <1>5
<1>7. a = r_page => sent = {}
  BY <1>5, EepromFacts
<1> HIDE DEF sent, last
<1> QED BY <1>1, <1>2, <1>3, <1>4, <1>6, <1>7

LEMMA EepromInit == Init => EepromInv
<1> SUFFICES ASSUME At24!Init PROVE EepromInv
  BY DEF Init
<1>1. PageSizes \subseteq Nat \ {0} /\ TestDataSize \in Nat \ {0}
  BY DemosAssumption DEF DemosAssumption
<1>2. /\ r_page \in PageSizes /\ r_memory = [a \in At24!Addresses |-> -1]
      /\ r_step = "write" /\ r_data = [a \in At24!Addresses |-> 0] /\ r_result = ""
      /\ r_busy = FALSE
  BY DEF At24!Init
<1>3. 0 \in At24!Addresses /\ (r_page < TestDataSize => r_page \in At24!Addresses)
  <2>1. r_page \in Nat
    BY <1>1, <1>2, Zenon
  <2> QED BY <1>1, <2>1 DEF At24!Addresses
<1>4. /\ r_memory \in [At24!Addresses -> {-1} \cup At24!Addresses]
      /\ r_data \in [At24!Addresses -> {-1} \cup At24!Addresses]
  BY <1>2, <1>3
<1>5. r_busy \in BOOLEAN
  BY <1>2
<1>6. At24!TypeOK
  BY <1>2, <1>4, <1>5 DEF At24!TypeOK
<1>7. r_page < TestDataSize => r_memory[r_page] = -1
  BY <1>2, <1>3
<1> QED BY <1>2, <1>6, <1>7 DEF EepromInv, At24!ResultTellsPage

LEMMA EepromStep == EepromInv /\ At24!Next => EepromInv'
<1> SUFFICES ASSUME EepromInv, At24!Next PROVE EepromInv'
  OBVIOUS
<1> DEFINE Bytes == [At24!Addresses -> {-1} \cup At24!Addresses]
<1>0. /\ r_page' = r_page /\ r_page \in PageSizes /\ r_page \in Nat /\ TestDataSize \in Nat
      /\ r_memory \in Bytes /\ r_data \in Bytes
      /\ 0 \in At24!Addresses /\ (r_page < TestDataSize => r_page \in At24!Addresses)
  <2>1. r_page' = r_page
    BY DEF At24!Next, At24!Write, At24!Sleep, At24!Read, At24!Verify, At24!ReadSingle,
      At24!Restart
  <2>2. 0 \in At24!Addresses /\ (r_page < TestDataSize => r_page \in At24!Addresses)
    BY EepromFacts
  <2>3. r_page \in PageSizes /\ r_memory \in Bytes /\ r_data \in Bytes
    BY DEF EepromInv, At24!TypeOK
  <2> HIDE DEF Bytes
  <2> QED BY <2>1, <2>2, <2>3, EepromFacts
<1>1. r_busy' \in BOOLEAN
  BY DEF EepromInv, At24!TypeOK, At24!Next, At24!Write, At24!Sleep, At24!Read, At24!Verify,
    At24!ReadSingle, At24!Restart
<1> HIDE DEF Bytes
<1>2. CASE At24!Write
  <2>1. CASE At24!SendAll /\ r_step' = "sleep" /\ r_result' = r_result
    <3>1. r_memory' \in Bytes
      <4>1. PICK f : r_memory' = [a \in At24!Addresses |-> f[a]]
        <5>1. r_memory' = [a \in At24!Addresses |-> r_memory'[a]]
          BY <2>1 DEF At24!SendAll
        <5> QED BY <5>1
      <4> QED BY <2>1, <4>1, SentTo DEF Bytes
    <3>2. r_page >= TestDataSize => r_memory' = At24!WriteData
      <4>1. r_page >= TestDataSize => \A a \in At24!Addresses : r_memory'[a] = At24!WriteData[a]
        BY <2>1, SentTo, EepromFacts
      <4> QED BY <3>1, <4>1, EepromFacts DEF Bytes
    <3>3. r_page < TestDataSize => r_memory'[r_page] = -1
      BY <1>0, <2>1, SentTo DEF EepromInv
    <3>4. r_data' = r_data /\ r_result' = ""
      BY <1>2, <2>1 DEF At24!Write, EepromInv
    <3> QED BY <1>0, <1>1, <2>1, <3>1, <3>2, <3>3, <3>4
          DEF EepromInv, Bytes, At24!TypeOK, At24!ResultTellsPage, At24!WriteData, At24!Addresses
  <2>2. CASE At24!Error /\ r_memory' = r_memory
    BY <1>0, <1>1, <1>2, <2>2 DEF At24!Write, At24!Error, EepromInv, Bytes, At24!TypeOK,
      At24!ResultTellsPage, At24!WriteData, At24!Addresses
  <2> QED BY <1>2, <2>1, <2>2 DEF At24!Write
<1>3. CASE At24!Sleep
  BY <1>0, <1>1, <1>3 DEF At24!Sleep, EepromInv, Bytes, At24!TypeOK, At24!ResultTellsPage,
    At24!WriteData, At24!Addresses
<1>4. CASE At24!Read
  BY <1>0, <1>1, <1>4 DEF At24!Read, At24!Error, EepromInv, Bytes, At24!TypeOK,
    At24!ResultTellsPage, At24!WriteData, At24!Addresses
<1>5. CASE At24!Verify
  <2>1. r_page < TestDataSize => r_memory # At24!WriteData
    <3>1. r_page < TestDataSize => r_memory[r_page] = -1 /\ At24!WriteData[r_page] = r_page
      BY <1>0, EepromFacts DEF EepromInv
    <3> QED BY <1>0, <3>1
  <2>2. r_data = r_memory /\ r_memory' = r_memory /\ r_data' = r_data
    BY <1>5 DEF At24!Verify, EepromInv
  <2>3. \/ r_result' = "SUCCESS" /\ r_step' = "single" /\ r_memory = At24!WriteData
        \/ r_result' = "FAILED" /\ r_step' = "ended" /\ r_memory # At24!WriteData
    BY <1>5, <2>2 DEF At24!Verify
  <2>4. r_page >= TestDataSize => r_memory = At24!WriteData
    BY <1>5 DEF At24!Verify, EepromInv
  <2>5. At24!ResultTellsPage'
    BY <1>0, <2>1, <2>2, <2>3, <2>4 DEF At24!ResultTellsPage, At24!WriteData, At24!Addresses
  <2> QED BY <1>0, <1>1, <2>2, <2>3, <2>5 DEF EepromInv, Bytes, At24!TypeOK, At24!Addresses
<1>6. CASE At24!ReadSingle
  BY <1>0, <1>1, <1>6 DEF At24!ReadSingle, EepromInv, Bytes, At24!TypeOK,
    At24!ResultTellsPage, At24!WriteData, At24!Addresses
<1>7. CASE At24!Restart
  BY <1>0, <1>1, <1>7 DEF At24!Restart, EepromInv, Bytes, At24!TypeOK, At24!ResultTellsPage
<1> QED BY <1>2, <1>3, <1>4, <1>5, <1>6, <1>7 DEF At24!Next

-----------------------------------------------------------------------------
\* What the storage programs hold, each while it is the one that is flashed.
StorageInv ==
  /\ app = "sdcard"  => CardInv
  /\ app = "speed"   => SpeedFlag /\ SpeedInv
  /\ app = "flashfs" => FlashInv
  /\ EepromInv

LEMMA StorageStep == StorageInv /\ [Next]_vars => StorageInv'
<1> SUFFICES ASSUME StorageInv, [Next]_vars PROVE StorageInv'
  OBVIOUS
<1>1. app = "sdcard" => CardInv'
  <2>1. CardInv /\ UNCHANGED <<cardVars, mediumVars>> => CardInv'
    BY DEF cardVars, mediumVars, CardInv, CardPlace, CardOpen, CardPath, ReadBack,
      Card!PassedIsStored, Card!Content, Card!FullWriteData, Card!TestFile, Card!NestedFile
  <2> QED BY <2>1, CardStep, StepsApart DEF StorageInv
<1>2. app = "speed" => SpeedFlag' /\ SpeedInv'
  <2>1. SpeedFlag /\ SpeedInv /\ UNCHANGED <<speedVars, mediumVars>> => SpeedFlag' /\ SpeedInv'
    <3> SUFFICES ASSUME SpeedFlag, SpeedInv, UNCHANGED <<speedVars, mediumVars>>
                 PROVE  SpeedFlag' /\ SpeedInv'
      OBVIOUS
    <3>1. SpeedFlag'
      BY DEF speedVars, SpeedFlag
    <3>2. SpeedInv'
      BY DEF speedVars, mediumVars, SpeedInv, SpeedPlace, SpeedFromStart,
        SpeedContent, SpeedWriting, SpeedReading, Speed!PassedIsRight, Speed!Content, Total,
        Speed!TestFile, RightCell, Speed!Filled
    <3> QED BY <3>1, <3>2
  <2> QED BY <2>1, SpeedStep, StepsApart DEF StorageInv
<1>3. app = "flashfs" => FlashInv'
  <2>1. FlashInv /\ UNCHANGED <<flashFsVars, mediumVars>> => FlashInv'
    BY DEF flashFsVars, mediumVars, FlashInv, FlashPlace, FlashOpen, CallPath, Before, After,
      LittleFs!RunLeavesBoth, LittleFs!Content, LittleFs!Hello, LittleFs!Bin
  <2> QED BY <2>1, FlashStep, StepsApart DEF StorageInv
<1>4. EepromInv'
  <2>1. EepromInv /\ UNCHANGED eepromVars => EepromInv'
    BY DEF eepromVars, EepromInv, At24!TypeOK, At24!ResultTellsPage, At24!WriteData,
      At24!Addresses
  <2> QED BY <2>1, EepromStep, StepsApart DEF StorageInv
<1> QED BY <1>1, <1>2, <1>3, <1>4, StepsApart DEF StorageInv

LEMMA StorageHolds == Spec => []StorageInv
<1>1. Init => StorageInv
  BY CardInit, SpeedInit, FlashInit, EepromInit DEF StorageInv
<1> QED BY <1>1, StorageStep, Behaviour, PTL

\* What the storage programs say of their medium when they are through is right,
\* whatever fails and wherever power failed in the runs before.  app20's "PASSED":
\* test.txt begins with the text of this run; app21's: no byte of the file that is
\* there is wrong (it may be short, or empty); app81 without an error: both files
\* hold exactly what was written; app10's verdict tells the chip's page.
THEOREM VerdictsHold == Spec => []StorageTruthful
<1>1. StorageInv => StorageTruthful
  BY DEF StorageInv, StorageTruthful, CardInv, SpeedInv, FlashInv, EepromInv
<1> QED BY StorageHolds, <1>1, PTL

\* On every path, those of errors too: app20, app21 and app81 close their files,
\* app21 frees its buffer, app81 tries to unmount what it has mounted before main
\* returns, and app70 closes its sockets.
THEOREM EverythingReturned == Spec => []ResourcesReturned
<1>1. StorageInv /\ TcpInv => ResourcesReturned
  <2> SUFFICES ASSUME StorageInv, TcpInv PROVE ResourcesReturned
    OBVIOUS
  <2>1. app = "sdcard" => Card!AllClosed
    <3>1. Len(Card!Program) = 7
      BY DEF Card!Program
    <3> QED BY <3>1 DEF StorageInv, CardInv, CardPlace, Card!AllClosed, Card!Ended
  <2>2. app = "speed" => Speed!AllReleased
    BY DEF StorageInv, SpeedInv, SpeedPlace, Speed!AllReleased
  <2>3. app = "flashfs" => LittleFs!AllReleased
    <3>1. Len(LittleFs!Program) = 5
      BY DEF LittleFs!Program
    <3> QED BY <3>1 DEF StorageInv, FlashInv, FlashPlace, LittleFs!AllReleased,
          LittleFs!Returned
  <2>4. Tcp!AllClosed
    BY DEF TcpInv, Tcp!AllClosed
  <2> QED BY <2>1, <2>2, <2>3, <2>4 DEF ResourcesReturned
<1> QED BY StorageHolds, ConsoleHolds, <1>1, PTL

-----------------------------------------------------------------------------
(* The types of all demonstrations, however late their sleeps end.  Most are *)
(* part of the invariants above and of the other modules; the others keep    *)
(* themselves.                                                               *)

LEMMA SlackNatural == \A a \in Sleepers : Slack[a] \in Nat
BY DemosAssumption DEF DemosAssumption

LEMMA PoolTyped == Spec => []Pool!TypeOK
<1>1. ASSUME Pool!TypeOK, Pool!Put PROVE Pool!TypeOK'
  <2>1. POOL_SIZE \in Nat \ {0} /\ p_index \in 0 .. POOL_SIZE - 1
    BY <1>1, DemosAssumption DEF DemosAssumption, Pool!TypeOK, Pool!Items
  <2>2. p_timer' \in [{"producer", "consumer"} -> 0 .. 5 + Slack["pool"]]
    BY <1>1, PoolSleep DEF Pool!Put
  <2>3. p_index' \in Pool!Items
    BY <1>1, <2>1 DEF Pool!Put, Pool!Items
  <2>4. /\ p_head' \in Pool!Items \cup {Pool!Null} /\ p_tail' \in Pool!Items \cup {Pool!Null}
        /\ p_link' \in [Pool!Items -> Pool!Items \cup {Pool!Null}]
    BY <1>1 DEF Pool!Put, Pool!AppendItem, Pool!TypeOK
  <2>5. p_reput' \in BOOLEAN
    BY <1>1 DEF Pool!Put
  <2>6. QED BY <2>2, <2>3, <2>4, <2>5 DEF Pool!TypeOK
<1>2. ASSUME Pool!TypeOK, Pool!Get PROVE Pool!TypeOK'
  <2>1. p_timer' \in [{"producer", "consumer"} -> 0 .. 5 + Slack["pool"]]
    BY <1>2, PoolSleep DEF Pool!Get
  <2>2. p_head \in Pool!Items
    BY <1>2 DEF Pool!Get, Pool!ReadyToGet, Pool!TypeOK
  <2>3. QED BY <1>2, <2>1, <2>2 DEF Pool!Get, Pool!TypeOK
<1>3. ASSUME Pool!TypeOK, Pool!Tick PROVE Pool!TypeOK'
  <2>1. p_timer' \in [{"producer", "consumer"} -> 0 .. 5 + Slack["pool"]]
    BY <1>3, SlackNatural DEF Sleepers, Pool!Tick, Pool!Pass, Pool!TypeOK
  <2>2. QED BY <1>3, <2>1 DEF Pool!Tick, Pool!TypeOK
<1>4. ASSUME Pool!TypeOK, UNCHANGED poolVars PROVE Pool!TypeOK'
  BY Zenon, <1>4 DEF poolVars, Pool!TypeOK
<1>5. Pool!TypeOK /\ [Next]_vars => Pool!TypeOK'
  BY <1>1, <1>2, <1>3, <1>4, StepsApart DEF Pool!Next
<1>6. Init => Pool!TypeOK
  BY PoolInit DEF PoolInv
<1> QED BY <1>5, <1>6, Behaviour, PTL

LEMMA ZbusTyped == Spec => []Zbus!TypeOK
<1>0. Slack["zbus"] \in Nat /\ MaxValid \in Nat /\ QueueSize \in Nat
  BY SlackNatural, DemosAssumption DEF Sleepers, DemosAssumption
<1>1. ASSUME Zbus!TypeOK, NEW t \in {"publisher", "subscriber"}, NEW n \in 0 .. 20,
             Zbus!Sleep(t, n)
      PROVE  z_timer' \in [{"publisher", "subscriber"} -> 0 .. 20 + Slack["zbus"]]
  BY <1>0, <1>1 DEF Zbus!Sleep, Zbus!TypeOK
<1>2. ASSUME Zbus!TypeOK, Zbus!PublishRefused PROVE Zbus!TypeOK'
  BY <1>0, <1>1, <1>2 DEF Zbus!PublishRefused, Zbus!TypeOK
<1>3. ASSUME Zbus!TypeOK, Zbus!Publish PROVE Zbus!TypeOK'
  <2>1. z_timer' \in [{"publisher", "subscriber"} -> 0 .. 20 + Slack["zbus"]]
    BY <1>1, <1>3 DEF Zbus!Publish
  <2>2. z_count' \in 0 .. MaxValid /\ z_chan' = z_count'
    BY <1>0, <1>3 DEF Zbus!Publish, Zbus!Valid, Zbus!TypeOK
  <2>3. z_locked' \in BOOLEAN
    BY <1>3 DEF Zbus!Publish, Zbus!TypeOK
  <2>4. z_queued' \in 0 .. QueueSize /\ z_heard' \in 0 .. MaxValid
    BY <1>0, <1>3, <2>2 DEF Zbus!Publish, Zbus!TypeOK
  <2>5. QED BY <1>0, <1>3, <2>1, <2>2, <2>3, <2>4 DEF Zbus!Publish, Zbus!TypeOK
<1>4. ASSUME Zbus!TypeOK, Zbus!PublishFails \/ Zbus!Read PROVE Zbus!TypeOK'
  <2>1. z_timer' \in [{"publisher", "subscriber"} -> 0 .. 20 + Slack["zbus"]]
    BY <1>1, <1>4 DEF Zbus!PublishFails, Zbus!Read
  <2>2. z_locked' \in BOOLEAN
    BY <1>4 DEF Zbus!PublishFails, Zbus!Read, Zbus!TypeOK
  <2>3. QED BY <1>4, <2>1, <2>2 DEF Zbus!PublishFails, Zbus!Read, Zbus!TypeOK
<1>5. ASSUME Zbus!TypeOK, Zbus!Tick PROVE Zbus!TypeOK'
  <2>1. z_timer' \in [{"publisher", "subscriber"} -> 0 .. 20 + Slack["zbus"]]
    BY <1>0, <1>5 DEF Zbus!Tick, Zbus!Pass, Zbus!TypeOK
  <2>2. QED BY <1>5, <2>1 DEF Zbus!Tick, Zbus!TypeOK
<1>6. ASSUME Zbus!TypeOK, UNCHANGED zbusVars PROVE Zbus!TypeOK'
  BY Zenon, <1>6 DEF zbusVars, Zbus!TypeOK
<1>7. Zbus!TypeOK /\ [Next]_vars => Zbus!TypeOK'
  BY <1>2, <1>3, <1>4, <1>5, <1>6, StepsApart DEF Zbus!Next
<1>8. Init => Zbus!TypeOK
  BY ZbusInit DEF ZbusInv
<1> QED BY <1>7, <1>8, Behaviour, PTL

\* The threads of the two examples of app37.
LifoTyped ==
  /\ Lifo!TypeOK
  /\ DOMAIN l_timer = IF l_example = 1 THEN {"push", "pop"}
                                       ELSE {"dispatcher", "executor", "main"}

LEMMA LifoTypes == Spec => []LifoTyped
<1>0. Slack["lifo"] \in Nat
  BY SlackNatural DEF Sleepers
<1>1. ASSUME LifoTyped, NEW t, NEW n \in 0 .. 100, Lifo!Sleep(t, n)
      PROVE  /\ DOMAIN l_timer' = DOMAIN l_timer
             /\ \A o \in DOMAIN l_timer : l_timer'[o] \in 0 .. 100 + Slack["lifo"]
  BY <1>0, <1>1 DEF Lifo!Sleep, LifoTyped, Lifo!TypeOK
<1>2. Init => LifoTyped
  <2> SUFFICES ASSUME Lifo!Init PROVE LifoTyped
    BY DEF Init
  <2>1. /\ l_example \in {1, 2} /\ l_stack \in Seq(0 .. 5) /\ l_popped \in Seq(0 .. 5)
        /\ l_idx \in 0 .. 6
    BY DEF Lifo!Init
  <2>2. l_overrun \in BOOLEAN
    BY DEF Lifo!Init
  <2>3. ASSUME l_example = 1
        PROVE  /\ DOMAIN l_timer = {"push", "pop"}
               /\ \A t \in DOMAIN l_timer : l_timer[t] \in 0 .. 100 + Slack["lifo"]
    BY <1>0, <2>3 DEF Lifo!Init
  <2>4. ASSUME l_example = 2
        PROVE  /\ DOMAIN l_timer = {"dispatcher", "executor", "main"}
               /\ \A t \in DOMAIN l_timer : l_timer[t] \in 0 .. 100 + Slack["lifo"]
    BY <1>0, <2>4 DEF Lifo!Init
  <2>5. QED BY <2>1, <2>2, <2>3, <2>4 DEF LifoTyped, Lifo!TypeOK, Lifo!PoolSize
<1>3. ASSUME LifoTyped, Lifo!Push PROVE LifoTyped'
  <2>1. l_idx \in 0 .. 4 /\ l_stack' = <<l_idx>> \o l_stack /\ l_idx' = l_idx + 1
    BY <1>3 DEF Lifo!Push, Lifo!NTasks, LifoTyped, Lifo!TypeOK, Lifo!PoolSize
  <2>2. l_stack' \in Seq(0 .. 5)
    BY <1>3, <2>1, PushFront DEF LifoTyped, Lifo!TypeOK, Lifo!PoolSize
  <2>3. /\ DOMAIN l_timer' = DOMAIN l_timer
        /\ \A o \in DOMAIN l_timer : l_timer'[o] \in 0 .. 100 + Slack["lifo"]
    BY <1>1, <1>3 DEF Lifo!Push
  <2>4. QED BY <1>3, <2>1, <2>2, <2>3 DEF Lifo!Push, LifoTyped, Lifo!TypeOK, Lifo!PoolSize
<1>4. ASSUME LifoTyped, Lifo!Dispatch PROVE LifoTyped'
  <2>1. CASE l_idx = 6
    BY <1>4, <2>1 DEF Lifo!Dispatch, LifoTyped, Lifo!TypeOK, Lifo!PoolSize
  <2>2. CASE l_idx # 6
    <3>1. l_idx \in 0 .. 5 /\ l_stack' = <<l_idx>> \o l_stack /\ l_idx' = l_idx + 1
      BY <1>4, <2>2 DEF Lifo!Dispatch, LifoTyped, Lifo!TypeOK, Lifo!PoolSize
    <3>2. l_stack' \in Seq(0 .. 5)
      BY <1>4, <3>1, PushFront DEF LifoTyped, Lifo!TypeOK, Lifo!PoolSize
    <3>3. /\ DOMAIN l_timer' = DOMAIN l_timer
          /\ \A o \in DOMAIN l_timer : l_timer'[o] \in 0 .. 100 + Slack["lifo"]
      BY <1>1, <1>4, <2>2 DEF Lifo!Dispatch, Lifo!PoolSize
    <3>4. QED BY <1>4, <2>2, <3>1, <3>2, <3>3
            DEF Lifo!Dispatch, LifoTyped, Lifo!TypeOK, Lifo!PoolSize
  <2>3. QED BY <2>1, <2>2
<1>5. ASSUME LifoTyped, Lifo!Pop \/ Lifo!Execute PROVE LifoTyped'
  <2>1. l_stack \in Seq(0 .. 5) /\ l_stack # <<>> /\ l_popped \in Seq(0 .. 5)
    BY <1>5 DEF Lifo!Pop, Lifo!CanPop, Lifo!Execute, Lifo!CanExecute, LifoTyped, Lifo!TypeOK,
      Lifo!PoolSize
  <2>2. /\ l_stack' = Tail(l_stack)
        /\ l_popped' = Append(l_popped, Head(l_stack)) \/ l_popped' = <<Head(l_stack)>>
    BY <1>5 DEF Lifo!Pop, Lifo!Execute
  <2>3. l_stack' \in Seq(0 .. 5) /\ l_popped' \in Seq(0 .. 5)
    <3>1. Head(l_stack) \in 0 .. 5 /\ Tail(l_stack) \in Seq(0 .. 5)
      BY <2>1, HeadTailProperties
    <3>2. Append(l_popped, Head(l_stack)) \in Seq(0 .. 5) /\ <<Head(l_stack)>> \in Seq(0 .. 5)
      BY <2>1, <3>1
    <3>3. QED BY Zenon, <2>2, <3>1, <3>2
  <2>4. /\ DOMAIN l_timer' = DOMAIN l_timer
        /\ \A o \in DOMAIN l_timer : l_timer'[o] \in 0 .. 100 + Slack["lifo"]
    BY <1>1, <1>5 DEF Lifo!Pop, Lifo!Execute
  <2>5. l_example' = l_example /\ l_idx' = l_idx /\ l_overrun' = l_overrun
    BY <1>5 DEF Lifo!Pop, Lifo!Execute
  <2>6. QED BY <1>5, <2>3, <2>4, <2>5 DEF LifoTyped, Lifo!TypeOK, Lifo!PoolSize
<1>6. ASSUME LifoTyped, Lifo!Tick PROVE LifoTyped'
  <2>1. /\ DOMAIN l_timer' = DOMAIN l_timer
        /\ \A o \in DOMAIN l_timer : l_timer'[o] \in 0 .. 100 + Slack["lifo"]
    BY <1>0, <1>6 DEF Lifo!Tick, Lifo!Pass, LifoTyped, Lifo!TypeOK
  <2>2. QED BY <1>6, <2>1 DEF Lifo!Tick, LifoTyped, Lifo!TypeOK
<1>7. ASSUME LifoTyped, Lifo!Finished \/ UNCHANGED lifoVars PROVE LifoTyped'
  BY <1>7 DEF Lifo!Finished, Lifo!vars, lifoVars, LifoTyped, Lifo!TypeOK
<1>8. LifoTyped /\ [Next]_vars => LifoTyped'
  BY <1>3, <1>4, <1>5, <1>6, <1>7, StepsApart DEF Lifo!Next
<1> QED BY <1>2, <1>8, Behaviour, PTL

\* The two threads of app35.
MsgqTyped == Msgq!TypeOK /\ DOMAIN q_timer = {"producer", "consumer"}

LEMMA MsgqTypes == Spec => []MsgqTyped
<1>0. Slack["msgq"] \in Nat
  BY SlackNatural DEF Sleepers
<1>1. ASSUME MsgqTyped, NEW t, NEW n \in 0 .. 10, Msgq!Sleep(t, n)
      PROVE  /\ DOMAIN q_timer' = {"producer", "consumer"}
             /\ \A o \in {"producer", "consumer"} : q_timer'[o] \in 0 .. 10 + Slack["msgq"]
  BY <1>0, <1>1 DEF Msgq!Sleep, MsgqTyped, Msgq!TypeOK
<1>2. Init => MsgqTyped
  <2>1. ASSUME Init PROVE DOMAIN q_timer = {"producer", "consumer"}
    BY <2>1 DEF Init, Msgq!Init
  <2>2. QED BY <2>1, MsgqInit DEF MsgqInv, MsgqTyped
<1>3. ASSUME MsgqTyped
      PROVE  /\ Msgq!Older(q_queue) \in Seq(Nat) /\ Len(Msgq!Older(q_queue)) = Len(q_queue)
             /\ Msgq!Older(q_last) \in Seq(Nat) /\ Len(Msgq!Older(q_last)) <= 1
             /\ Msgq!Older(q_queue) \o <<0>> \in Seq(Nat)
             /\ Len(Msgq!Older(q_queue) \o <<0>>) = Len(q_queue) + 1
             /\ Len(q_queue) \in Nat /\ Msgq!Capacity \in {3, 5}
  BY <1>3, MsgqOlder, MsgqPutLast DEF MsgqTyped, Msgq!TypeOK, Msgq!Capacity
<1>4. ASSUME MsgqTyped, Msgq!SensorPut PROVE MsgqTyped'
  <2>1. q_queue' \in Seq(Nat) /\ Len(q_queue') <= Msgq!Capacity
    BY <1>3, <1>4 DEF Msgq!SensorPut, MsgqTyped, Msgq!TypeOK
  <2>2. /\ DOMAIN q_timer' = {"producer", "consumer"}
        /\ \A o \in {"producer", "consumer"} : q_timer'[o] \in 0 .. 10 + Slack["msgq"]
    BY <1>1, <1>4 DEF Msgq!SensorPut
  <2>3. q_example' = q_example /\ q_waiting' = q_waiting /\ q_pending' = q_pending
        /\ q_last' = Msgq!Older(q_last) /\ Msgq!Capacity' = Msgq!Capacity
    BY <1>4 DEF Msgq!SensorPut, Msgq!Capacity
  <2>4. QED BY Zenon, <1>3, <1>4, <2>1, <2>2, <2>3 DEF MsgqTyped, Msgq!TypeOK
<1>5. ASSUME MsgqTyped, Msgq!SenderPut PROVE MsgqTyped'
  <2>1. /\ q_queue' \in Seq(Nat) /\ Len(q_queue') <= Msgq!Capacity
        /\ q_pending' \in Seq(Nat) /\ Len(q_pending') <= 1
    <3>1. Len(q_queue) <= Msgq!Capacity /\ q_pending = <<>>
      BY <1>5 DEF Msgq!SenderPut, MsgqTyped, Msgq!TypeOK
    <3>2. CASE Len(q_queue) < Msgq!Capacity
      <4>1. q_queue' = Msgq!Older(q_queue) \o <<0>> /\ q_pending' = q_pending
        BY <1>5, <3>2 DEF Msgq!SenderPut
      <4>2. Len(q_queue) + 1 <= Msgq!Capacity
        BY <1>3, <1>5, <3>2
      <4>3. q_pending' \in Seq(Nat) /\ Len(q_pending') <= 1
        BY <4>1, <3>1
      <4>4. QED BY Zenon, <1>3, <1>5, <4>1, <4>2, <4>3
    <3>3. CASE ~(Len(q_queue) < Msgq!Capacity)
      <4>1. q_queue' = Msgq!Older(q_queue) /\ q_pending' = <<0>>
        BY <1>5, <3>3 DEF Msgq!SenderPut
      <4>2. q_pending' \in Seq(Nat) /\ Len(q_pending') <= 1
        BY <4>1
      <4>3. QED BY Zenon, <1>3, <1>5, <3>1, <4>1, <4>2
    <3>4. QED BY <3>2, <3>3
  <2>2. /\ DOMAIN q_timer' = {"producer", "consumer"}
        /\ \A o \in {"producer", "consumer"} : q_timer'[o] \in 0 .. 10 + Slack["msgq"]
    BY <1>1, <1>5 DEF Msgq!SenderPut
  <2>3. q_example' = q_example /\ q_waiting' = q_waiting
        /\ q_last' = Msgq!Older(q_last) /\ Msgq!Capacity' = Msgq!Capacity
    BY <1>5 DEF Msgq!SenderPut, Msgq!Capacity
  <2>4. QED BY Zenon, <1>3, <1>5, <2>1, <2>2, <2>3 DEF MsgqTyped, Msgq!TypeOK
<1>6. ASSUME MsgqTyped, Msgq!PutTimeout PROVE MsgqTyped'
  <2>1. q_pending' \in Seq(Nat) /\ Len(q_pending') <= 1
    BY <1>6 DEF Msgq!PutTimeout
  <2>2. /\ DOMAIN q_timer' = {"producer", "consumer"}
        /\ \A o \in {"producer", "consumer"} : q_timer'[o] \in 0 .. 10 + Slack["msgq"]
    BY <1>1, <1>6 DEF Msgq!PutTimeout
  <2>3. /\ q_example' = q_example /\ q_waiting' = q_waiting /\ q_queue' = q_queue
        /\ q_last' = q_last /\ Msgq!Capacity' = Msgq!Capacity
    BY <1>6 DEF Msgq!PutTimeout, Msgq!Capacity
  <2>4. QED BY Zenon, <1>6, <2>1, <2>2, <2>3 DEF MsgqTyped, Msgq!TypeOK
<1>7. ASSUME MsgqTyped, Msgq!Get PROVE MsgqTyped'
  <2>1. q_queue \in Seq(Nat) /\ q_queue # <<>> /\ q_pending \in Seq(Nat) /\ Len(q_pending) <= 1
    BY <1>7 DEF Msgq!Get, Msgq!CanGet, MsgqTyped, Msgq!TypeOK
  <2>2. /\ Tail(q_queue) \in Seq(Nat) /\ Len(Tail(q_queue)) = Len(q_queue) - 1
        /\ Head(q_queue) \in Nat /\ Len(q_pending) \in Nat
    BY <2>1, HeadTailProperties
  <2>3. /\ Tail(q_queue) \o q_pending \in Seq(Nat)
        /\ Len(Tail(q_queue) \o q_pending) = Len(Tail(q_queue)) + Len(q_pending)
    BY Zenon, <2>1, <2>2, ConcatProperties
  <2>4. Len(q_queue') <= Msgq!Capacity /\ q_queue' \in Seq(Nat)
    <3>1. q_queue' = Tail(q_queue) \o q_pending
      BY <1>7 DEF Msgq!Get
    <3>2. Len(q_queue') = (Len(q_queue) - 1) + Len(q_pending)
      BY Zenon, <3>1, <2>2, <2>3
    <3>3. Len(q_queue) \in Nat /\ Len(q_queue) <= Msgq!Capacity /\ Msgq!Capacity \in Int
      BY <1>3, <1>7 DEF MsgqTyped, Msgq!TypeOK
    <3>4. Len(q_queue') <= Msgq!Capacity
      BY <2>1, <2>2, <3>2, <3>3
    <3>5. QED BY Zenon, <3>1, <2>3, <3>4
  <2>5. /\ q_pending' \in Seq(Nat) /\ Len(q_pending') <= 1
        /\ q_last' \in Seq(Nat) /\ Len(q_last') <= 1
    BY <1>7, <2>2 DEF Msgq!Get
  <2>6. /\ DOMAIN q_timer' = {"producer", "consumer"}
        /\ \A o \in {"producer", "consumer"} : q_timer'[o] \in 0 .. 10 + Slack["msgq"]
    BY <1>0, <1>7 DEF Msgq!Get, MsgqTyped, Msgq!TypeOK
  <2>7. q_waiting' \in BOOLEAN
    BY <1>7 DEF Msgq!Get
  <2>8. q_example' = q_example /\ Msgq!Capacity' = Msgq!Capacity
    BY <1>7 DEF Msgq!Get, Msgq!Capacity
  <2>9. QED BY Zenon, <1>7, <2>4, <2>5, <2>6, <2>7, <2>8 DEF MsgqTyped, Msgq!TypeOK
<1>8. ASSUME MsgqTyped, Msgq!WaitForMessage PROVE MsgqTyped'
  <2>1. /\ DOMAIN q_timer' = {"producer", "consumer"}
        /\ \A o \in {"producer", "consumer"} : q_timer'[o] \in 0 .. 10 + Slack["msgq"]
    BY <1>1, <1>8 DEF Msgq!WaitForMessage, MsgqTyped, Msgq!TypeOK
  <2>2. q_waiting' \in BOOLEAN
    BY <1>8 DEF Msgq!WaitForMessage
  <2>3. /\ q_example' = q_example /\ q_queue' = q_queue /\ q_pending' = q_pending
        /\ q_last' = q_last /\ Msgq!Capacity' = Msgq!Capacity
    BY <1>8 DEF Msgq!WaitForMessage, Msgq!Capacity
  <2>4. QED BY Zenon, <1>8, <2>1, <2>2, <2>3 DEF MsgqTyped, Msgq!TypeOK
<1>9. ASSUME MsgqTyped, Msgq!Tick \/ UNCHANGED msgqVars PROVE MsgqTyped'
  <2>1. /\ DOMAIN q_timer' = {"producer", "consumer"}
        /\ \A o \in {"producer", "consumer"} : q_timer'[o] \in 0 .. 10 + Slack["msgq"]
    <3>1. CASE Msgq!Tick
      <4>1. q_timer' = [o \in DOMAIN q_timer |-> IF q_timer[o] > 0 THEN q_timer[o] - 1 ELSE 0]
        BY Zenon, <3>1 DEF Msgq!Tick, Msgq!Pass
      <4>2. /\ DOMAIN q_timer = {"producer", "consumer"}
            /\ \A o \in {"producer", "consumer"} : q_timer[o] \in 0 .. 10 + Slack["msgq"]
        BY Zenon, <1>9 DEF MsgqTyped, Msgq!TypeOK
      <4>3. QED BY <1>0, <4>1, <4>2
    <3>2. CASE UNCHANGED msgqVars
      <4>1. q_timer' = q_timer
        BY Zenon, <3>2 DEF msgqVars
      <4>2. QED BY Zenon, <1>9, <4>1 DEF MsgqTyped, Msgq!TypeOK
    <3>3. QED BY Zenon, <1>9, <3>1, <3>2
  <2>2. /\ q_example' = q_example /\ q_queue' = q_queue /\ q_pending' = q_pending
        /\ q_last' = q_last /\ q_waiting' = q_waiting /\ Msgq!Capacity' = Msgq!Capacity
    BY <1>9 DEF Msgq!Tick, msgqVars, Msgq!Capacity
  <2>3. QED BY Zenon, <1>9, <2>1, <2>2 DEF MsgqTyped, Msgq!TypeOK
<1>10. MsgqTyped /\ [Next]_vars => MsgqTyped'
  BY <1>4, <1>5, <1>6, <1>7, <1>8, <1>9, StepsApart DEF Msgq!Next
<1> QED BY <1>2, <1>10, Behaviour, PTL

\* What the invariant of app70 does not say of its types.
TcpTyped ==
  /\ t_pc \in {"socket", "bind", "listen", "accept", "getchar", "send", "recv", "ended"}
  /\ t_peer \in {"none", "open", "closed"} /\ t_queued \in 0 .. MaxQueued
  /\ t_idx \in 0 .. BUF_SIZE - 1 /\ t_dirty \in BOOLEAN
  /\ t_out \in Seq(Characters \cup {"newline", "received"})

LEMMA TcpTypes == Spec => []TcpTyped
<1>0. BUF_SIZE \in Nat \ {0} /\ MaxQueued \in Nat
  BY DemosAssumption DEF DemosAssumption
<1>1. Init => TcpTyped
  <2> SUFFICES ASSUME Tcp!Init PROVE TcpTyped
    BY DEF Init
  <2>1. t_dirty \in BOOLEAN
    BY DEF Tcp!Init
  <2>2. QED BY <1>0, <2>1 DEF Tcp!Init, TcpTyped
<1>2. ASSUME TcpInv, TcpInv', TcpTyped, Tcp!Next PROVE TcpTyped'
  <2>1. CASE \/ Tcp!Socket \/ Tcp!BindAndListen \/ Tcp!Accept \/ Tcp!NoKey
             \/ Tcp!RecvNothing \/ Tcp!HangUp \/ Tcp!KeyBackspace
             \/ Tcp!Peer \/ \E k \in Characters : Tcp!KeyCharacter(k)
    <3>1. /\ t_pc' \in {"socket", "bind", "listen", "accept", "getchar", "send", "recv", "ended"}
          /\ t_peer' \in {"none", "open", "closed"} /\ t_queued' \in 0 .. MaxQueued
          /\ t_idx' \in 0 .. BUF_SIZE - 1 /\ t_out' = t_out
      BY <1>0, <1>2, <2>1 DEF TcpTyped, Tcp!Socket, Tcp!BindAndListen, Tcp!Accept, Tcp!NoKey,
        Tcp!RecvNothing, Tcp!HangUp, Tcp!KeyBackspace, Tcp!Peer, Tcp!PeerConnects,
        Tcp!PeerSends, Tcp!PeerCloses, Tcp!KeyCharacter
    <3>2. t_dirty' \in BOOLEAN
      BY <1>2, <2>1 DEF TcpTyped, Tcp!Socket, Tcp!BindAndListen, Tcp!Accept, Tcp!NoKey,
        Tcp!RecvNothing, Tcp!HangUp, Tcp!KeyBackspace, Tcp!Peer, Tcp!PeerConnects,
        Tcp!PeerSends, Tcp!PeerCloses, Tcp!KeyCharacter
    <3>3. QED BY <1>2, <3>1, <3>2 DEF TcpTyped
  <2>2. CASE Tcp!KeyEnter
    <3>1. /\ t_pc' = "send" /\ t_peer' = t_peer /\ t_queued' = t_queued
          /\ t_idx' = t_idx /\ t_dirty' = t_dirty
          /\ t_out' = [c \in 1 .. t_idx + 1 |-> t_buf'[c]]
      BY <2>2 DEF Tcp!KeyEnter
    <3>2. /\ \A c \in 1 .. t_idx + 1 : t_buf'[c] \in Characters \cup {"newline", "received"}
          /\ t_idx + 1 \in Nat
      BY <1>0, <1>2 DEF TcpInv, TcpTyped
    <3>3. t_out' \in Seq(Characters \cup {"newline", "received"})
      BY <3>1, <3>2
    <3>4. QED BY <1>2, <3>1, <3>3 DEF TcpTyped
  <2>3. CASE Tcp!Recv
    <3>1. t_dirty' \in BOOLEAN
      BY <2>3 DEF Tcp!Recv
    <3>2. t_queued' \in 0 .. MaxQueued
      BY <1>0, <1>2, <2>3 DEF Tcp!Recv, TcpTyped
    <3>3. QED BY <1>2, <2>3, <3>1, <3>2 DEF Tcp!Recv, TcpTyped
  <2>4. CASE Tcp!Send
    <3>1. PICK n \in 0 .. Len(t_out) : t_out' = SubSeq(t_out, 1, n)
      BY <2>4 DEF Tcp!Send
    <3>2. t_out' \in Seq(Characters \cup {"newline", "received"})
      BY <1>2, <3>1 DEF TcpTyped
    <3>3. t_dirty' \in BOOLEAN
      BY <2>4 DEF Tcp!Send
    <3>4. QED BY <1>0, <1>2, <2>4, <3>2, <3>3 DEF TcpTyped, Tcp!Send
  <2>5. QED BY <1>2, <2>1, <2>2, <2>3, <2>4 DEF Tcp!Next, Tcp!Server, Tcp!Keyboard
<1>3. TcpTyped /\ UNCHANGED tcpVars => TcpTyped'
  BY DEF tcpVars, TcpTyped
<1>4. TcpInv /\ TcpInv' /\ TcpTyped /\ [Next]_vars => TcpTyped'
  BY <1>2, <1>3, StepsApart
<1> QED BY <1>1, <1>4, ConsoleHolds, Behaviour, PTL

\* What the invariants of the programs on a card do not say of their types.
CardTyped ==
  /\ DOMAIN d_disk \subseteq {Card!TestFile, Card!NestedFile} /\ c_run \in {0, 1}
  /\ Len(c_buf) \in Nat /\ Len(c_buf) <= MaxRoom
  /\ c_verdict \in {"", "passed", "completed", "error"}

LEMMA NothingFits == Len(<<>>) \in Nat /\ Len(<<>>) <= MaxRoom
<1>1. Len(<<>>) = 0
  OBVIOUS
<1>2. QED BY <1>1, DemosAssumption DEF DemosAssumption

LEMMA CardTypedStep == CardInv /\ CardTyped /\ Card!Next => CardTyped'
<1> SUFFICES ASSUME CardInv, CardTyped, Card!Next PROVE CardTyped'
  OBVIOUS
<1>0. CardPlace /\ MaxRoom \in Nat
  BY DemosAssumption DEF CardInv, DemosAssumption
<1>1. CASE Card!OpenFile
  <2>1. Card!Path = CardPath
    BY <1>0, <1>1, CardSteps DEF Card!OpenFile
  <2>2. CardPath \in {Card!TestFile, Card!NestedFile}
    BY DEF CardPath
  <2>3. DOMAIN d_disk' \subseteq DOMAIN d_disk \cup {CardPath}
    BY <1>1, <2>1 DEF Card!OpenFile, Card!Open, Card!fsVars
  <2>4. c_verdict' \in {c_verdict, "error"} /\ c_run' = c_run /\ c_buf' = c_buf
    BY <1>1, Zenon DEF Card!OpenFile, Card!GiveUp
  <2>5. QED BY <2>2, <2>3, <2>4 DEF CardTyped, Card!TestFile, Card!NestedFile
<1>2. CASE Card!WriteFile
  <2>1. d_disk' = d_disk /\ c_run' = c_run /\ c_buf' = c_buf /\ c_verdict' = c_verdict
    BY <1>2, Zenon DEF Card!WriteFile, Card!Write, Card!fsVars
  <2>2. QED BY <2>1 DEF CardTyped, Card!TestFile, Card!NestedFile
<1>3. CASE Card!ReadFile
  <2>1. d_disk' = d_disk /\ c_run' = c_run /\ c_verdict' = c_verdict
    BY <1>3, Zenon DEF Card!ReadFile, Card!Read, Card!fsVars
  <2>2. c_buf' = c_buf \/ c_buf' = Card!NextCells(MaxRoom)
    BY <1>3, Zenon DEF Card!ReadFile
  <2>3. Len(Card!NextCells(MaxRoom)) \in 0 .. MaxRoom
    <3>1. c_phase # "open"
      BY <1>3 DEF Card!ReadFile
    <3>7. PICK data \in Seq(CardCells) : \E pos \in 0 .. Len(data) : CardOpen(data, pos)
      BY <3>1 DEF CardInv
    <3>2. PICK pos \in 0 .. Len(data) : CardOpen(data, pos)
      BY <3>7
    <3> DEFINE end == IF pos + MaxRoom < Len(data) THEN pos + MaxRoom ELSE Len(data)
    <3>3. Card!NextCells(MaxRoom) = SubSeq(data, pos + 1, end)
      BY <3>2 DEF CardOpen, Card!NextCells
    <3>4. end \in pos .. Len(data) /\ end - pos \in 0 .. MaxRoom
      BY <1>0
    <3> HIDE DEF end
    <3>5. Len(SubSeq(data, pos + 1, end)) = end - pos
      BY <3>4, NextPart
    <3>6. QED BY <3>3, <3>4, <3>5
  <2>4. Len(c_buf') \in Nat /\ Len(c_buf') <= MaxRoom
    <3>1. Len(c_buf) \in Nat /\ Len(c_buf) <= MaxRoom
      BY DEF CardTyped
    <3>2. /\ Len(Card!NextCells(MaxRoom)) \in Nat
          /\ Len(Card!NextCells(MaxRoom)) <= MaxRoom
      BY <1>0, <2>3
    <3>3. QED BY Zenon, <2>2, <3>1, <3>2
  <2>5. QED BY <2>1, <2>4 DEF CardTyped, Card!TestFile, Card!NestedFile
<1>4. CASE Card!CloseFile \/ Card!CloseAfterError \/ Card!Verify \/ Card!SetUp
  <2>1. c_run' = c_run /\ c_buf' = c_buf
    BY <1>4, Zenon DEF Card!CloseFile, Card!CloseAfterError, Card!Verify, Card!SetUp
  <2>2. c_verdict' \in {c_verdict, "passed", "completed", "error"}
    BY <1>4, Zenon DEF Card!CloseFile, Card!CloseAfterError, Card!Verify, Card!SetUp, Card!GiveUp
  <2>3. DOMAIN d_disk' = DOMAIN d_disk
    BY <1>4 DEF Card!CloseFile, Card!CloseAfterError, Card!Verify, Card!SetUp, Card!fsVars,
      Card!Close, Card!CloseFails, Card!Stored
  <2>4. QED BY <2>1, <2>2, <2>3 DEF CardTyped, Card!TestFile, Card!NestedFile
<1>5. CASE Card!Reset
  <2>1. c_run' = 1 - c_run /\ c_buf' = <<>> /\ c_verdict' = ""
    BY <1>5, Zenon DEF Card!Reset
  <2>2. DOMAIN d_disk' = DOMAIN d_disk
    BY <1>5 DEF Card!Reset, Card!PowerLoss, Card!Stored
  <2>3. Len(c_buf') \in Nat /\ Len(c_buf') <= MaxRoom
    BY Zenon, <2>1, NothingFits
  <2>4. c_run' \in {0, 1}
    <3>1. c_run' = 1 - c_run
      BY Zenon, <2>1
    <3>2. c_run \in {0, 1}
      BY Zenon DEF CardTyped
    <3>3. QED BY <3>1, <3>2
  <2>5. DOMAIN d_disk' \subseteq {Card!TestFile, Card!NestedFile}
    BY <2>2 DEF CardTyped
  <2>6. QED BY <2>1, <2>3, <2>4, <2>5 DEF CardTyped, Card!TestFile, Card!NestedFile
<1>6. QED BY <1>1, <1>2, <1>3, <1>4, <1>5 DEF Card!Next

SpeedTyped ==
  /\ DOMAIN d_disk \subseteq {Speed!TestFile} /\ v_verdict \in {"", "PASSED", "FAILED"}

LEMMA SpeedTypedStep == SpeedTyped /\ Speed!Next => SpeedTyped'
<1> SUFFICES ASSUME SpeedTyped, Speed!Next PROVE SpeedTyped'
  OBVIOUS
<1>1. v_verdict' \in {v_verdict, "", "PASSED", "FAILED"}
  BY Zenon DEF Speed!Next, Speed!SetUp, Speed!Malloc, Speed!OpenToWrite, Speed!WriteChunk,
    Speed!WriteDone, Speed!OpenToRead, Speed!ReadChunk, Speed!ReadDone, Speed!Cleanup,
    Speed!Restart
<1>2. CASE Speed!OpenToWrite \/ Speed!OpenToRead
  <2>1. DOMAIN d_disk' \subseteq DOMAIN d_disk \cup {Speed!TestFile}
    BY <1>2 DEF Speed!OpenToWrite, Speed!OpenToRead, Speed!Open, Speed!fsVars
  <2>2. QED BY <1>1, <2>1 DEF SpeedTyped, Speed!TestFile
<1>3. CASE \/ Speed!SetUp \/ Speed!Malloc("write malloc", "write open")
           \/ Speed!Malloc("read malloc", "read open") \/ Speed!Restart
  <2>1. d_disk' = d_disk
    BY <1>3, Zenon DEF Speed!SetUp, Speed!Malloc, Speed!Restart, Speed!fsVars
  <2>2. QED BY <1>1, <2>1 DEF SpeedTyped, Speed!TestFile
<1>4. CASE Speed!WriteChunk \/ Speed!WriteDone \/ Speed!ReadChunk \/ Speed!ReadDone
  <2>1. d_disk' = d_disk \/ d_disk' = Speed!Stored
    BY <1>4 DEF Speed!WriteChunk, Speed!WriteDone, Speed!ReadChunk, Speed!ReadDone, Speed!Write,
      Speed!Read, Speed!Close, Speed!CloseFails, Speed!fsVars
  <2>2. DOMAIN d_disk' = DOMAIN d_disk
    BY <2>1 DEF Speed!Stored
  <2>3. QED BY <1>1, <2>2 DEF SpeedTyped, Speed!TestFile
<1>5. CASE Speed!Cleanup
  <2>1. DOMAIN d_disk' \subseteq DOMAIN d_disk
    BY <1>5 DEF Speed!Cleanup, Speed!Unlink, Speed!fsVars
  <2>2. QED BY <1>1, <2>1 DEF SpeedTyped, Speed!TestFile
<1>6. QED BY <1>2, <1>3, <1>4, <1>5 DEF Speed!Next

FlashTyped ==
  /\ DOMAIN d_disk \subseteq {LittleFs!Hello, LittleFs!Bin}
  /\ f_mounted \in {"no", "yes", "stuck"} /\ f_failed \in BOOLEAN

LEMMA FlashTypedStep == FlashInv /\ FlashTyped /\ LittleFs!Next => FlashTyped'
<1> SUFFICES ASSUME FlashInv, FlashTyped, LittleFs!Next PROVE FlashTyped'
  OBVIOUS
<1>1. f_mounted' \in {"no", "yes", "stuck"} /\ f_failed' \in BOOLEAN
  BY DEF FlashTyped, LittleFs!Next, LittleFs!Mount, LittleFs!OpenFile, LittleFs!Access,
    LittleFs!CloseFile, LittleFs!Unmount, LittleFs!Reset, LittleFs!GotoOut
<1>2. CASE LittleFs!OpenFile
  <2>1. LittleFs!Call.path \in {LittleFs!Hello, LittleFs!Bin}
    <3>1. f_step \in 1 .. 5
      BY <1>2 DEF LittleFs!OpenFile, LittleFs!InRun, LittleFs!Program, FlashInv, FlashPlace
    <3>2. QED BY <3>1 DEF LittleFs!Call, LittleFs!Program
  <2>2. DOMAIN d_disk' \subseteq DOMAIN d_disk \cup {LittleFs!Call.path}
    BY <1>2 DEF LittleFs!OpenFile, LittleFs!Open, LittleFs!fsVars
  <2>3. QED BY <1>1, <2>1, <2>2 DEF FlashTyped
<1>3. CASE LittleFs!Mount \/ LittleFs!Access \/ LittleFs!CloseFile \/ LittleFs!Unmount
             \/ LittleFs!Reset
  <2>1. d_disk' = d_disk \/ d_disk' = LittleFs!Stored
    BY <1>3 DEF LittleFs!Mount, LittleFs!Access, LittleFs!CloseFile, LittleFs!Unmount,
      LittleFs!Reset, LittleFs!fsVars, LittleFs!Read, LittleFs!Write, LittleFs!Close,
      LittleFs!CloseFails, LittleFs!PowerLoss
  <2>2. DOMAIN d_disk' = DOMAIN d_disk
    BY <2>1 DEF LittleFs!Stored
  <2>3. QED BY <1>1, <2>2 DEF FlashTyped
<1>4. QED BY <1>2, <1>3 DEF LittleFs!Next

StorageTyped ==
  /\ app = "sdcard"  => CardTyped
  /\ app = "speed"   => SpeedTyped
  /\ app = "flashfs" => FlashTyped

LEMMA StorageTypes == Spec => []StorageTyped
<1>1. ASSUME Init PROVE StorageTyped
  <2>0. d_disk = <<>> /\ c_buf = <<>> /\ c_run = 0 /\ c_verdict = ""
    BY <1>1, Zenon DEF Init, Card!Init, Card!FsInit
  <2>1. DOMAIN d_disk = {}
    <3>1. d_disk = <<>>
      BY Zenon, <2>0
    <3>2. QED BY <3>1
  <2>2. CardTyped
    <3>1. Len(c_buf) \in Nat /\ Len(c_buf) <= MaxRoom
      BY Zenon, <2>0, NothingFits
    <3>2. QED BY <2>0, <2>1, <3>1 DEF CardTyped
  <2>3. SpeedTyped
    BY <1>1, <2>1 DEF Init, Speed!Init, SpeedTyped
  <2>4. FlashTyped
    BY <1>1, <2>1 DEF Init, LittleFs!Init, FlashTyped
  <2>5. QED BY <2>2, <2>3, <2>4 DEF StorageTyped
<1>2. StorageInv /\ StorageTyped /\ [Next]_vars => StorageTyped'
  <2> SUFFICES ASSUME StorageInv, StorageTyped, [Next]_vars PROVE StorageTyped'
    OBVIOUS
  <2>1. app = "sdcard" => CardTyped'
    <3>1. CardTyped /\ UNCHANGED <<cardVars, mediumVars>> => CardTyped'
      BY DEF cardVars, mediumVars, CardTyped, Card!TestFile, Card!NestedFile
    <3>2. QED BY <3>1, CardTypedStep, StepsApart DEF StorageInv, StorageTyped
  <2>2. app = "speed" => SpeedTyped'
    <3>1. SpeedTyped /\ UNCHANGED <<speedVars, mediumVars>> => SpeedTyped'
      BY DEF speedVars, mediumVars, SpeedTyped, Speed!TestFile
    <3>2. QED BY <3>1, SpeedTypedStep, StepsApart DEF StorageTyped
  <2>3. app = "flashfs" => FlashTyped'
    <3>1. FlashTyped /\ UNCHANGED <<flashFsVars, mediumVars>> => FlashTyped'
      BY DEF flashFsVars, mediumVars, FlashTyped, LittleFs!Hello, LittleFs!Bin
    <3>2. QED BY <3>1, FlashTypedStep, StepsApart DEF StorageInv, StorageTyped
  <2>4. QED BY <2>1, <2>2, <2>3, StepsApart DEF StorageTyped
<1> QED BY <1>1, <1>2, StorageHolds, Behaviour, PTL

\* The types of all demonstrations: every variable keeps its type, however late the
\* sleeps end, whatever fails and wherever power fails.
THEOREM DemosAreTyped == Spec => []DemosTypeOK
<1>1. Spec => []Work!TypeOK
  <2>1. WorkInv => Work!TypeOK
    BY Zenon DEF WorkInv
  <2>2. QED BY <2>1, WorkInit, WorkStep, Behaviour, PTL
<1>2. /\ EventInv => Event!TypeOK
      /\ MutexInv => Mutex!TypeOK
      /\ KeyInv => Key!TypeOK
      /\ MailboxInv => Mailbox!TypeOK
      /\ SignalInv => Signal!TypeOK
      /\ AllocInv => Alloc!TypeOK
      /\ PipeInv => Pipe!TypeOK
      /\ EchoInv => Echo!TypeOK
      /\ LifoTyped => Lifo!TypeOK
      /\ MsgqTyped => Msgq!TypeOK
  BY Zenon DEF EventInv, MutexInv, KeyInv, MailboxInv, SignalInv, AllocInv, PipeInv, EchoInv,
    LifoTyped, MsgqTyped
<1>3. TcpInv /\ TcpTyped => Tcp!TypeOK
  <2>1. TcpInv => t_sockets \subseteq {"serv", "client"}
    BY DEF TcpInv
  <2>2. QED BY Zenon, <2>1 DEF TcpInv, TcpTyped, Tcp!TypeOK, Tcp!Cells, Tcp!Newline, Tcp!Received
<1>4. StorageInv /\ StorageTyped =>
        /\ At24!TypeOK
        /\ app = "sdcard"  => Card!TypeOK
        /\ app = "speed"   => Speed!TypeOK
        /\ app = "flashfs" => LittleFs!TypeOK
  <2> SUFFICES ASSUME StorageInv, StorageTyped
               PROVE  /\ At24!TypeOK
                      /\ app = "sdcard"  => Card!TypeOK
                      /\ app = "speed"   => Speed!TypeOK
                      /\ app = "flashfs" => LittleFs!TypeOK
    OBVIOUS
  <2>1. At24!TypeOK
    BY Zenon DEF StorageInv, EepromInv
  <2>2. ASSUME app = "sdcard" PROVE Card!TypeOK
    <3>1. c_step \in 1 .. Len(Card!Program) + 1
      BY <2>2 DEF StorageInv, CardInv, CardPlace, Card!Program
    <3>2. QED BY Zenon, <2>2, <3>1
            DEF StorageInv, StorageTyped, CardInv, CardPlace, CardTyped, Card!TypeOK
  <2>3. ASSUME app = "speed" PROVE Speed!TypeOK
    <3>1. v_heap \in {0, 1}
      BY <2>3 DEF StorageInv, SpeedInv, SpeedPlace
    <3>2. QED BY Zenon, <2>3, <3>1
            DEF StorageInv, StorageTyped, SpeedInv, SpeedPlace, SpeedFlag, SpeedTyped, Speed!TypeOK
  <2>4. ASSUME app = "flashfs" PROVE LittleFs!TypeOK
    <3>1. f_step \in 1 .. LittleFs!Returned
      BY <2>4 DEF StorageInv, FlashInv, FlashPlace, LittleFs!Program, LittleFs!Returned
    <3>2. QED BY Zenon, <2>4, <3>1
            DEF StorageInv, StorageTyped, FlashInv, FlashPlace, FlashTyped, LittleFs!TypeOK
  <2>5. QED BY <2>1, <2>2, <2>3, <2>4
<1> QED BY <1>1, <1>2, <1>3, <1>4, EventHolds, MutexHolds, KeyHolds, MailboxHolds, SignalHolds,
      AllocHolds, PoolTyped, PipeHolds, EchoHolds, ZbusTyped, LifoTypes, MsgqTypes,
      ConsoleHolds, TcpTypes, StorageHolds, StorageTypes, PTL DEF DemosTypeOK
=============================================================================
