---------------------------- MODULE OtaRx_proofs ----------------------------
(* Theorems about OtaRx, for any size of rx_buf, any frames and any modes.  *)
EXTENDS OtaRx, SequencesExt, SequenceTheorems, Induction, TLAPS

-----------------------------------------------------------------------------
(* The receive path stays inside rx_buf, wherever the interrupt comes.      *)

\* What TypeOK needs besides itself: the UART works within its buffer, and what the
\* main loop takes off rx_len was in it.
InBuffer ==
  /\ TypeOK
  /\ dma.from <= dma.pos /\ dma.pos <= dma.end
  /\ mode \in Modes /\ sent <= Len(Frames)
  /\ pc \in {"loop", "parse"} => processed <= rx_len
  /\ pc \in {"move", "read"} => processed < rx_len
  /\ pc = "write" => processed < tmp

LEMMA Constants ==
  /\ RxSize \in Nat /\ RxSize > 0 /\ Header \in Nat /\ Tail0 \in Nat
  /\ Frames \in Seq(Seq(Nat)) /\ Len(Frames) \in Nat
  /\ StructSize = 5 /\ AnswerSize = 4
  /\ \A m \in Modes : /\ m.frames \in Nat /\ m.frames <= Len(Frames)
                      /\ m.window \in Nat \ {0} /\ m.noise \in Nat
                      /\ m.whole \in BOOLEAN /\ m.preempt \in BOOLEAN
  BY RxAssumption DEF StructSize, AnswerSize, HdrSize, MaxData, TailSize, Mode

\* The interrupt's memcpy reads and writes rx_buf only.
LEMMA CopiedFacts ==
  ASSUME rx_buf \in [Cells -> Nat],
         NEW dst \in Nat, NEW src \in Nat, NEW n \in Nat,
         dst + n <= RxSize, src + n <= RxSize, NEW b \in Copied(dst, src, n)
  PROVE  b \in [Cells -> Nat]
<1>1. RxSize \in Nat
  BY Constants
<1>2. ASSUME NEW i \in Cells, i \in dst .. dst + n - 1
      PROVE  rx_buf[src + (i - dst)] \in Nat
  <2>1. src + (i - dst) \in Cells
    BY <1>1, <1>2 DEF Cells
  <2>2. QED BY <2>1
<1>3. ASSUME NEW i \in Cells, i \in dst .. dst + n - 1, src < dst, dst < src + n
      PROVE  rx_buf[src + ((i - dst) % (dst - src))] \in Nat
  <2>1. \A a \in Nat, d \in Nat \ {0} : a % d \in 0 .. d - 1
    OBVIOUS
  <2>2. i - dst \in Nat /\ dst - src \in Nat \ {0}
    BY <1>1, <1>3 DEF Cells
  <2>3. (i - dst) % (dst - src) \in 0 .. dst - src - 1
    BY <2>1, <2>2
  <2>4. \A m \in 0 .. dst - src - 1 : src + m \in Cells
    BY <1>1, <1>3 DEF Cells
  <2>5. QED BY <2>3, <2>4
<1>4. QED BY <1>2, <1>3 DEF Copied

\* The interrupt appends n bytes, or none.
LEMMA RxRdyFacts ==
  ASSUME InBuffer, NEW n \in Nat, dma.from + n <= RxSize, RxRdy(n)
  PROVE  /\ rx_buf' \in [Cells -> Nat] /\ rx_len' \in 0 .. RxSize
         /\ rx_len' >= rx_len
<1>1. /\ rx_buf \in [Cells -> Nat] /\ rx_len \in Nat /\ rx_len <= RxSize
      /\ dma.from \in Nat /\ RxSize \in Nat
  BY Constants DEF InBuffer, TypeOK
<1>2. CASE rx_len + n <= RxSize
  BY <1>1, <1>2, CopiedFacts DEF RxRdy
<1>3. CASE ~(rx_len + n <= RxSize)
  BY <1>1, <1>3 DEF RxRdy
<1>4. QED BY <1>2, <1>3

LEMMA InitInBuffer == Init => InBuffer
<1> SUFFICES ASSUME Init PROVE InBuffer
  OBVIOUS
<1>1. line \in Seq(Nat)
  BY Constants DEF Init
<1>2. resp \in [1 .. StructSize -> Nat]
  BY Constants DEF Init
<1>3. QED BY <1>1, <1>2, Constants DEF Init, InBuffer, TypeOK, Cells

\* The frame that is found lies within the first rx_len bytes.
LEMMA ParseFacts ==
  ASSUME InBuffer, ParseFound
  PROVE  /\ processed' \in Nat /\ processed' <= rx_len
         /\ executed' \in Seq(Seq(Nat))
<1>1. /\ pc = "parse" /\ processed \in Nat /\ rx_len \in Nat
      /\ processed <= rx_len /\ rx_len <= RxSize /\ RxSize \in Nat
      /\ rx_buf \in [Cells -> Nat] /\ executed \in Seq(Seq(Nat))
  BY Constants DEF ParseFound, InBuffer, TypeOK
<1>2. PICK p \in Marks(processed, rx_len - processed) :
         LET at == processed + p IN
            /\ p + TotalLen(at) <= rx_len - processed
            /\ executed' = Append(executed,
                             [i \in 1 .. TotalLen(at) |-> rx_buf[at + i - 1]])
            /\ processed' = processed + TotalLen(at)
  BY DEF ParseFound
<1>3. p \in Nat /\ p <= rx_len - processed - 2
  BY <1>1 DEF Marks, MinSize, HdrSize
<1>4. PICK at \in Nat : at = processed + p
  BY <1>1, <1>3
<1>5. at + 1 \in Cells
  BY <1>1, <1>3, <1>4 DEF Cells
<1>6. PICK k \in Nat : k = TotalLen(at)
  BY <1>1, <1>5 DEF TotalLen, HdrSize, TailSize
<1>7. /\ p + k <= rx_len - processed
      /\ executed' = Append(executed, [i \in 1 .. k |-> rx_buf[at + i - 1]])
      /\ processed' = processed + k
  BY <1>2, <1>4, <1>6
<1>8. \A i \in 1 .. k : rx_buf[at + i - 1] \in Nat
  <2>1. \A i \in 1 .. k : at + i - 1 \in Cells
    BY <1>1, <1>3, <1>4, <1>7 DEF Cells
  <2>2. QED BY <1>1, <2>1
<1>9. [i \in 1 .. k |-> rx_buf[at + i - 1]] \in Seq(Nat)
  BY <1>8
<1>10. QED BY <1>1, <1>3, <1>7, <1>9

LEMMA InBufferStep == InBuffer /\ [Next]_vars => InBuffer'
<1> SUFFICES ASSUME InBuffer, [Next]_vars PROVE InBuffer'
  OBVIOUS
<1>0. /\ TypeOK /\ RxSize \in Nat /\ mode \in Modes
      /\ dma.pos \in Nat /\ dma.end \in Nat /\ dma.from \in Nat /\ dma.end <= RxSize
      /\ rx_len \in Nat /\ rx_len <= RxSize /\ processed \in Nat /\ tmp \in Nat
  BY Constants DEF InBuffer, TypeOK
<1> USE DEF uartVars, loopVars, txVars
<1>1. CASE Send
  <2>1. mode.frames <= Len(Frames) /\ mode.frames \in Nat /\ sent < mode.frames
    BY <1>0, <1>1, Constants DEF Send
  <2>2. sent \in Nat /\ Len(Frames) \in Nat
    BY <1>0, Constants DEF TypeOK
  <2>3. sent + 1 \in 1 .. Len(Frames)
    BY <2>1, <2>2
  <2>4. Frames[sent + 1] \in Seq(Nat)
    BY <2>3, Constants
  <2>5. line' \in Seq(Nat)
    BY <1>0, <1>1, <2>4, ConcatProperties DEF Send, TypeOK
  <2>6. QED BY SMTT(30), <1>0, <1>1, <2>2, <2>3, <2>5 DEF Send, InBuffer, TypeOK
<1>2. CASE DmaByte
  <2>1. line \in Seq(Nat) /\ line # <<>>
    BY <1>0, <1>2 DEF DmaByte, TypeOK
  <2>2. Head(line) \in Nat /\ line' \in Seq(Nat)
    BY <1>2, <2>1 DEF DmaByte
  <2>3. rx_buf' \in [Cells -> Nat]
    BY <1>0, <1>2, <2>2 DEF DmaByte, TypeOK
  <2>4. /\ dma' \in [pos : 0 .. RxSize, end : 0 .. RxSize, from : 0 .. RxSize]
        /\ dma'.from <= dma'.pos /\ dma'.pos <= dma'.end
    <3>1. /\ dma \in [pos : 0 .. RxSize, end : 0 .. RxSize, from : 0 .. RxSize]
          /\ dma.from <= dma.pos /\ dma.pos < dma.end
          /\ dma' = [dma EXCEPT !.pos = dma.pos + 1]
      BY <1>0, <1>2 DEF DmaByte, InBuffer, TypeOK
    <3>2. dma'.pos = dma.pos + 1 /\ dma'.end = dma.end /\ dma'.from = dma.from
      BY <3>1
    <3>3. dma.pos + 1 \in 0 .. RxSize
      BY <1>0, <3>1
    <3>4. QED BY <1>0, <3>1, <3>2, <3>3
  <2>5. QED BY <1>2, <2>2, <2>3, <2>4 DEF DmaByte, InBuffer, TypeOK
<1>3. ASSUME UNCHANGED <<line, sent, loopVars, executed, mode, txVars>>,
             rx_buf' \in [Cells -> Nat], rx_len' \in 0 .. RxSize, rx_len' >= rx_len,
             dma' \in [pos : 0 .. RxSize, end : 0 .. RxSize, from : 0 .. RxSize],
             dma'.from <= dma'.pos, dma'.pos <= dma'.end,
             nextBuf' \in (0 .. RxSize) \X (0 .. RxSize)
      PROVE  InBuffer'
  <2>1. rx_len' \in Nat
    BY <1>0, <1>3
  <2>2. TypeOK'
    BY <1>3 DEF InBuffer, TypeOK
  <2>3. QED BY <1>0, <1>3, <2>1, <2>2 DEF InBuffer
<1>4. CASE IdleInterrupt
  <2>1. /\ dma.pos - dma.from \in Nat /\ dma.from + (dma.pos - dma.from) <= RxSize
        /\ RxRdy(dma.pos - dma.from)
    BY <1>0, <1>4 DEF IdleInterrupt
  <2>2. /\ dma' \in [pos : 0 .. RxSize, end : 0 .. RxSize, from : 0 .. RxSize]
        /\ dma'.from <= dma'.pos /\ dma'.pos <= dma'.end
    <3>1. /\ dma \in [pos : 0 .. RxSize, end : 0 .. RxSize, from : 0 .. RxSize]
          /\ dma.pos < dma.end /\ dma' = [dma EXCEPT !.from = dma.pos]
      BY <1>0, <1>4 DEF IdleInterrupt, TypeOK
    <3>2. dma'.pos = dma.pos /\ dma'.end = dma.end /\ dma'.from = dma.pos
      BY <3>1
    <3>3. QED BY <1>0, <3>1, <3>2
  <2>3. rx_buf' \in [Cells -> Nat] /\ rx_len' \in 0 .. RxSize /\ rx_len' >= rx_len
    BY <2>1, RxRdyFacts
  <2>4. nextBuf' \in (0 .. RxSize) \X (0 .. RxSize)
    BY <1>0, <1>4 DEF IdleInterrupt, TypeOK
  <2>5. QED BY <1>3, <1>4, <2>2, <2>3, <2>4 DEF IdleInterrupt
<1>5. CASE FullInterrupt
  <2>1. /\ dma.end - dma.from \in Nat /\ dma.from + (dma.end - dma.from) <= RxSize
        /\ RxRdy(dma.end - dma.from)
    BY <1>0, <1>5 DEF FullInterrupt
  <2>2. rx_buf' \in [Cells -> Nat] /\ rx_len' \in 0 .. RxSize /\ rx_len' >= rx_len
    BY <2>1, RxRdyFacts
  <2>3. nextBuf \in (0 .. RxSize) \X (0 .. RxSize)
    BY <1>0 DEF TypeOK
  <2>4. nextBuf' \in (0 .. RxSize) \X (0 .. RxSize)
    <3>1. nextBuf' = <<rx_len', RxSize>> \/ nextBuf' = nextBuf
      BY <1>5 DEF FullInterrupt
    <3>2. RxSize \in 0 .. RxSize
      BY <1>0
    <3>3. QED BY <2>2, <2>3, <3>1, <3>2
  <2>5. /\ dma' \in [pos : 0 .. RxSize, end : 0 .. RxSize, from : 0 .. RxSize]
        /\ dma'.from <= dma'.pos /\ dma'.pos <= dma'.end
    <3>1. CASE nextBuf[1] < nextBuf[2]
      <4>1. /\ dma' = [pos |-> nextBuf[1], end |-> nextBuf[2], from |-> nextBuf[1]]
            /\ nextBuf[1] \in 0 .. RxSize /\ nextBuf[2] \in 0 .. RxSize
        BY <1>5, <2>3, <3>1 DEF FullInterrupt
      <4>2. QED BY <1>0, <3>1, <4>1
    <3>2. CASE ~(nextBuf[1] < nextBuf[2])
      <4>1. /\ dma \in [pos : 0 .. RxSize, end : 0 .. RxSize, from : 0 .. RxSize]
            /\ dma.pos = dma.end /\ dma' = [dma EXCEPT !.from = dma.end]
        BY <1>0, <1>5, <3>2 DEF FullInterrupt, TypeOK
      <4>2. dma'.pos = dma.pos /\ dma'.end = dma.end /\ dma'.from = dma.end
        BY <4>1
      <4>3. QED BY <1>0, <4>1, <4>2
    <3>3. QED BY <3>1, <3>2
  <2>6. QED BY <1>3, <1>5, <2>2, <2>4, <2>5 DEF FullInterrupt
<1>6. CASE TxByte
  <2>1. tx \in 1 .. 4 /\ resp \in [1 .. 5 -> Nat] /\ reply \in Seq(Nat)
    BY <1>0, <1>6, Constants DEF TxByte, TypeOK
  <2>2. reply' \in Seq(Nat) /\ tx' \in 0 .. 4
    BY <1>6, <2>1, Constants DEF TxByte
  <2>3. QED BY <1>6, <2>2, Constants DEF TxByte, InBuffer, TypeOK
<1>7. CASE Wake \/ LoopTest \/ TrimTest \/ EmptyTest
  <2>1. CASE Wake
    BY <1>0, <2>1 DEF Wake, Goto, InBuffer, TypeOK
  <2>2. CASE LoopTest
    BY <1>0, <2>2 DEF LoopTest, Goto, InBuffer, TypeOK
  <2>3. CASE TrimTest
    BY <1>0, <2>3 DEF TrimTest, Goto, InBuffer, TypeOK
  <2>4. CASE EmptyTest
    BY <1>0, <2>4 DEF EmptyTest, Goto, InBuffer, TypeOK
  <2>5. QED BY <1>7, <2>1, <2>2, <2>3, <2>4
<1>8. CASE ParseFound
  <2>1. processed' \in Nat /\ processed' <= rx_len /\ executed' \in Seq(Seq(Nat))
    BY <1>8, ParseFacts
  <2>2. /\ pc' = "loop" /\ tx' = (IF tx = 0 THEN 1 ELSE tx)
        /\ resp' = [resp EXCEPT ![1] = Header, ![2] = 1, ![3] = Len(executed'),
                                ![StructSize] = Tail0]
        /\ UNCHANGED <<rx_buf, rx_len, uartVars, sent, tmp, reply>>
    BY <1>8 DEF ParseFound, SendResponse, Goto
  <2>3. resp' \in [1 .. StructSize -> Nat]
    <3>1. Len(executed') \in Nat
      BY <2>1
    <3>2. QED BY <1>0, <2>2, <3>1, Constants DEF TypeOK
  <2>4. tx' \in 0 .. AnswerSize
    BY <1>0, <2>2, Constants DEF TypeOK
  <2>5. processed' \in 0 .. RxSize
    BY <1>0, <2>1
  <2>6. QED BY <1>0, <2>1, <2>2, <2>3, <2>4, <2>5 DEF InBuffer, TypeOK
<1>9. CASE ParseNone
  BY <1>0, <1>9 DEF ParseNone, Goto, InBuffer, TypeOK
<1>10. CASE Move
  <2>1. rx_buf' \in [Cells -> Nat]
    <3>1. processed < rx_len
      BY <1>10 DEF Move, InBuffer
    <3>2. \A i \in Cells : i < rx_len - processed => processed + i \in Cells
      BY <1>0, <3>1 DEF Cells
    <3>3. QED BY <1>0, <1>10, <3>2 DEF Move, TypeOK
  <2>2. QED BY <1>0, <1>10, <2>1 DEF Move, Goto, InBuffer, TypeOK
<1>11. CASE SubtractRead
  BY <1>0, <1>11 DEF SubtractRead, Goto, InBuffer, TypeOK
<1>12. CASE SubtractWrite
  <2>1. processed < tmp /\ tmp <= RxSize
    BY <1>0, <1>12 DEF SubtractWrite, InBuffer, TypeOK
  <2>2. rx_len' \in 0 .. RxSize
    BY <1>0, <1>12, <2>1 DEF SubtractWrite
  <2>3. QED BY <1>0, <1>12, <2>2 DEF SubtractWrite, Goto, InBuffer, TypeOK
<1>13. CASE Zero
  BY <1>0, <1>13 DEF Zero, Goto, InBuffer, TypeOK
<1>14. CASE UNCHANGED vars
  BY <1>0, <1>14 DEF vars, InBuffer, TypeOK
<1>15. QED
  BY <1>1, <1>2, <1>4, <1>5, <1>6, <1>7, <1>8, <1>9, <1>10, <1>11, <1>12, <1>13, <1>14
     DEF Next, MainLoop

\* Wherever the interrupt comes, in whatever pieces the bytes, and with any garbage:
\* rx_len stays within rx_buf, and neither the UART, the interrupt's memcpy nor the
\* parser leaves it.
THEOREM ReceiveInBuffer == Spec => []InBuffer
<1>1. QED BY InitInBuffer, InBufferStep, PTL DEF Spec

THEOREM ReceiveTypes == Spec => []TypeOK
<1>1. InBuffer => TypeOK
  BY DEF InBuffer
<1>2. QED BY <1>1, ReceiveInBuffer, PTL

-----------------------------------------------------------------------------
(* What the receive path of OtaRx does with the bytes, for any frames that *)
(* fit rx_buf once, cut into any pieces, while interrupts come in the      *)
(* sleep only and nothing disturbs the line: every frame is executed as it *)
(* was sent, in order, once, and a host that waits for its answers gets    *)
(* them whole.  (Behind the first lap this is false: see the run rx_wrap.) *)

\* A mode in which interrupts come in the sleep only and nothing disturbs the line.
Clean(m) == ~m.preempt /\ m.noise = 0

\* A frame begins with the mark and is as long as its second byte says.
WellFormed ==
  \A n \in 1 .. Len(Frames) :
    /\ Len(Frames[n]) >= HdrSize + TailSize
    /\ Frames[n][1] = Header
    /\ Len(Frames[n]) = HdrSize + Frames[n][2] + TailSize

\* The frames sent in a clean mode fit rx_buf once.
OneLap ==
  /\ WellFormed
  /\ \A m \in Modes : Clean(m) => Len(Concat(SubSeq(Frames, 1, m.frames))) <= RxSize

-----------------------------------------------------------------------------
(* Frames one behind the other. *)

\* upto[n] is the first n of L sequences of X, one behind the other.
Joins(upto, L, s, X) ==
  /\ upto \in [0 .. L -> X] /\ upto[0] = <<>>
  /\ \A n \in 1 .. L : upto[n] = upto[n - 1] \o s[n]

Closed(X) == <<>> \in X /\ \A a, b \in X : a \o b \in X

Unfolds(g, L, s) == g = [n \in 0 .. L |-> IF n = 0 THEN <<>> ELSE g[n - 1] \o s[n]]

LEMMA JoinRecursion ==
  ASSUME NEW X, Closed(X),
         NEW L \in Nat, NEW s, \A n \in 1 .. L : s[n] \in X,
         NEW h, h = CHOOSE g : Unfolds(g, L, s)
  PROVE  Joins(h, L, s, X)
<1> DEFINE step == [p \in (1 .. L) \X X |-> p[2] \o s[p[1]]]
<1>1. step \in [(1 .. L) \X X -> X] /\ <<>> \in X
  BY DEF Closed
<1>2. PICK f : Recursive(f, X, L, <<>>, step)
  <2> HIDE DEF step
  <2>1. QED BY <1>1, PrimitiveRecursion
<1>3. ASSUME NEW n \in 1 .. L PROVE f[n] = f[n - 1] \o s[n]
  <2>1. <<n, f[n - 1]>> \in (1 .. L) \X X
    BY <1>2 DEF Recursive
  <2>2. QED BY <1>2, <2>1 DEF Recursive
<1>4. Unfolds(f, L, s)
  BY <1>2, <1>3 DEF Unfolds, Recursive
<1>5. Unfolds(h, L, s)
  BY <1>4
<1>6. h[0] = <<>> /\ \A n \in 1 .. L : h[n] = h[n - 1] \o s[n]
  <2>1. \A n \in 0 .. L : h[n] = IF n = 0 THEN <<>> ELSE h[n - 1] \o s[n]
    BY Zenon, <1>5 DEF Unfolds
  <2>2. 0 \in 0 .. L /\ \A n \in 1 .. L : n \in 0 .. L /\ n # 0
    OBVIOUS
  <2>3. QED BY Zenon, <2>1, <2>2
<1> DEFINE T == {n \in Nat : n <= L => h[n] \in X}
<1>7. 0 \in T
  BY <1>1, <1>6
<1>8. ASSUME NEW n \in Nat, n \in T PROVE n + 1 \in T
  <2>1. CASE n + 1 <= L
    <3>1. n + 1 \in 1 .. L /\ (n + 1) - 1 = n
      BY <2>1
    <3>2. h[n + 1] = h[n] \o s[n + 1] /\ s[n + 1] \in X
      BY Zenon, <1>6, <3>1
    <3>3. h[n] \in X
      BY <1>8, <2>1
    <3>4. h[n + 1] \in X
      BY Zenon, <3>2, <3>3 DEF Closed
    <3>5. QED BY <3>4
  <2>2. QED BY <2>1
<1>9. \A n \in Nat : n \in T
  <2> HIDE DEF T
  <2> QED BY <1>7, <1>8, NaturalInduction
<1>10. h = [n \in 0 .. L |-> h[n]]
  BY <1>5 DEF Unfolds
<1>11. \A n \in 0 .. L : h[n] \in X
  BY <1>9
<1>12. QED BY <1>6, <1>10, <1>11 DEF Joins

Joined(f, s) == Joins(f, Len(s), s, Seq(Nat))

LEMMA JoinsExist ==
  ASSUME NEW s \in Seq(Seq(Nat))
  PROVE  \E f : Joined(f, s) /\ f[Len(s)] = Concat(s)
<1>1. Len(s) \in Nat /\ \A n \in 1 .. Len(s) : s[n] \in Seq(Nat)
  OBVIOUS
<1>2. Closed(Seq(Nat))
  BY ConcatProperties DEF Closed
<1>3. PICK h : h = CHOOSE g : Unfolds(g, Len(s), s)
  OBVIOUS
<1>4. Joined(h, s)
  BY <1>1, <1>2, <1>3, JoinRecursion DEF Joined
<1>5. QED BY <1>3, <1>4 DEF Concat, Unfolds

LEMMA JoinsType ==
  ASSUME NEW s \in Seq(Seq(Nat)), NEW f, Joined(f, s)
  PROVE  /\ Len(s) \in Nat /\ f[0] = <<>>
         /\ \A n \in 0 .. Len(s) : f[n] \in Seq(Nat)
         /\ \A n \in 0 .. Len(s) : Len(f[n]) \in Nat
<1>1. f[0] = <<>> /\ \A n \in 0 .. Len(s) : f[n] \in Seq(Nat)
  BY Zenon DEF Joined, Joins
<1>2. \A a \in Seq(Nat) : Len(a) \in Nat
  OBVIOUS
<1>3. Len(s) \in Nat
  OBVIOUS
<1>4. QED BY Zenon, <1>1, <1>2, <1>3

\* c is a with b behind it.
Behind(c, a, b) ==
  /\ a \in Seq(Nat) /\ b \in Seq(Nat) /\ c \in Seq(Nat)
  /\ c = a \o b /\ Len(c) = Len(a) + Len(b)
  /\ \A i \in 1 .. Len(a) : c[i] = a[i]
  /\ \A k \in 1 .. Len(b) : c[Len(a) + k] = b[k]

LEMMA JoinsStep ==
  ASSUME NEW s \in Seq(Seq(Nat)), NEW f, Joined(f, s), NEW n \in 1 .. Len(s)
  PROVE  Behind(f[n], f[n - 1], s[n])
<1>1. f[n] = f[n - 1] \o s[n]
  BY Zenon DEF Joined, Joins
<1>2. PICK a \in Seq(Nat) : a = f[n - 1]
  <2>1. n - 1 \in 0 .. Len(s)
    OBVIOUS
  <2>2. QED BY Zenon, <2>1, JoinsType
<1>3. PICK b \in Seq(Nat) : b = s[n]
  OBVIOUS
<1>4. Behind(a \o b, a, b)
  BY ConcatProperties DEF Behind
<1>5. QED BY Zenon, <1>1, <1>2, <1>3, <1>4

\* There is one such function.
LEMMA JoinsUnique ==
  ASSUME NEW s \in Seq(Seq(Nat)), NEW t \in Seq(Seq(Nat)), NEW f, NEW g,
         Joined(f, s), Joined(g, t), Len(s) <= Len(t),
         \A n \in 1 .. Len(s) : s[n] = t[n]
  PROVE  \A n \in 0 .. Len(s) : f[n] = g[n]
<1> DEFINE Same == {n \in Nat : n <= Len(s) => f[n] = g[n]}
<1>0. \A n \in 1 .. Len(s) : f[n] = f[n - 1] \o s[n]
  BY Zenon DEF Joined, Joins
<1>a. \A n \in 1 .. Len(t) : g[n] = g[n - 1] \o t[n]
  BY Zenon DEF Joined, Joins
<1>1. 0 \in Same
  <2>1. f[0] = g[0]
    BY Zenon, JoinsType
  <2>2. QED BY <2>1
<1>2. ASSUME NEW n \in Nat, n \in Same PROVE n + 1 \in Same
  <2>0. CASE ~(n + 1 <= Len(s))
    BY <2>0
  <2>1. CASE n + 1 <= Len(s)
    <3>1. n + 1 \in 1 .. Len(s) /\ n + 1 \in 1 .. Len(t) /\ (n + 1) - 1 = n
      BY <2>1
    <3>2. f[n + 1] = f[n] \o s[n + 1] /\ g[n + 1] = g[n] \o t[n + 1]
      BY Zenon, <1>0, <1>a, <3>1
    <3>3. f[n] = g[n]
      BY <1>2, <2>1
    <3>4. f[n + 1] = g[n + 1]
      BY Zenon, <3>1, <3>2, <3>3
    <3>5. QED BY <3>4
  <2>2. QED BY <2>0, <2>1
<1>3. \A n \in Nat : n \in Same
  <2> HIDE DEF Same
  <2> QED BY <1>1, <1>2, NaturalInduction
<1>4. QED BY <1>3

\* The first frames of s are joined to what the function has there.
LEMMA ConcatOfFirst ==
  ASSUME NEW s \in Seq(Seq(Nat)), NEW f, Joined(f, s), NEW t \in Seq(Seq(Nat)),
         Len(t) <= Len(s), \A n \in 1 .. Len(t) : t[n] = s[n]
  PROVE  Concat(t) = f[Len(t)]
<1>1. PICK g : Joined(g, t) /\ g[Len(t)] = Concat(t)
  BY Zenon, JoinsExist
<1>2. \A n \in 0 .. Len(t) : g[n] = f[n]
  BY SMTT(30), <1>1, JoinsUnique
<1>3. Len(t) \in 0 .. Len(t)
  OBVIOUS
<1>4. QED BY Zenon, <1>1, <1>2, <1>3

\* What comes first stays in front.
InFront(a, b) == Len(a) <= Len(b) /\ \A i \in 1 .. Len(a) : a[i] = b[i]

LEMMA FrontFacts ==
  ASSUME NEW a \in Seq(Nat), NEW b \in Seq(Nat), NEW c \in Seq(Nat),
         InFront(a, b), InFront(b, c)
  PROVE  InFront(a, c)
<1>1. Len(a) \in Nat /\ Len(b) \in Nat /\ Len(c) \in Nat
  OBVIOUS
<1>2. Len(a) <= Len(b) /\ Len(b) <= Len(c)
  BY DEF InFront
<1>3. ASSUME NEW i \in 1 .. Len(a) PROVE a[i] = c[i]
  <2>1. i \in 1 .. Len(b)
    BY <1>1, <1>2
  <2>2. QED BY Zenon, <2>1 DEF InFront
<1>4. QED BY <1>1, <1>2, <1>3 DEF InFront

LEMMA BehindFront ==
  ASSUME NEW a, NEW b, NEW c, Behind(c, a, b)
  PROVE  InFront(a, c)
<1>1. Len(a) \in Nat /\ Len(b) \in Nat /\ Len(c) = Len(a) + Len(b)
  BY DEF Behind
<1>2. Len(a) <= Len(c)
  BY <1>1
<1>3. QED BY Zenon, <1>2 DEF Behind, InFront

LEMMA JoinsGrow ==
  ASSUME NEW s \in Seq(Seq(Nat)), NEW f, Joined(f, s), NEW m \in 0 .. Len(s)
  PROVE  \A n \in 0 .. m : InFront(f[n], f[m])
<1> DEFINE T == {k \in Nat : k <= Len(s) => \A n \in 0 .. k : InFront(f[n], f[k])}
<1>0. /\ \A n \in 0 .. Len(s) : f[n] \in Seq(Nat)
      /\ \A n \in 0 .. Len(s) : Len(f[n]) \in Nat
      /\ Len(s) \in Nat
  BY Zenon, JoinsType
<1>1. 0 \in T
  <2>1. f[0] \in Seq(Nat) /\ \A n \in 0 .. 0 : n = 0
    BY <1>0
  <2>2. InFront(f[0], f[0])
    BY <2>1 DEF InFront
  <2>3. QED BY <2>1, <2>2
<1>2. ASSUME NEW k \in Nat, k \in T PROVE k + 1 \in T
  <2>1. ASSUME k + 1 <= Len(s), NEW n \in 0 .. k + 1 PROVE InFront(f[n], f[k + 1])
    <3>1. k + 1 \in 1 .. Len(s) /\ (k + 1) - 1 = k /\ k \in 0 .. Len(s) /\ k + 1 \in 0 .. Len(s)
      BY <2>1
    <3>2. Behind(f[k + 1], f[k], s[k + 1])
      <4>1. Behind(f[k + 1], f[(k + 1) - 1], s[k + 1])
        BY <3>1, JoinsStep
      <4>2. QED BY Zenon, <3>1, <4>1
    <3>3. f[k] \in Seq(Nat) /\ f[k + 1] \in Seq(Nat)
      BY Zenon, <3>2 DEF Behind
    <3>4. InFront(f[k], f[k + 1])
      BY <3>2, BehindFront
    <3>5. CASE n <= k
      <4>1. n \in 0 .. k /\ n \in 0 .. Len(s) /\ k <= Len(s)
        BY <2>1, <3>5
      <4>2. InFront(f[n], f[k])
        BY <1>2, <4>1
      <4>3. f[n] \in Seq(Nat)
        BY Zenon, <1>0, <4>1
      <4>4. QED BY Zenon, <3>3, <3>4, <4>2, <4>3, FrontFacts
    <3>6. CASE n = k + 1
      BY <3>3, <3>6 DEF InFront
    <3>7. QED BY <2>1, <3>5, <3>6
  <2>2. QED BY <2>1
<1>3. \A k \in Nat : k \in T
  <2> HIDE DEF T
  <2> QED BY <1>1, <1>2, NaturalInduction
<1>4. QED BY <1>3

\* S is what the host sends, byte by byte; frame n ends before at[n].
Streamed(S, at) ==
  /\ at[0] = 0
  /\ \A n \in 1 .. Len(Frames) :
       /\ at[n] = at[n - 1] + Len(Frames[n])
       /\ \A k \in 1 .. Len(Frames[n]) : S[at[n - 1] + k - 1] = Frames[n][k]

\* S is rx_buf with the frames of a clean mode laid out in it one behind the other.
LaidOut(S, at) ==
  /\ at[0] = 0
  /\ \A n \in 1 .. Len(Frames) : at[n] = at[n - 1] + Len(Frames[n])
  /\ \A m \in Modes : Clean(m) => \A n \in 1 .. m.frames :
       /\ at[n] <= RxSize
       /\ \A k \in 1 .. Len(Frames[n]) : S[at[n - 1] + k - 1] = Frames[n][k]

LEMMA FirstOf ==
  ASSUME NEW X, NEW s \in Seq(X), NEW n \in 0 .. Len(s)
  PROVE  /\ SubSeq(s, 1, n) \in Seq(X) /\ Len(SubSeq(s, 1, n)) = n
         /\ \A i \in 1 .. n : SubSeq(s, 1, n)[i] = s[i]
  OBVIOUS

\* A stream, and the function that joins its frames.
Stream(S, at, f) ==
  /\ S \in [Nat -> Nat] /\ at \in [0 .. Len(Frames) -> Nat]
  /\ Streamed(S, at) /\ Joined(f, Frames)
  /\ \A n \in 0 .. Len(Frames) : at[n] = Len(f[n])

LEMMA StreamExists == \E S, at, f : Stream(S, at, f)
<1>1. Frames \in Seq(Seq(Nat)) /\ Len(Frames) \in Nat
  BY Constants
<1>2. PICK f : Joined(f, Frames)
  BY Zenon, <1>1, JoinsExist
<1>3. \A n \in 0 .. Len(Frames) : f[n] \in Seq(Nat) /\ Len(f[n]) \in Nat
  BY Zenon, <1>1, <1>2, JoinsType
<1>4. PICK all \in Seq(Nat) : all = f[Len(Frames)]
  <2>1. Len(Frames) \in 0 .. Len(Frames)
    BY <1>1
  <2>2. QED BY Zenon, <1>3, <2>1
<1>5. PICK at : at = [n \in 0 .. Len(Frames) |-> Len(f[n])]
  OBVIOUS
<1>6. PICK S : S = [i \in Nat |-> IF i < Len(all) THEN all[i + 1] ELSE 0]
  OBVIOUS
<1>7. at \in [0 .. Len(Frames) -> Nat] /\ \A n \in 0 .. Len(Frames) : at[n] = Len(f[n])
  BY Zenon, <1>3, <1>5
<1>8. S \in [Nat -> Nat]
  <2>1. \A i \in Nat : i < Len(all) => i + 1 \in 1 .. Len(all)
    BY <1>1
  <2>2. QED BY <1>6, <2>1
<1>9. at[0] = 0
  <2>1. f[0] = <<>> /\ 0 \in 0 .. Len(Frames)
    BY <1>1, <1>2, JoinsType
  <2>2. Len(<<>>) = 0
    OBVIOUS
  <2>3. QED BY Zenon, <1>7, <2>1, <2>2
<1>10. ASSUME NEW n \in 1 .. Len(Frames)
       PROVE  /\ at[n] = at[n - 1] + Len(Frames[n])
              /\ \A k \in 1 .. Len(Frames[n]) : f[n][at[n - 1] + k] = Frames[n][k]
  <2>1. Behind(f[n], f[n - 1], Frames[n])
    BY <1>1, <1>2, JoinsStep
  <2>2. at[n] = Len(f[n]) /\ at[n - 1] = Len(f[n - 1])
    <3>1. n \in 0 .. Len(Frames) /\ n - 1 \in 0 .. Len(Frames)
      BY <1>1
    <3>2. QED BY Zenon, <1>7, <3>1
  <2>3. QED BY Zenon, <2>1, <2>2 DEF Behind
<1>11. ASSUME NEW n \in 1 .. Len(Frames), NEW k \in 1 .. Len(Frames[n])
       PROVE  S[at[n - 1] + k - 1] = Frames[n][k]
  <2>1. /\ n \in 0 .. Len(Frames) /\ n - 1 \in 0 .. Len(Frames)
        /\ Len(Frames) \in 0 .. Len(Frames)
    BY <1>1
  <2>2. InFront(f[n], all)
    BY <1>1, <1>2, <1>4, <2>1, JoinsGrow
  <2>3. PICK a \in Nat, b \in Nat, l \in Nat :
          a = at[n - 1] /\ b = at[n] /\ l = Len(Frames[n])
    <3>1. Len(Frames[n]) \in Nat
      BY <1>1
    <3>2. QED BY <1>7, <2>1, <3>1
  <2>4. b = a + l /\ f[n][a + k] = Frames[n][k] /\ k \in 1 .. l
    BY Zenon, <1>10, <1>11, <2>3
  <2>5. b = Len(f[n])
    BY Zenon, <1>7, <2>1, <2>3
  <2>6. PICK i \in Nat : i = a + k
    BY <2>4
  <2>7. i \in 1 .. b
    BY <2>4, <2>6
  <2>8. f[n][i] = all[i] /\ b <= Len(all)
    BY Zenon, <2>2, <2>5, <2>7 DEF InFront
  <2>9. i - 1 \in Nat /\ i - 1 < Len(all) /\ (i - 1) + 1 = i /\ a + k - 1 = i - 1
    <3>1. a + k - 1 = i - 1
      BY <2>4, <2>6
    <3>2. b <= Len(all)
      BY Zenon, <2>8
    <3>3. Len(all) \in Nat
      BY <1>4
    <3>4. QED BY <2>7, <3>1, <3>2, <3>3
  <2>10. S[i - 1] = all[i]
    BY <1>6, <2>9
  <2>11. QED BY Zenon, <2>3, <2>4, <2>6, <2>8, <2>9, <2>10
<1>12. Streamed(S, at)
  BY Zenon, <1>9, <1>10, <1>11 DEF Streamed
<1>13. Stream(S, at, f)
  BY Zenon, <1>2, <1>7, <1>8, <1>12 DEF Stream
<1>14. QED BY <1>13

\* The frames of a clean mode can be laid out in rx_buf.
LEMMA LayoutExists ==
  ASSUME OneLap
  PROVE  \E S \in [Cells -> Nat], at \in [0 .. Len(Frames) -> Nat] : LaidOut(S, at)
<1>1. Frames \in Seq(Seq(Nat)) /\ Len(Frames) \in Nat /\ RxSize \in Nat
  BY Constants
<1>2. PICK G, at, f : Stream(G, at, f)
  BY StreamExists
<1>3. Joined(f, Frames)
  BY Zenon, <1>2 DEF Stream
<1>4. PICK S : S = [i \in Cells |-> G[i]]
  OBVIOUS
<1>5. S \in [Cells -> Nat]
  <2>1. \A i \in Cells : i \in Nat
    BY <1>1 DEF Cells
  <2>2. QED BY <1>2, <1>4, <2>1 DEF Stream
<1>6. ASSUME NEW m \in Modes, Clean(m), NEW n \in 1 .. m.frames
      PROVE  /\ at[n] <= RxSize
             /\ \A k \in 1 .. Len(Frames[n]) : S[at[n - 1] + k - 1] = Frames[n][k]
  <2>1. /\ m.frames \in 0 .. Len(Frames) /\ n \in 1 .. Len(Frames) /\ n \in 0 .. m.frames
        /\ n \in 0 .. Len(Frames) /\ n - 1 \in 0 .. Len(Frames)
    BY <1>1, <1>6, Constants
  <2>2. Concat(SubSeq(Frames, 1, m.frames)) = f[m.frames]
    <3>1. PICK t : t = SubSeq(Frames, 1, m.frames)
      OBVIOUS
    <3>2. /\ t \in Seq(Seq(Nat)) /\ Len(t) = m.frames
          /\ \A i \in 1 .. m.frames : t[i] = Frames[i]
      BY Zenon, <1>1, <2>1, <3>1, FirstOf
    <3>3. Len(t) <= Len(Frames)
      BY <1>1, <2>1, <3>2
    <3>4. Concat(t) = f[Len(t)]
      BY Zenon, <1>1, <1>3, <3>2, <3>3, ConcatOfFirst
    <3>5. QED BY Zenon, <3>1, <3>2, <3>4
  <2>3. Len(f[m.frames]) <= RxSize
    BY Zenon, <1>6, <2>2 DEF OneLap
  <2>4. InFront(f[n], f[m.frames])
    BY <1>1, <1>2, <2>1, JoinsGrow DEF Stream
  <2>5. PICK x \in Nat, y \in Nat : x = at[n] /\ y = at[m.frames]
    BY <1>2, <2>1 DEF Stream
  <2>6. x = Len(f[n]) /\ y = Len(f[m.frames])
    BY Zenon, <1>2, <2>1, <2>5 DEF Stream
  <2>7. x <= RxSize
    <3>1. x <= y /\ y <= RxSize
      BY Zenon, <2>3, <2>4, <2>6 DEF InFront
    <3>2. QED BY <1>1, <3>1
  <2>8. ASSUME NEW k \in 1 .. Len(Frames[n])
        PROVE  S[at[n - 1] + k - 1] = Frames[n][k]
    <3>1. PICK a \in Nat, l \in Nat : a = at[n - 1] /\ l = Len(Frames[n])
      <4>1. Len(Frames[n]) \in Nat
        BY <1>1, <2>1
      <4>2. QED BY <1>2, <2>1, <4>1 DEF Stream
    <3>2. x = a + l /\ G[a + k - 1] = Frames[n][k]
      BY Zenon, <1>2, <2>1, <2>5, <2>8, <3>1 DEF Stream, Streamed
    <3>3. a + k - 1 \in Cells
      <4>1. k \in 1 .. l /\ RxSize \in Nat
        BY Zenon, <1>1, <2>8, <3>1
      <4>2. x = a + l
        BY Zenon, <3>2
      <4>3. QED BY SMTT(30), <2>7, <4>1, <4>2 DEF Cells
    <3>4. QED BY Zenon, <1>4, <3>1, <3>2, <3>3
  <2>9. QED BY Zenon, <2>5, <2>7, <2>8
<1>7. LaidOut(S, at)
  BY Zenon, <1>2, <1>6 DEF Stream, Streamed, LaidOut
<1>8. QED BY Zenon, <1>2, <1>5, <1>7 DEF Stream

-----------------------------------------------------------------------------
(* The invariant. *)

\* Once rx_buf is full the UART goes on at its beginning.
Lapped == nextBuf # <<0, RxSize>>
From   == IF Lapped THEN RxSize ELSE dma.from
Pos    == IF Lapped THEN RxSize ELSE dma.pos

\* What has been appended and not been parsed: Held bytes from Base.
Base == IF pc \in {"sleep", "read", "write"} THEN 0 ELSE processed
Held == IF pc = "sleep" THEN rx_len ELSE rx_len - processed

\* The frames executed are the first ones of those sent.
Executing ==
  /\ Len(executed) \in 0 .. sent /\ sent <= mode.frames
  /\ \A i \in 1 .. Len(executed) : executed[i] = Frames[i]

\* The UART writes the frames where they are laid out; the line holds the rest.
Arriving(S, at) ==
  /\ From <= Pos /\ Pos <= at[sent]
  /\ Lapped => dma.from = 0 /\ dma.pos = 0 /\ nextBuf[1] > 0
  /\ ~Lapped => dma.end = RxSize
  /\ Len(line) = at[sent] - Pos
  /\ \A k \in 1 .. Len(line) : line[k] = S[Pos + k - 1]
  /\ \A i \in From .. Pos - 1 : rx_buf[i] = S[i]

\* What has been reported and not been executed is held, in front of the rest.
Holding(S, at) ==
  /\ at[Len(executed)] <= From
  /\ Held = From - at[Len(executed)]
  /\ \A i \in 0 .. Held - 1 : rx_buf[Base + i] = S[at[Len(executed)] + i]
  /\ pc # "sleep" => processed <= at[Len(executed)]
  /\ pc = "write" => tmp = rx_len
  /\ pc = "emptyTest" => processed = 0 \/ processed >= rx_len
  /\ pc = "zero" => processed >= rx_len

LapInv(S, at) ==
  InBuffer /\ Clean(mode) /\ Executing /\ Arriving(S, at) /\ Holding(S, at)

-----------------------------------------------------------------------------
(* The layout. *)

LEMMA Layout ==
  ASSUME NEW S \in [Cells -> Nat], NEW at \in [0 .. Len(Frames) -> Nat],
         WellFormed, LaidOut(S, at), NEW m \in Modes, Clean(m)
  PROVE  /\ \A n \in 0 .. m.frames : at[n] \in Nat /\ at[n] <= RxSize
         /\ \A n \in 1 .. m.frames :
              /\ Frames[n] \in Seq(Nat) /\ Len(Frames[n]) \in Nat
              /\ at[n] = at[n - 1] + Len(Frames[n])
              /\ Len(Frames[n]) >= 3 /\ Frames[n][1] = Header
              /\ Len(Frames[n]) = Frames[n][2] + 3
              /\ \A k \in 1 .. Len(Frames[n]) : S[at[n - 1] + k - 1] = Frames[n][k]
<1>1. m.frames \in Nat /\ m.frames <= Len(Frames) /\ Len(Frames) \in Nat /\ RxSize \in Nat
  BY Constants
<1>2. \A n \in 0 .. m.frames : at[n] \in Nat /\ at[n] <= RxSize
  BY <1>1 DEF LaidOut
<1>3. ASSUME NEW n \in 1 .. m.frames
      PROVE  /\ Frames[n] \in Seq(Nat) /\ Len(Frames[n]) \in Nat
             /\ at[n] = at[n - 1] + Len(Frames[n])
             /\ Len(Frames[n]) >= 3 /\ Frames[n][1] = Header
             /\ Len(Frames[n]) = Frames[n][2] + 3
             /\ \A k \in 1 .. Len(Frames[n]) : S[at[n - 1] + k - 1] = Frames[n][k]
  <2>1. n \in 1 .. Len(Frames)
    BY <1>1, <1>3
  <2>2. Frames[n] \in Seq(Nat) /\ Len(Frames[n]) \in Nat
    BY <2>1, Constants
  <2>3. Len(Frames[n]) >= 3 /\ Frames[n][1] = Header
    BY <2>1, <2>2 DEF WellFormed, HdrSize, TailSize
  <2>4. Frames[n][2] \in Nat
    BY <2>2, <2>3
  <2>5. Len(Frames[n]) = Frames[n][2] + 3
    BY <2>1, <2>4 DEF WellFormed, HdrSize, TailSize
  <2>6. QED BY <2>1, <2>2, <2>3, <2>5 DEF LaidOut
<1>4. QED BY <1>2, <1>3

\* What the invariant says in plain numbers.
LEMMA LapFacts ==
  ASSUME NEW S \in [Cells -> Nat], NEW at \in [0 .. Len(Frames) -> Nat],
         WellFormed, LaidOut(S, at), LapInv(S, at)
  PROVE  /\ RxSize \in Nat /\ RxSize > 0 /\ mode \in Modes /\ mode.frames \in Nat
         /\ mode.frames <= Len(Frames) /\ Len(Frames) \in Nat
         /\ sent \in Nat /\ sent <= mode.frames
         /\ Len(executed) \in Nat /\ Len(executed) <= sent
         /\ at[sent] \in Nat /\ at[sent] <= RxSize /\ at[Len(executed)] \in Nat
         /\ dma.pos \in Nat /\ dma.from \in Nat /\ dma.end \in Nat
         /\ dma.from <= dma.pos /\ dma.pos <= dma.end /\ dma.end <= RxSize
         /\ From \in Nat /\ Pos \in Nat
         /\ rx_len \in Nat /\ rx_len <= RxSize /\ processed \in Nat /\ tmp \in Nat
         /\ Base \in Nat /\ Held \in Nat
         /\ line \in Seq(Nat) /\ Len(line) \in Nat
         /\ executed \in Seq(Seq(Nat)) /\ rx_buf \in [Cells -> Nat]
<1>1. /\ TypeOK /\ mode \in Modes /\ sent \in Nat /\ sent <= mode.frames
      /\ Len(executed) \in Nat /\ Len(executed) <= sent
      /\ mode.frames \in Nat /\ mode.frames <= Len(Frames) /\ Len(Frames) \in Nat
      /\ RxSize \in Nat /\ RxSize > 0
  <2>1. TypeOK /\ mode \in Modes /\ Clean(mode) /\ Executing
    BY DEF LapInv, InBuffer
  <2>2. /\ mode.frames \in Nat /\ mode.frames <= Len(Frames) /\ Len(Frames) \in Nat
        /\ RxSize \in Nat /\ RxSize > 0
    BY <2>1, Constants
  <2>3. sent \in Nat
    BY <2>1, <2>2 DEF TypeOK
  <2>4. QED BY <2>1, <2>2, <2>3 DEF Executing
<1>2. /\ at[sent] \in Nat /\ at[sent] <= RxSize /\ at[Len(executed)] \in Nat
  <2>1. sent \in 0 .. mode.frames /\ Len(executed) \in 0 .. mode.frames
    BY <1>1
  <2>2. QED BY <1>1, <2>1, Layout DEF LapInv
<1>3. /\ dma.pos \in Nat /\ dma.from \in Nat /\ dma.end \in Nat
      /\ dma.from <= dma.pos /\ dma.pos <= dma.end /\ dma.end <= RxSize
      /\ rx_len \in Nat /\ rx_len <= RxSize /\ processed \in Nat /\ tmp \in Nat
      /\ line \in Seq(Nat) /\ Len(line) \in Nat
      /\ executed \in Seq(Seq(Nat)) /\ rx_buf \in [Cells -> Nat]
  BY <1>1 DEF LapInv, InBuffer, TypeOK
<1>4. From \in Nat /\ Pos \in Nat
  BY <1>1, <1>3 DEF From, Pos
<1>5. Base \in Nat
  BY <1>3 DEF Base
<1>6. Held \in Nat
  BY <1>2, <1>4 DEF LapInv, Holding
<1>7. QED BY <1>1, <1>2, <1>3, <1>4, <1>5, <1>6

-----------------------------------------------------------------------------
(* The line and the UART. *)

LEMMA LapInit ==
  ASSUME NEW S \in [Cells -> Nat], NEW at \in [0 .. Len(Frames) -> Nat],
         LaidOut(S, at), Init, Clean(mode)
  PROVE  LapInv(S, at)
<1>1. InBuffer
  BY InitInBuffer
<1>2. /\ at[0] = 0 /\ executed = <<>> /\ sent = 0 /\ rx_len = 0 /\ pc = "sleep"
      /\ nextBuf = <<0, RxSize>> /\ dma = [pos |-> 0, end |-> RxSize, from |-> 0]
      /\ mode \in Modes /\ mode.noise = 0 /\ line = [i \in 1 .. 0 |-> 0]
  BY DEF Init, LaidOut, Clean
<1>3. line = <<>> /\ Len(line) = 0 /\ Len(executed) = 0
  BY <1>2
<1>4. dma.pos = 0 /\ dma.end = RxSize /\ dma.from = 0
  BY <1>2
<1>5. From = 0 /\ Pos = 0 /\ Held = 0 /\ Base = 0 /\ ~Lapped
  BY <1>2, <1>4 DEF From, Pos, Held, Base, Lapped
<1>6. Executing
  BY <1>2, <1>3, Constants DEF Executing
<1>7. Arriving(S, at)
  BY <1>2, <1>3, <1>4, <1>5 DEF Arriving
<1>8. Holding(S, at)
  BY <1>2, <1>3, <1>5 DEF Holding
<1>9. QED BY <1>1, <1>6, <1>7, <1>8 DEF LapInv

\* The numbers of a state, as numbers.
LEMMA Numbers ==
  ASSUME InBuffer
  PROVE  /\ RxSize \in Nat /\ sent \in Nat /\ sent <= Len(Frames)
         /\ dma.pos \in Nat /\ dma.from \in Nat /\ dma.end \in Nat
         /\ dma.from <= dma.pos /\ dma.pos <= dma.end /\ dma.end <= RxSize
         /\ rx_len \in Nat /\ rx_len <= RxSize /\ processed \in Nat /\ tmp \in Nat
         /\ line \in Seq(Nat) /\ Len(line) \in Nat /\ rx_buf \in [Cells -> Nat]
         /\ executed \in Seq(Seq(Nat)) /\ Len(executed) \in Nat
         /\ From \in Nat /\ Pos \in Nat
<1>1. RxSize \in Nat /\ Len(Frames) \in Nat
  BY Constants
<1>2. /\ dma.pos \in Nat /\ dma.from \in Nat /\ dma.end \in Nat
      /\ dma.from <= dma.pos /\ dma.pos <= dma.end /\ dma.end <= RxSize
      /\ rx_len \in Nat /\ rx_len <= RxSize /\ processed \in Nat /\ tmp \in Nat
      /\ line \in Seq(Nat) /\ Len(line) \in Nat
      /\ executed \in Seq(Seq(Nat)) /\ rx_buf \in [Cells -> Nat]
      /\ sent \in Nat /\ sent <= Len(Frames)
  BY <1>1 DEF InBuffer, TypeOK
<1>3. From \in Nat /\ Pos \in Nat
  BY <1>1, <1>2 DEF From, Pos
<1>4. Len(executed) \in Nat
  BY <1>2
<1>5. QED BY <1>1, <1>2, <1>3, <1>4

\* Cell p + k - 1 of the line is cell e + q - 1 of what was put behind it.
Beyond(k, l, g, e, p) == \E q \in 1 .. g : k = l + q /\ e + q - 1 = p + k - 1

LEMMA LineArithmetic ==
  ASSUME NEW e \in Nat, NEW l \in Nat, NEW g \in Nat, NEW p \in Nat, p <= e, l = e - p
  PROVE  /\ l + g = (e + g) - p /\ p <= e + g
         /\ \A k \in 1 .. l + g : k > l => Beyond(k, l, g, e, p)
<1>1. l + g = (e + g) - p /\ p <= e + g
  OBVIOUS
<1>2. ASSUME NEW k \in 1 .. l + g, k > l
      PROVE  Beyond(k, l, g, e, p)
  <2>1. PICK q \in 1 .. g : k = l + q
    <3>1. k - l \in 1 .. g /\ k = l + (k - l)
      BY <1>2
    <3>2. QED BY <3>1
  <2>2. QED BY <2>1 DEF Beyond
<1>3. QED BY <1>1, <1>2

\* The host sends a frame: the line holds what is to be laid out behind the rest.
LEMMA LineGrows ==
  ASSUME NEW S, NEW at, Arriving(S, at), Send, sent \in Nat, at[sent] \in Nat,
         Pos \in Nat, line \in Seq(Nat), Frames[sent + 1] \in Seq(Nat),
         at[sent + 1] = at[sent] + Len(Frames[sent + 1]),
         \A k \in 1 .. Len(Frames[sent + 1]) : S[at[sent] + k - 1] = Frames[sent + 1][k]
  PROVE  Arriving(S, at)'
<1>1. /\ line' = line \o Frames[sent + 1] /\ sent' = sent + 1
      /\ UNCHANGED <<rx_buf, dma, nextBuf>>
  BY DEF Send
<1>2. Len(line) \in Nat /\ Len(Frames[sent + 1]) \in Nat
  OBVIOUS
<1>3. From' = From /\ Pos' = Pos /\ Lapped' = Lapped
  BY <1>1 DEF From, Pos, Lapped
<1>4. Len(line) = at[sent] - Pos /\ Pos <= at[sent] /\ From <= Pos
  BY DEF Arriving
<1>5. PICK e \in Nat, l \in Nat, g \in Nat, p \in Nat :
         e = at[sent] /\ l = Len(line) /\ g = Len(Frames[sent + 1]) /\ p = Pos
  BY Zenon, <1>2
<1>6. at[sent'] = e + g /\ Len(line') = l + g /\ l = e - p
  <2>1. Len(line \o Frames[sent + 1]) = Len(line) + Len(Frames[sent + 1])
    OBVIOUS
  <2>2. QED BY Zenon, <1>1, <1>4, <1>5, <2>1
<1>7. /\ l + g = (e + g) - p /\ p <= e + g
      /\ \A k \in 1 .. l + g : k > l => Beyond(k, l, g, e, p)
  <2>1. p <= e /\ l = e - p
    BY Zenon, <1>4, <1>5, <1>6
  <2>2. QED BY SMTT(30), <2>1, LineArithmetic
<1>8. ASSUME NEW k \in 1 .. l + g PROVE line'[k] = S[p + k - 1]
  <2>1. CASE k <= l
    <3>1. line'[k] = line[k] /\ k \in 1 .. Len(line)
      BY <1>1, <1>5, <1>8, <2>1
    <3>2. QED BY Zenon, <1>5, <3>1 DEF Arriving
  <2>2. CASE k > l
    <3>1. PICK q \in 1 .. g : k = l + q /\ e + q - 1 = p + k - 1
      BY Zenon, <1>7, <1>8, <2>2 DEF Beyond
    <3>2. line'[k] = Frames[sent + 1][q]
      BY SMTT(30), <1>1, <1>2, <1>5, <3>1
    <3>3. S[e + q - 1] = Frames[sent + 1][q]
      BY Zenon, <1>5, <3>1
    <3>4. QED BY Zenon, <3>1, <3>2, <3>3
  <2>3. QED BY <1>5, <1>8, <2>1, <2>2
<1>9. \A k \in 1 .. Len(line') : line'[k] = S[Pos + k - 1]
  BY Zenon, <1>5, <1>6, <1>8
<1>10. Len(line') = at[sent'] - Pos /\ Pos <= at[sent']
  BY Zenon, <1>5, <1>6, <1>7
<1>11. QED BY <1>1, <1>3, <1>4, <1>9, <1>10 DEF Arriving

LEMMA LapSend ==
  ASSUME NEW S \in [Cells -> Nat], NEW at \in [0 .. Len(Frames) -> Nat],
         WellFormed, LaidOut(S, at), LapInv(S, at), Send, InBuffer'
  PROVE  LapInv(S, at)'
<1>1. /\ sent < mode.frames /\ sent' = sent + 1
      /\ UNCHANGED <<rx_buf, rx_len, dma, nextBuf, pc, processed, tmp, executed, mode>>
  BY DEF Send, loopVars
<1>2. /\ sent \in Nat /\ mode \in Modes /\ mode.frames \in Nat /\ Pos \in Nat
      /\ line \in Seq(Nat) /\ at[sent] \in Nat
      /\ Len(executed) \in Nat /\ Len(executed) <= sent
  BY LapFacts
<1>3. sent + 1 \in 1 .. mode.frames
  BY <1>1, <1>2
<1>4. /\ Frames[sent + 1] \in Seq(Nat)
      /\ at[sent + 1] = at[sent] + Len(Frames[sent + 1])
      /\ \A k \in 1 .. Len(Frames[sent + 1]) : S[at[sent] + k - 1] = Frames[sent + 1][k]
  <2>1. (sent + 1) - 1 = sent
    BY <1>2
  <2>2. Clean(mode)
    BY DEF LapInv
  <2>3. \A n \in 1 .. mode.frames :
          /\ Frames[n] \in Seq(Nat) /\ Len(Frames[n]) \in Nat
          /\ at[n] = at[n - 1] + Len(Frames[n])
          /\ \A k \in 1 .. Len(Frames[n]) : S[at[n - 1] + k - 1] = Frames[n][k]
    BY <1>2, <2>2, Layout
  <2>4. QED BY <1>3, <2>1, <2>3
<1>5. Executing'
  BY <1>1, <1>2 DEF LapInv, Executing
<1>6. From' = From /\ Held' = Held /\ Base' = Base
  BY <1>1 DEF From, Lapped, Held, Base
<1>7. Arriving(S, at)'
  BY <1>2, <1>4, LineGrows DEF LapInv
<1>8. Holding(S, at)'
  BY <1>1, <1>6 DEF LapInv, Holding
<1>9. QED BY <1>1, <1>5, <1>7, <1>8 DEF LapInv

\* What is held lies before what has not been reported.
LEMMA HeldInFront ==
  ASSUME NEW S \in [Cells -> Nat], NEW at \in [0 .. Len(Frames) -> Nat],
         WellFormed, LaidOut(S, at), LapInv(S, at)
  PROVE  Base + Held <= From
<1>1. PICK e \in Nat : e = at[Len(executed)]
  BY LapFacts
<1>2. e <= From /\ Held = From - e /\ (pc # "sleep" => processed <= e)
  BY <1>1 DEF LapInv, Holding
<1>3. From \in Nat /\ processed \in Nat
  BY LapFacts
<1>4. QED BY <1>2, <1>3 DEF Base

LEMMA TailCells ==
  ASSUME NEW s \in Seq(Nat), Len(s) > 0
  PROVE  /\ Len(Tail(s)) = Len(s) - 1
         /\ \A k \in 1 .. Len(s) - 1 : Tail(s)[k] = s[k + 1]
  OBVIOUS

\* A byte arrives: it goes where it is laid out, and nowhere else.
LEMMA ByteArrives ==
  ASSUME NEW S, NEW at, Arriving(S, at), InBuffer, DmaByte, ~Lapped, at[sent] \in Nat
  PROVE  /\ Arriving(S, at)' /\ ~Lapped' /\ From' = From /\ From <= dma.pos
         /\ \A i \in Cells : i # dma.pos => rx_buf'[i] = rx_buf[i]
<1>1. /\ line # <<>> /\ dma.pos < dma.end
      /\ rx_buf' = [rx_buf EXCEPT ![dma.pos] = Head(line)]
      /\ line' = Tail(line) /\ dma' = [dma EXCEPT !.pos = @ + 1]
      /\ UNCHANGED <<nextBuf, sent>>
  BY DEF DmaByte
<1>2. /\ RxSize \in Nat /\ dma.pos \in Nat /\ dma.from \in Nat /\ dma.end \in Nat
      /\ dma.from <= dma.pos /\ dma.end <= RxSize
      /\ line \in Seq(Nat) /\ Len(line) \in Nat /\ rx_buf \in [Cells -> Nat]
  BY Zenon, Numbers
<1>3. /\ Pos <= at[sent] /\ Len(line) = at[sent] - Pos
      /\ \A k \in 1 .. Len(line) : line[k] = S[Pos + k - 1]
      /\ \A i \in From .. Pos - 1 : rx_buf[i] = S[i]
      /\ dma.end = RxSize
  BY DEF Arriving
<1>4. Len(line) > 0 /\ Head(line) = line[1]
  BY <1>1, <1>2
<1>5. From = dma.from /\ Pos = dma.pos
  BY DEF From, Pos
<1>6. dma \in [pos : 0 .. RxSize, end : 0 .. RxSize, from : 0 .. RxSize]
  BY DEF InBuffer, TypeOK
<1>7. dma'.pos = dma.pos + 1 /\ dma'.end = dma.end /\ dma'.from = dma.from
  BY <1>1, <1>6
<1>8. ~Lapped' /\ From' = dma.from /\ Pos' = dma.pos + 1
  BY <1>1, <1>7 DEF Lapped, From, Pos
<1>9. dma.pos \in Cells
  BY <1>1, <1>2 DEF Cells
<1>10. rx_buf'[dma.pos] = S[dma.pos]
  <2>1. line[1] = S[dma.pos]
    BY <1>2, <1>3, <1>4, <1>5
  <2>2. QED BY <1>1, <1>2, <1>4, <1>9, <2>1
<1>11. \A i \in Cells : i # dma.pos => rx_buf'[i] = rx_buf[i]
  BY <1>1, <1>2
<1>12. Len(line') = at[sent] - (dma.pos + 1)
  <2>1. Len(line') = Len(line) - 1
    BY <1>1, <1>2, <1>4
  <2>2. QED BY SMTT(30), <1>2, <1>3, <1>5, <2>1
<1>13. \A k \in 1 .. Len(line') : line'[k] = S[(dma.pos + 1) + k - 1]
  <2>1. ASSUME NEW k \in 1 .. Len(line') PROVE line'[k] = S[(dma.pos + 1) + k - 1]
    <3>1. Len(line') = Len(line) - 1
      BY <1>1, <1>2, <1>4
    <3>2. k \in Nat /\ k + 1 \in 1 .. Len(line) /\ line'[k] = line[k + 1]
      <4>1. k \in 1 .. Len(line) - 1
        BY <2>1, <3>1
      <4>2. line'[k] = line[k + 1]
        BY <1>1, <1>2, <1>4, <4>1, TailCells
      <4>3. QED BY SMTT(30), <1>2, <4>1, <4>2
    <3>3. line[k + 1] = S[dma.pos + (k + 1) - 1]
      BY <1>3, <1>5, <3>2
    <3>4. dma.pos + (k + 1) - 1 = (dma.pos + 1) + k - 1
      BY <1>2, <3>2
    <3>5. QED BY <3>2, <3>3, <3>4
  <2>2. QED BY <2>1
<1>14. \A i \in dma.from .. dma.pos : rx_buf'[i] = S[i]
  <2>1. ASSUME NEW i \in dma.from .. dma.pos PROVE rx_buf'[i] = S[i]
    <3>1. i \in Cells /\ (i = dma.pos \/ i \in dma.from .. dma.pos - 1)
      <4>1. dma.from \in Nat /\ dma.pos \in Nat /\ RxSize \in Nat /\ dma.pos < RxSize
        BY <1>1, <1>2
      <4>2. QED BY <2>1, <4>1 DEF Cells
    <3>2. QED BY <1>3, <1>5, <1>10, <1>11, <3>1, <1>2
  <2>2. QED BY <2>1
<1>15. (dma.pos + 1) - 1 = dma.pos /\ dma.from <= dma.pos + 1
  BY <1>2
<1>16. dma.pos + 1 <= at[sent]
  BY <1>2, <1>3, <1>4, <1>5
<1>17. QED
  BY <1>1, <1>2, <1>3, <1>5, <1>7, <1>8, <1>11, <1>12, <1>13, <1>14, <1>15, <1>16
     DEF Arriving

LEMMA LapDmaByte ==
  ASSUME NEW S \in [Cells -> Nat], NEW at \in [0 .. Len(Frames) -> Nat],
         WellFormed, LaidOut(S, at), LapInv(S, at), DmaByte, InBuffer'
  PROVE  LapInv(S, at)'
<1>1. /\ line # <<>>
      /\ UNCHANGED <<rx_len, nextBuf, sent, pc, processed, tmp, executed, mode>>
  BY DEF DmaByte, loopVars
<1>2. /\ RxSize \in Nat /\ at[sent] \in Nat /\ at[sent] <= RxSize
      /\ dma.pos \in Nat /\ dma.from \in Nat /\ dma.end \in Nat /\ dma.pos < dma.end
      /\ dma.end <= RxSize /\ Base \in Nat /\ Held \in Nat
      /\ line \in Seq(Nat) /\ Len(line) \in Nat
  BY LapFacts DEF DmaByte
<1>3. ~Lapped
  <2>1. Pos <= at[sent] /\ Len(line) = at[sent] - Pos /\ Len(line) > 0
    BY <1>1, <1>2 DEF LapInv, Arriving
  <2>2. QED BY <1>2, <2>1 DEF Pos
<1>4. /\ Arriving(S, at)' /\ ~Lapped' /\ From' = From /\ From <= dma.pos
      /\ \A i \in Cells : i # dma.pos => rx_buf'[i] = rx_buf[i]
  BY <1>2, <1>3, ByteArrives DEF LapInv
<1>5. Held' = Held /\ Base' = Base /\ From = dma.from
  BY <1>1, <1>3 DEF Held, Base, From
<1>6. Holding(S, at)'
  <2>1. \A i \in 0 .. Held - 1 : rx_buf'[Base + i] = rx_buf[Base + i]
    <3>1. Base + Held <= dma.from
      BY <1>5, HeldInFront
    <3>2. \A i \in 0 .. Held - 1 : Base + i \in Cells /\ Base + i # dma.pos
      <4>1. /\ dma.from \in Nat /\ dma.pos \in Nat /\ RxSize \in Nat /\ dma.pos < RxSize
            /\ Base \in Nat /\ Held \in Nat /\ dma.from <= dma.pos
        BY <1>2, <1>4, <1>5
      <4>2. QED BY <3>1, <4>1 DEF Cells
    <3>3. QED BY <1>4, <3>2
  <2>2. QED BY <1>1, <1>4, <1>5, <2>1 DEF LapInv, Holding
<1>7. Executing'
  BY <1>1 DEF LapInv, Executing
<1>8. QED BY <1>1, <1>4, <1>6, <1>7 DEF LapInv

\* A copy towards the front takes every byte to its place.
LEMMA CopiedForward ==
  ASSUME NEW dst \in Nat, NEW src \in Nat, NEW n \in Nat, dst <= src,
         NEW b \in Copied(dst, src, n)
  PROVE  \A i \in Cells : b[i] = IF i \in dst .. dst + n - 1
                                   THEN rx_buf[src + (i - dst)] ELSE rx_buf[i]
BY DEF Copied

\* The interrupt appends what has arrived to what is at the front, if the one
\* follows the other in S.
LEMMA Appended ==
  ASSUME NEW S, NEW b \in Nat, InBuffer, b + rx_len = dma.from,
         \A i \in 0 .. rx_len - 1 : rx_buf[i] = S[b + i],
         \A i \in dma.from .. dma.pos - 1 : rx_buf[i] = S[i],
         RxRdy(dma.pos - dma.from)
  PROVE  /\ b + rx_len' = dma.pos
         /\ \A i \in 0 .. rx_len' - 1 : rx_buf'[i] = S[b + i]
<1>1. PICK f \in Nat, t \in Nat, r \in Nat : f = dma.from /\ t = dma.pos /\ r = rx_len
  BY Zenon, Numbers
<1>2. RxSize \in Nat /\ f <= t /\ t <= RxSize
  <2>1. /\ dma.from <= dma.pos /\ dma.pos <= dma.end /\ dma.end <= RxSize
        /\ dma.end \in Nat /\ RxSize \in Nat
    BY Zenon, Numbers
  <2>2. QED BY <1>1, <2>1
<1>3. PICK n \in Nat : n = t - f
  BY <1>2
<1>4. b + r = f /\ r <= f /\ r + n <= RxSize /\ b + (r + n) = t
  BY <1>1, <1>2, <1>3
<1>5. rx_buf' \in Copied(r, f, n) /\ rx_len' = r + n
  BY <1>1, <1>3, <1>4 DEF RxRdy
<1>6. \A i \in Cells : rx_buf'[i] = IF i \in r .. r + n - 1
                                      THEN rx_buf[f + (i - r)] ELSE rx_buf[i]
  <2>1. PICK c \in Copied(r, f, n) : c = rx_buf'
    BY <1>5
  <2>2. \A i \in Cells : c[i] = IF i \in r .. r + n - 1
                                   THEN rx_buf[f + (i - r)] ELSE rx_buf[i]
    BY <1>4, CopiedForward
  <2>3. QED BY <2>1, <2>2, Zenon
<1>7. ASSUME NEW i \in 0 .. r + n - 1 PROVE rx_buf'[i] = S[b + i]
  <2>1. i \in Cells /\ i \in Nat /\ i < r + n
    BY <1>2, <1>4, <1>7 DEF Cells
  <2>2. CASE i < r
    <3>1. rx_buf'[i] = rx_buf[i]
      BY <1>1, <1>6, <2>1, <2>2
    <3>2. i \in 0 .. rx_len - 1
      BY <1>1, <2>1, <2>2
    <3>3. QED BY <3>1, <3>2
  <2>3. CASE i >= r
    <3>1. i \in r .. r + n - 1
      BY <1>1, <1>3, <2>1, <2>3
    <3>2. rx_buf'[i] = rx_buf[f + (i - r)]
      BY <1>6, <2>1, <3>1
    <3>3. f + (i - r) = b + i /\ b + i \in f .. t - 1
      BY <1>1, <1>2, <1>4, <2>1, <2>3
    <3>4. S[b + i] = rx_buf[b + i]
      BY <1>1, <3>3
    <3>5. QED BY <3>2, <3>3, <3>4
  <2>4. QED BY <1>1, <2>1, <2>2, <2>3
<1>8. QED BY <1>1, <1>4, <1>5, <1>7

LEMMA LapReport ==
  ASSUME NEW S \in [Cells -> Nat], NEW at \in [0 .. Len(Frames) -> Nat],
         WellFormed, LaidOut(S, at), LapInv(S, at), pc = "sleep", ~Lapped,
         RxRdy(dma.pos - dma.from)
  PROVE  /\ rx_len' = dma.pos - at[Len(executed)]
         /\ \A i \in 0 .. rx_len' - 1 : rx_buf'[i] = S[at[Len(executed)] + i]
<1>1. PICK e \in Nat, f \in Nat, t \in Nat, r \in Nat :
         e = at[Len(executed)] /\ f = dma.from /\ t = dma.pos /\ r = rx_len
  BY LapFacts
<1>2. From = f /\ Pos = t /\ Held = r /\ Base = 0
  BY <1>1 DEF From, Pos, Held, Base
<1>3. /\ e <= f /\ r = f - e
      /\ \A i \in 0 .. r - 1 : rx_buf[0 + i] = S[e + i]
  BY <1>1, <1>2 DEF LapInv, Holding
<1>4. e + r = f /\ \A i \in 0 .. r - 1 : rx_buf[i] = S[e + i]
  BY <1>1, <1>3
<1>5. \A i \in f .. t - 1 : rx_buf[i] = S[i]
  BY <1>2 DEF LapInv, Arriving
<1>6. /\ e + rx_len' = t
      /\ \A i \in 0 .. rx_len' - 1 : rx_buf'[i] = S[e + i]
  <2>1. InBuffer
    BY DEF LapInv
  <2>2. e + rx_len = dma.from
    BY Zenon, <1>1, <1>4
  <2>3. \A i \in 0 .. rx_len - 1 : rx_buf[i] = S[e + i]
    BY Zenon, <1>1, <1>4
  <2>4. \A i \in dma.from .. dma.pos - 1 : rx_buf[i] = S[i]
    BY Zenon, <1>1, <1>5
  <2>5. /\ e + rx_len' = dma.pos
        /\ \A i \in 0 .. rx_len' - 1 : rx_buf'[i] = S[e + i]
    BY <2>1, <2>2, <2>3, <2>4, Appended
  <2>6. QED BY Zenon, <1>1, <2>5
<1>7. rx_len' = t - e
  <2>1. PICK n \in Nat : n = dma.pos - dma.from
    <3>1. dma.from <= dma.pos
      BY LapFacts
    <3>2. QED BY <1>1, <3>1
  <2>2. rx_len' \in Nat
    BY <1>1, <2>1 DEF RxRdy
  <2>3. QED BY <1>1, <1>6, <2>2
<1>8. QED BY <1>1, <1>6, <1>7

LEMMA LapIdle ==
  ASSUME NEW S \in [Cells -> Nat], NEW at \in [0 .. Len(Frames) -> Nat],
         WellFormed, LaidOut(S, at), LapInv(S, at), IdleInterrupt, InBuffer'
  PROVE  LapInv(S, at)'
<1>1. /\ InterruptsAllowed /\ dma.from < dma.pos /\ dma.pos < dma.end
      /\ RxRdy(dma.pos - dma.from) /\ dma' = [dma EXCEPT !.from = dma.pos]
      /\ UNCHANGED <<nextBuf, line, sent, pc, processed, tmp, executed, mode>>
  BY DEF IdleInterrupt, loopVars
<1>2. pc = "sleep"
  BY <1>1 DEF InterruptsAllowed, LapInv, Clean
<1>3. ~Lapped
  <2>1. dma.from \in Nat /\ dma.pos \in Nat
    BY LapFacts
  <2>2. QED BY <1>1, <2>1 DEF LapInv, Arriving
<1>4. PICK e \in Nat, t \in Nat : e = at[Len(executed)] /\ t = dma.pos
  BY LapFacts
<1>5. /\ rx_len' = t - e
      /\ \A i \in 0 .. rx_len' - 1 : rx_buf'[i] = S[e + i]
  BY <1>1, <1>2, <1>3, <1>4, LapReport
<1>6. dma'.pos = t /\ dma'.end = dma.end /\ dma'.from = t
  <2>1. dma \in [pos : 0 .. RxSize, end : 0 .. RxSize, from : 0 .. RxSize]
    BY DEF LapInv, InBuffer, TypeOK
  <2>2. QED BY <1>1, <1>4, <2>1
<1>7. /\ ~Lapped' /\ From' = t /\ Pos' = t /\ Held' = rx_len' /\ Base' = 0
      /\ Pos = t /\ From <= t
  BY <1>1, <1>2, <1>3, <1>4, <1>6 DEF Lapped, From, Pos, Held, Base, LapInv, Arriving
<1>8. Arriving(S, at)'
  <2>1. t <= t /\ \A i \in t .. t - 1 : FALSE
    BY <1>4
  <2>2. QED BY <1>1, <1>3, <1>6, <1>7, <2>1 DEF LapInv, Arriving
<1>9. Holding(S, at)'
  <2>1. e <= From
    BY <1>4 DEF LapInv, Holding
  <2>2. e <= t
    <3>1. From \in Nat
      BY LapFacts
    <3>2. QED BY <1>4, <1>7, <2>1, <3>1
  <2>3. \A i \in 0 .. rx_len' - 1 : rx_buf'[0 + i] = S[e + i]
    BY <1>5
  <2>4. QED BY <1>1, <1>2, <1>4, <1>5, <1>7, <2>2, <2>3 DEF Holding
<1>10. Executing'
  BY <1>1 DEF LapInv, Executing
<1>11. QED BY <1>1, <1>8, <1>9, <1>10 DEF LapInv

\* When rx_buf is full all frames have arrived.
LEMMA LapFull ==
  ASSUME NEW S \in [Cells -> Nat], NEW at \in [0 .. Len(Frames) -> Nat],
         WellFormed, LaidOut(S, at), LapInv(S, at), FullInterrupt, InBuffer'
  PROVE  LapInv(S, at)'
<1>1. /\ InterruptsAllowed /\ dma.pos = dma.end /\ dma.from < dma.end
      /\ RxRdy(dma.end - dma.from)
      /\ nextBuf[1] < nextBuf[2]
           => /\ dma' = [pos |-> nextBuf[1], end |-> nextBuf[2], from |-> nextBuf[1]]
              /\ nextBuf' = <<rx_len', RxSize>>
      /\ UNCHANGED <<line, sent, pc, processed, tmp, executed, mode>>
  BY DEF FullInterrupt, loopVars
<1>2. pc = "sleep"
  BY <1>1 DEF InterruptsAllowed, LapInv, Clean
<1>3. ~Lapped
  <2>1. dma.from \in Nat /\ dma.pos \in Nat
    BY LapFacts
  <2>2. QED BY <1>1, <2>1 DEF LapInv, Arriving
<1>4. PICK e \in Nat, f \in Nat, t \in Nat :
         e = at[Len(executed)] /\ f = dma.from /\ t = dma.pos
  BY LapFacts
<1>5. RxSize \in Nat /\ RxSize > 0 /\ t = RxSize /\ f < t
  BY <1>1, <1>3, <1>4, Constants DEF LapInv, Arriving
<1>6. /\ dma' = [pos |-> 0, end |-> RxSize, from |-> 0]
      /\ nextBuf' = <<rx_len', RxSize>>
  <2>1. nextBuf[1] = 0 /\ nextBuf[2] = RxSize
    BY <1>3 DEF Lapped
  <2>2. QED BY <1>1, <1>5, <2>1
<1>7. /\ rx_len' = t - e
      /\ \A i \in 0 .. rx_len' - 1 : rx_buf'[i] = S[e + i]
  BY <1>1, <1>2, <1>3, <1>4, LapReport
<1>8. e <= f
  BY <1>3, <1>4 DEF LapInv, Holding, From
<1>9. rx_len' > 0
  BY <1>4, <1>5, <1>7, <1>8
<1>10. dma'.pos = 0 /\ dma'.from = 0 /\ nextBuf'[1] = rx_len' /\ Lapped'
  <2>1. rx_len' # 0
    BY <1>4, <1>5, <1>7, <1>8
  <2>2. QED BY <1>6, <2>1 DEF Lapped
<1>11. From' = t /\ Pos' = t /\ Held' = rx_len' /\ Base' = 0 /\ Pos = t
  BY <1>1, <1>2, <1>3, <1>4, <1>5, <1>10 DEF Lapped, From, Pos, Held, Base
<1>12. Arriving(S, at)'
  <2>1. t <= t /\ \A i \in t .. t - 1 : FALSE
    BY <1>4
  <2>2. QED BY <1>1, <1>9, <1>10, <1>11, <2>1 DEF LapInv, Arriving
<1>13. Holding(S, at)'
  <2>1. e <= t
    BY <1>4, <1>5, <1>8
  <2>2. \A i \in 0 .. rx_len' - 1 : rx_buf'[0 + i] = S[e + i]
    BY <1>7
  <2>3. QED BY <1>1, <1>2, <1>4, <1>7, <1>11, <2>1, <2>2 DEF Holding
<1>14. Executing'
  BY <1>1 DEF LapInv, Executing
<1>15. QED BY <1>1, <1>12, <1>13, <1>14 DEF LapInv

-----------------------------------------------------------------------------
(* The main loop. *)

\* A step that touches neither the UART nor the handlers.
LEMMA LapLoop ==
  ASSUME NEW S \in [Cells -> Nat], NEW at \in [0 .. Len(Frames) -> Nat],
         LapInv(S, at), UNCHANGED <<dma, nextBuf, line, mode, sent, executed>>,
         \A i \in From .. Pos - 1 : rx_buf'[i] = rx_buf[i],
         InBuffer', Holding(S, at)'
  PROVE  LapInv(S, at)'
<1>1. From' = From /\ Pos' = Pos /\ Lapped' = Lapped
  BY DEF From, Pos, Lapped
<1>2. Arriving(S, at)'
  BY <1>1 DEF LapInv, Arriving
<1>3. Executing'
  BY DEF LapInv, Executing
<1>4. QED BY <1>2, <1>3 DEF LapInv

LEMMA LapTests ==
  ASSUME NEW S \in [Cells -> Nat], NEW at \in [0 .. Len(Frames) -> Nat],
         WellFormed, LaidOut(S, at), LapInv(S, at), InBuffer',
         Wake \/ LoopTest \/ ParseNone \/ TrimTest \/ EmptyTest \/ TxByte
           \/ UNCHANGED vars
  PROVE  LapInv(S, at)'
<1>1. UNCHANGED <<rx_buf, rx_len, dma, nextBuf, line, mode, sent, executed, tmp>>
  BY DEF Wake, LoopTest, ParseNone, TrimTest, EmptyTest, TxByte, vars, uartVars,
         loopVars, txVars
<1>2. From' = From
  BY <1>1 DEF From, Lapped
<1>3. PICK e \in Nat, p \in Nat, l \in Nat :
         e = at[Len(executed)] /\ p = processed /\ l = rx_len
  BY LapFacts
<1>4. /\ e <= From /\ Held = From - e
      /\ \A i \in 0 .. Held - 1 : rx_buf[Base + i] = S[e + i]
      /\ pc # "sleep" => p <= e
      /\ pc = "emptyTest" => p = 0 \/ p >= l
  BY <1>3 DEF LapInv, Holding
<1>5. /\ pc \in {"loop", "parse"} => p <= l
      /\ pc \in {"move", "read"} => p < l
  BY <1>3 DEF LapInv, InBuffer
<1>6. SUFFICES Holding(S, at)'
  BY <1>1, LapLoop
<1>7. CASE Wake
  <2>1. pc = "sleep" /\ pc' = "loop" /\ processed' = 0
    BY <1>7 DEF Wake, Goto
  <2>2. Base = 0 /\ Base' = 0 /\ Held = l /\ Held' = l
    BY <1>1, <1>3, <2>1 DEF Base, Held
  <2>3. 0 <= e
    BY <1>3
  <2>4. QED BY <1>1, <1>2, <1>3, <1>4, <2>1, <2>2, <2>3 DEF Holding
<1>8. CASE LoopTest \/ ParseNone
  <2>1. /\ pc \in {"loop", "parse"} /\ processed' = processed
        /\ pc' \in {"parse", "trim"}
    BY <1>8 DEF LoopTest, ParseNone, Goto
  <2>2. Base' = Base /\ Held' = Held
    BY <1>1, <2>1 DEF Base, Held
  <2>3. QED BY <1>1, <1>2, <1>3, <1>4, <2>1, <2>2 DEF Holding
<1>9. CASE TrimTest
  <2>1. /\ pc = "trim" /\ processed' = processed
        /\ pc' = IF p > 0 /\ p < l THEN "move" ELSE "emptyTest"
    BY <1>3, <1>9 DEF TrimTest, Goto
  <2>2. Base' = Base /\ Held' = Held
    BY <1>1, <2>1 DEF Base, Held
  <2>3. pc' = "emptyTest" => p = 0 \/ p >= l
    BY <1>3, <2>1
  <2>4. QED BY <1>1, <1>2, <1>3, <1>4, <2>1, <2>2, <2>3 DEF Holding
<1>10. CASE EmptyTest
  <2>1. /\ pc = "emptyTest" /\ processed' = processed
        /\ pc' = IF p >= l THEN "zero" ELSE "sleep"
    BY <1>3, <1>10 DEF EmptyTest, Goto
  <2>2. CASE p >= l
    <3>1. Base' = Base /\ Held' = Held
      BY <1>1, <2>1, <2>2 DEF Base, Held
    <3>2. QED BY <1>1, <1>2, <1>3, <1>4, <2>1, <2>2, <3>1 DEF Holding
  <2>3. CASE ~(p >= l)
    <3>1. p = 0
      BY <1>4, <2>1, <2>3
    <3>2. Base' = 0 /\ Base = 0 /\ Held' = l /\ Held = l
      BY <1>1, <1>3, <2>1, <2>3, <3>1 DEF Base, Held
    <3>3. QED BY <1>1, <1>2, <1>3, <1>4, <2>1, <2>3, <3>2 DEF Holding
  <2>4. QED BY <2>2, <2>3
<1>11. CASE TxByte \/ UNCHANGED vars
  <2>1. UNCHANGED <<pc, processed>>
    BY <1>11 DEF TxByte, vars, uartVars, loopVars
  <2>2. Base' = Base /\ Held' = Held
    BY <1>1, <2>1 DEF Base, Held
  <2>3. QED BY <1>1, <1>2, <2>1, <2>2 DEF LapInv, Holding
<1>12. QED BY <1>7, <1>8, <1>9, <1>10, <1>11

LEMMA LapTrim ==
  ASSUME NEW S \in [Cells -> Nat], NEW at \in [0 .. Len(Frames) -> Nat],
         WellFormed, LaidOut(S, at), LapInv(S, at), InBuffer',
         Move \/ SubtractRead \/ SubtractWrite \/ Zero
  PROVE  LapInv(S, at)'
<1>1. UNCHANGED <<dma, nextBuf, line, mode, sent, executed, processed>>
  BY DEF Move, SubtractRead, SubtractWrite, Zero, uartVars
<1>2. From' = From
  BY <1>1 DEF From, Lapped
<1>3. PICK e \in Nat, p \in Nat, l \in Nat, f \in Nat :
         e = at[Len(executed)] /\ p = processed /\ l = rx_len /\ f = From
  BY LapFacts
<1>4. /\ e <= f /\ Held = f - e /\ Held \in Nat /\ Base \in Nat
      /\ \A i \in 0 .. Held - 1 : rx_buf[Base + i] = S[e + i]
      /\ pc # "sleep" => p <= e
  BY <1>3, LapFacts DEF LapInv, Holding
<1>5. RxSize \in Nat /\ l <= RxSize /\ Pos \in Nat /\ f <= Pos /\ Pos <= RxSize
  <2>1. /\ RxSize \in Nat /\ rx_len <= RxSize /\ Pos \in Nat /\ at[sent] <= RxSize
        /\ at[sent] \in Nat
    BY LapFacts
  <2>2. Pos <= at[sent] /\ From <= Pos
    BY DEF LapInv, Arriving
  <2>3. QED BY <1>3, <2>1, <2>2
<1>6. CASE Move
  <2>1. /\ pc = "move" /\ pc' = "read" /\ rx_len' = rx_len
        /\ rx_buf' = [i \in Cells |-> IF i < l - p THEN rx_buf[p + i] ELSE rx_buf[i]]
    BY <1>3, <1>6 DEF Move, Goto
  <2>2. p < l
    BY <1>3, <2>1 DEF LapInv, InBuffer
  <2>3. Base = p /\ Base' = 0 /\ Held = l - p /\ Held' = l - p
    BY <1>1, <1>3, <2>1 DEF Base, Held
  <2>4. \A i \in f .. Pos - 1 : rx_buf'[i] = rx_buf[i]
    <3>1. \A i \in f .. Pos - 1 : i \in Cells /\ ~(i < l - p)
      BY <1>3, <1>4, <1>5, <2>3 DEF Cells
    <3>2. QED BY <2>1, <3>1
  <2>5. \A i \in 0 .. l - p - 1 : rx_buf'[0 + i] = S[e + i]
    <3>1. \A i \in 0 .. l - p - 1 : i \in Cells /\ 0 + i = i /\ i < l - p
      BY <1>3, <1>5, <2>2 DEF Cells
    <3>2. QED BY <1>4, <2>1, <2>3, <3>1
  <2>6. Holding(S, at)'
    BY <1>1, <1>2, <1>3, <1>4, <2>1, <2>3, <2>5 DEF Holding
  <2>7. QED BY <1>1, <1>3, <2>4, <2>6, LapLoop
<1>7. CASE SubtractRead
  <2>1. /\ pc = "read" /\ pc' = "write" /\ tmp' = rx_len
        /\ UNCHANGED <<rx_buf, rx_len>>
    BY <1>7 DEF SubtractRead, Goto
  <2>2. Base' = Base /\ Held' = Held
    BY <1>1, <2>1 DEF Base, Held
  <2>3. Holding(S, at)'
    BY <1>1, <1>2, <1>3, <1>4, <2>1, <2>2 DEF Holding
  <2>4. QED BY <1>1, <2>1, <2>3, LapLoop
<1>8. CASE SubtractWrite
  <2>1. /\ pc = "write" /\ pc' = "sleep" /\ rx_len' = tmp - processed
        /\ UNCHANGED <<rx_buf, tmp>>
    BY <1>8 DEF SubtractWrite, Goto
  <2>2. tmp = rx_len
    BY <2>1 DEF LapInv, Holding
  <2>3. Base = 0 /\ Base' = 0 /\ Held' = Held
    BY <1>1, <2>1, <2>2 DEF Base, Held
  <2>4. Holding(S, at)'
    BY <1>1, <1>2, <1>3, <1>4, <2>1, <2>3 DEF Holding
  <2>5. QED BY <1>1, <2>1, <2>4, LapLoop
<1>9. CASE Zero
  <2>1. pc = "zero" /\ pc' = "sleep" /\ rx_len' = 0 /\ UNCHANGED <<rx_buf, tmp>>
    BY <1>9 DEF Zero, Goto
  <2>2. p >= l
    BY <1>3, <2>1 DEF LapInv, Holding
  <2>3. Held = l - p /\ Held' = 0
    BY <1>3, <2>1 DEF Held
  <2>4. Held' = f - e /\ \A i \in 0 .. Held' - 1 : FALSE
    BY <1>3, <1>4, <2>2, <2>3
  <2>5. Holding(S, at)'
    BY <1>1, <1>2, <1>3, <1>4, <2>1, <2>4 DEF Holding
  <2>6. QED BY <1>1, <2>1, <2>5, LapLoop
<1>10. QED BY <1>6, <1>7, <1>8, <1>9

\* The parser finds the frame that begins at the first byte it has not parsed.
LEMMA FrontFrame ==
  ASSUME InBuffer, ParseFound, NEW F \in Seq(Nat), Len(F) >= 3, F[1] = Header,
         Len(F) = F[2] + 3,
         \A k \in 1 .. Len(F) : k <= rx_len - processed => rx_buf[processed + k - 1] = F[k]
  PROVE  /\ executed' = Append(executed, F) /\ processed' = processed + Len(F)
         /\ processed + Len(F) <= rx_len
<1>1. PICK q \in Nat, l \in Nat, L \in Nat : q = processed /\ l = rx_len /\ L = Len(F)
  <2>1. Len(F) \in Nat
    OBVIOUS
  <2>2. QED BY Zenon, <2>1, Numbers
<1>2. PICK p \in Marks(q, l - q) :
         /\ \A m \in Marks(q, l - q) : p <= m
         /\ LET a == q + p IN
              /\ p + TotalLen(a) <= l - q
              /\ executed' = Append(executed, [i \in 1 .. TotalLen(a) |-> rx_buf[a + i - 1]])
              /\ processed' = q + TotalLen(a)
  BY <1>1 DEF ParseFound
<1>3. p \in Nat /\ l - q >= 2
  BY <1>1, <1>2 DEF Marks, MinSize, HdrSize
<1>4. L >= 3 /\ F[1] = Header /\ L = F[2] + 3 /\ F[2] \in Nat
  BY <1>1
<1>5. \A k \in 1 .. L : k <= l - q => rx_buf[q + k - 1] = F[k]
  BY <1>1
<1>6. rx_buf[q] = Header /\ rx_buf[q + 1] = F[2]
  <2>1. 1 \in 1 .. L /\ 2 \in 1 .. L /\ 1 <= l - q /\ 2 <= l - q
    BY <1>1, <1>3, <1>4
  <2>2. q + 1 - 1 = q /\ q + 2 - 1 = q + 1
    BY <1>1
  <2>3. QED BY <1>4, <1>5, <2>1, <2>2
<1>7. p = 0
  <2>1. 0 \in Marks(q, l - q)
    <3>1. q + 0 = q /\ 0 \in 0 .. (l - q) - MinSize
      BY <1>1, <1>3 DEF MinSize, HdrSize
    <3>2. QED BY <1>6, <3>1 DEF Marks
  <2>2. QED BY <1>2, <1>3, <2>1
<1>8. TotalLen(q + p) = L /\ q + p = q
  <2>1. q + p = q
    BY <1>1, <1>7
  <2>2. TotalLen(q) = L
    <3>1. TotalLen(q) = HdrSize + F[2] + TailSize
      BY <1>6, Zenon DEF TotalLen
    <3>2. HdrSize + F[2] + TailSize = F[2] + 3
      BY <1>4 DEF HdrSize, TailSize
    <3>3. QED BY <1>4, <3>1, <3>2, Zenon
  <2>3. QED BY <2>1, <2>2
<1>9. /\ L <= l - q /\ processed' = q + L
      /\ executed' = Append(executed, [i \in 1 .. L |-> rx_buf[q + i - 1]])
  <2>1. p + L <= l - q
    BY <1>2, <1>8
  <2>2. L <= l - q
    BY <1>1, <1>7, <2>1
  <2>3. QED BY <1>2, <1>8, <2>2
<1>10. [i \in 1 .. L |-> rx_buf[q + i - 1]] = F
  <2>1. \A i \in 1 .. L : rx_buf[q + i - 1] = F[i]
    <3>1. \A i \in 1 .. L : i <= l - q
      BY <1>1, <1>9
    <3>2. QED BY <1>5, <3>1
  <2>2. DOMAIN F = 1 .. L /\ F = [i \in 1 .. L |-> F[i]]
    BY <1>1, LenProperties
  <2>3. QED BY <2>1, <2>2
<1>11. q + L <= l
  BY <1>1, <1>9
<1>12. QED BY <1>1, <1>9, <1>10, <1>11

\* The parser finds the next frame, whole.
LEMMA LapParseFacts ==
  ASSUME NEW S \in [Cells -> Nat], NEW at \in [0 .. Len(Frames) -> Nat],
         WellFormed, LaidOut(S, at), LapInv(S, at), ParseFound
  PROVE  LET n == Len(executed) + 1 IN
         /\ n \in 1 .. sent /\ n \in 1 .. mode.frames
         /\ executed' = Append(executed, Frames[n])
         /\ processed' = processed + Len(Frames[n])
         /\ processed + Len(Frames[n]) <= rx_len
<1>1. pc = "parse"
  BY DEF ParseFound
<1>2. PICK e \in Nat, q \in Nat, l \in Nat, f \in Nat, x \in Nat :
         e = at[Len(executed)] /\ q = processed /\ l = rx_len /\ f = From
           /\ x = Len(executed)
  BY LapFacts
<1>3. Base = q /\ Held = l - q
  BY <1>1, <1>2 DEF Base, Held
<1>4. /\ e <= f /\ l - q = f - e
      /\ \A i \in 0 .. l - q - 1 : rx_buf[q + i] = S[e + i]
  BY <1>2, <1>3 DEF LapInv, Holding
<1>5. l - q >= 2
  <2>1. PICK p \in Marks(q, l - q) : TRUE
    BY <1>2 DEF ParseFound
  <2>2. QED BY <1>2, <2>1 DEF Marks, MinSize, HdrSize
<1>6. x < sent /\ sent \in Nat /\ mode.frames \in Nat /\ sent <= mode.frames
  <2>1. f <= Pos /\ Pos <= at[sent]
    BY <1>2 DEF LapInv, Arriving
  <2>2. /\ Pos \in Nat /\ at[sent] \in Nat /\ sent \in Nat /\ x <= sent
        /\ mode.frames \in Nat /\ sent <= mode.frames
    BY <1>2, LapFacts
  <2>3. e < at[sent]
    BY SMTT(30), <1>2, <1>4, <1>5, <2>1, <2>2
  <2>4. x # sent
    BY <1>2, <2>2, <2>3
  <2>5. QED BY <1>2, <2>2, <2>4
<1>7. PICK n \in Nat : n = x + 1
  BY <1>2
<1>8. n \in 1 .. sent /\ n \in 1 .. mode.frames /\ n - 1 = x
  BY <1>2, <1>6, <1>7
<1>9. PICK F \in Seq(Nat), L \in Nat :
          /\ F = Frames[n] /\ L = Len(F) /\ L >= 3 /\ F[1] = Header /\ L = F[2] + 3
          /\ \A k \in 1 .. L : S[e + k - 1] = F[k]
  <2>1. Clean(mode) /\ mode \in Modes
    BY LapFacts DEF LapInv
  <2>2. /\ Frames[n] \in Seq(Nat) /\ Len(Frames[n]) \in Nat
        /\ Len(Frames[n]) >= 3 /\ Frames[n][1] = Header
        /\ Len(Frames[n]) = Frames[n][2] + 3
        /\ \A k \in 1 .. Len(Frames[n]) : S[at[n - 1] + k - 1] = Frames[n][k]
    BY <1>8, <2>1, Layout
  <2>3. at[n - 1] = e
    BY <1>2, <1>8
  <2>4. \A k \in 1 .. Len(Frames[n]) : S[e + k - 1] = Frames[n][k]
    BY <2>2, <2>3
  <2>5. QED BY <2>2, <2>4
<1>10. \A k \in 1 .. L : k <= l - q => rx_buf[q + k - 1] = F[k]
  <2>1. ASSUME NEW k \in 1 .. L, k <= l - q PROVE rx_buf[q + k - 1] = F[k]
    <3>1. PICK i \in Nat : i = k - 1
      BY <1>9, <2>1
    <3>2. i \in 0 .. l - q - 1 /\ q + i = q + k - 1 /\ e + i = e + k - 1
      BY <1>2, <1>9, <2>1, <3>1
    <3>3. QED BY <1>4, <1>9, <2>1, <3>2
  <2>2. QED BY <2>1
<1>11. /\ executed' = Append(executed, F) /\ processed' = q + L /\ q + L <= l
  <2>1. InBuffer
    BY DEF LapInv
  <2>2. QED BY <1>2, <1>9, <1>10, <2>1, FrontFrame
<1>12. QED BY <1>2, <1>7, <1>8, <1>9, <1>11

LEMMA LapParse ==
  ASSUME NEW S \in [Cells -> Nat], NEW at \in [0 .. Len(Frames) -> Nat],
         WellFormed, LaidOut(S, at), LapInv(S, at), ParseFound, InBuffer'
  PROVE  LapInv(S, at)'
<1>1. /\ pc = "parse" /\ pc' = "loop"
      /\ UNCHANGED <<rx_buf, rx_len, dma, nextBuf, line, mode, sent, tmp>>
  BY DEF ParseFound, Goto, uartVars
<1>2. PICK e \in Nat, q \in Nat, l \in Nat, f \in Nat, x \in Nat :
         e = at[Len(executed)] /\ q = processed /\ l = rx_len /\ f = From
           /\ x = Len(executed)
  BY LapFacts
<1>3. PICK n \in Nat : n = x + 1
  BY <1>2
<1>4. /\ n \in 1 .. sent /\ n \in 1 .. mode.frames
      /\ executed' = Append(executed, Frames[n])
      /\ processed' = q + Len(Frames[n]) /\ q + Len(Frames[n]) <= l
  BY <1>2, <1>3, LapParseFacts
<1>5. PICK L \in Nat : L = Len(Frames[n]) /\ at[n] = e + L /\ q + L <= l
  <2>1. Clean(mode) /\ mode \in Modes
    BY LapFacts DEF LapInv
  <2>2. n - 1 = x
    BY <1>2, <1>3
  <2>3. Len(Frames[n]) \in Nat /\ at[n] = at[n - 1] + Len(Frames[n])
    BY <1>4, <2>1, Layout
  <2>4. QED BY <1>2, <1>4, <2>2, <2>3
<1>6. executed \in Seq(Seq(Nat)) /\ sent \in Nat /\ sent <= mode.frames
  BY LapFacts
<1>7. /\ Len(executed') = n /\ executed'[n] = Frames[n]
      /\ \A i \in 1 .. x : executed'[i] = executed[i]
  BY <1>2, <1>3, <1>4, <1>6
<1>8. Executing'
  <2>1. \A i \in 1 .. n : i = n \/ i \in 1 .. x
    BY <1>2, <1>3
  <2>2. n \in 0 .. sent
    BY <1>4, <1>6
  <2>3. QED BY <1>1, <1>2, <1>6, <1>7, <2>1, <2>2 DEF LapInv, Executing
<1>9. From' = From /\ Pos' = Pos /\ Lapped' = Lapped
  BY <1>1 DEF From, Pos, Lapped
<1>10. Arriving(S, at)'
  BY <1>1, <1>9 DEF LapInv, Arriving
<1>11. Holding(S, at)'
  <2>1. /\ e <= f /\ l - q = f - e /\ q <= e
        /\ \A i \in 0 .. l - q - 1 : rx_buf[q + i] = S[e + i]
    BY <1>1, <1>2 DEF LapInv, Holding, Base, Held
  <2>2. Base' = q + L /\ Held' = l - (q + L)
    BY <1>1, <1>2, <1>4, <1>5 DEF Base, Held
  <2>3. e + L <= f /\ l - (q + L) = f - (e + L) /\ q + L <= e + L
    <3>1. /\ e \in Nat /\ q \in Nat /\ l \in Nat /\ f \in Nat /\ L \in Nat
          /\ q + L <= l /\ e <= f /\ l - q = f - e /\ q <= e
      BY <1>2, <1>5, <2>1
    <3>2. QED BY <3>1
  <2>4. ASSUME NEW i \in 0 .. l - (q + L) - 1
        PROVE  rx_buf[(q + L) + i] = S[(e + L) + i]
    <3>1. PICK j \in Nat : j = L + i
      BY <1>2, <1>5, <2>4
    <3>2. j \in 0 .. l - q - 1 /\ (q + L) + i = q + j /\ (e + L) + i = e + j
      <4>1. e \in Nat /\ q \in Nat /\ l \in Nat /\ L \in Nat
        BY <1>2, <1>5
      <4>2. QED BY <2>4, <3>1, <4>1
    <3>3. QED BY <2>1, <3>2
  <2>5. /\ at[Len(executed')] = e + L /\ processed' = q + L
        /\ From' = f /\ rx_buf' = rx_buf /\ pc' = "loop"
    BY <1>1, <1>2, <1>4, <1>5, <1>7, <1>9
  <2>6. /\ at[Len(executed')] <= From' /\ Held' = From' - at[Len(executed')]
        /\ processed' <= at[Len(executed')]
    BY <2>2, <2>3, <2>5
  <2>7. \A i \in 0 .. Held' - 1 : rx_buf'[Base' + i] = S[at[Len(executed')] + i]
    BY <2>2, <2>4, <2>5, Zenon
  <2>8. QED BY <2>5, <2>6, <2>7 DEF Holding
<1>12. QED BY <1>1, <1>8, <1>10, <1>11 DEF LapInv

-----------------------------------------------------------------------------
LEMMA LapStep ==
  ASSUME NEW S \in [Cells -> Nat], NEW at \in [0 .. Len(Frames) -> Nat],
         WellFormed, LaidOut(S, at), LapInv(S, at), [Next]_vars
  PROVE  LapInv(S, at)'
<1>1. InBuffer'
  BY InBufferStep DEF LapInv
<1>2. CASE Send
  BY <1>1, <1>2, LapSend
<1>3. CASE DmaByte
  BY <1>1, <1>3, LapDmaByte
<1>4. CASE IdleInterrupt
  BY <1>1, <1>4, LapIdle
<1>5. CASE FullInterrupt
  BY <1>1, <1>5, LapFull
<1>6. CASE Wake \/ LoopTest \/ ParseNone \/ TrimTest \/ EmptyTest \/ TxByte
             \/ UNCHANGED vars
  BY <1>1, <1>6, LapTests
<1>7. CASE Move \/ SubtractRead \/ SubtractWrite \/ Zero
  BY <1>1, <1>7, LapTrim
<1>8. CASE ParseFound
  BY <1>1, <1>8, LapParse
<1>9. QED BY <1>2, <1>3, <1>4, <1>5, <1>6, <1>7, <1>8 DEF Next, MainLoop

\* While interrupts come in the sleep only and the line is clean, for any frames that
\* fit rx_buf once: what the handlers are given is what was sent, in order, once.
InOrderOnce ==
  Clean(mode) =>
    /\ Len(executed) <= sent
    /\ \A i \in 1 .. Len(executed) : executed[i] = Frames[i]

\* An answer is whole when it is the only one under way: a host that waits sends the
\* next frame when all four bytes have come, so resp is not written in between.
AnswersTo(a) ==
  /\ Len(reply) = 4 * a + (IF tx = 0 THEN 0 ELSE tx - 1)
  /\ sent <= a + 1
  /\ Len(executed) = (IF tx = 0 THEN a ELSE a + 1)
  /\ tx # 0 => resp[1] = Header /\ resp[2] = 1 /\ resp[3] = a + 1
  /\ \A k \in 1 .. 3 : k < tx => reply[4 * a + k] = resp[k]
  /\ \A j \in 1 .. a : /\ reply[4 * (j - 1) + 1] = Header
                       /\ reply[4 * (j - 1) + 2] = 1
                       /\ reply[4 * (j - 1) + 3] = j

AnswerInv == \E a \in Nat : AnswersTo(a)

LEMMA CountOfAnswers ==
  ASSUME NEW a \in Nat, NEW r \in 0 .. 3, Len(reply) = 4 * a + r
  PROVE  Answers = a
<1>1. \A n \in Nat, m \in 0 .. 3 : (4 * n + m) \div 4 = n
  OBVIOUS
<1>2. QED BY <1>1, Constants DEF Answers

LEMMA AnswerStep ==
  ASSUME NEW S \in [Cells -> Nat], NEW at \in [0 .. Len(Frames) -> Nat],
         WellFormed, LaidOut(S, at), LapInv(S, at), mode.window = 1, AnswerInv,
         [Next]_vars
  PROVE  AnswerInv'
<1>1. PICK a \in Nat : AnswersTo(a)
  BY DEF AnswerInv
<1>2. /\ tx \in 0 .. 4 /\ resp \in [1 .. 5 -> Nat] /\ reply \in Seq(Nat)
      /\ executed \in Seq(Seq(Nat)) /\ sent \in Nat /\ Len(executed) \in Nat
      /\ Len(executed) <= sent
  <2>1. TypeOK
    BY DEF LapInv, InBuffer
  <2>2. QED BY <2>1, LapFacts, Constants DEF TypeOK
<1>3. /\ Len(reply) = 4 * a + (IF tx = 0 THEN 0 ELSE tx - 1)
      /\ sent <= a + 1
      /\ Len(executed) = (IF tx = 0 THEN a ELSE a + 1)
      /\ tx # 0 => resp[1] = Header /\ resp[2] = 1 /\ resp[3] = a + 1
      /\ \A k \in 1 .. 3 : k < tx => reply[4 * a + k] = resp[k]
      /\ \A j \in 1 .. a : /\ reply[4 * (j - 1) + 1] = Header
                           /\ reply[4 * (j - 1) + 2] = 1
                           /\ reply[4 * (j - 1) + 3] = j
  BY <1>1 DEF AnswersTo
<1>4. SUFFICES \E b \in Nat : AnswersTo(b)'
  BY DEF AnswerInv
<1>5. CASE Send
  <2>1. Answers = a
    <3>1. (IF tx = 0 THEN 0 ELSE tx - 1) \in 0 .. 3
      BY <1>2
    <3>2. QED BY <1>3, <3>1, CountOfAnswers, Constants
  <2>2. sent' <= a + 1 /\ UNCHANGED <<executed, resp, tx, reply>>
    BY <1>2, <1>5, <2>1 DEF Send, txVars
  <2>3. AnswersTo(a)'
    BY <1>3, <2>2 DEF AnswersTo
  <2>4. QED BY <2>3, <1>4
<1>6. CASE ParseFound
  <2>1. Len(executed) + 1 \in 1 .. sent
    BY <1>6, LapParseFacts
  <2>2. tx = 0 /\ Len(executed) = a
    BY <1>3, <1>2, <2>1
  <2>3. /\ executed' = Append(executed, Frames[Len(executed) + 1])
        /\ resp' = [resp EXCEPT ![1] = Header, ![2] = 1, ![3] = Len(executed'),
                                ![StructSize] = Tail0]
        /\ tx' = (IF tx = 0 THEN 1 ELSE tx)
        /\ UNCHANGED <<reply, sent>>
    BY <1>6, LapParseFacts DEF ParseFound, SendResponse
  <2>4. Len(executed') = a + 1 /\ tx' = 1
    BY <1>2, <2>2, <2>3
  <2>5. resp'[1] = Header /\ resp'[2] = 1 /\ resp'[3] = a + 1
    <3>1. resp' = [resp EXCEPT ![1] = Header, ![2] = 1, ![3] = a + 1, ![5] = Tail0]
      BY <2>3, <2>4, Constants
    <3>2. QED BY <1>2, <3>1
  <2>6. Len(reply') = 4 * a + (1 - 1)
    BY <1>3, <1>2, <2>2, <2>3
  <2>7. \A k \in 1 .. 3 : ~(k < 1)
    OBVIOUS
  <2>8. AnswersTo(a)'
    <3>1. sent' <= a + 1
      BY <1>3, <2>3
    <3>2. UNCHANGED reply
      BY <2>3
    <3>3. QED BY <1>3, <2>4, <2>5, <2>6, <2>7, <3>1, <3>2 DEF AnswersTo
  <2>9. QED BY <2>8, <1>4
<1>7. CASE TxByte
  <2>1. /\ tx \in 1 .. 4 /\ reply' = Append(reply, resp[tx])
        /\ tx' = (IF tx = 4 THEN 0 ELSE tx + 1)
        /\ UNCHANGED <<sent, executed, resp>>
    BY <1>2, <1>7, Constants DEF TxByte
  <2>2. PICK n \in Nat : n = Len(reply) /\ n = 4 * a + (tx - 1)
    BY SMTT(30), <1>3, <1>2, <2>1
  <2>3. /\ Len(reply') = n + 1 /\ reply'[n + 1] = resp[tx]
        /\ \A i \in 1 .. n : reply'[i] = reply[i]
    <3>1. reply \in Seq(Nat) /\ resp[tx] \in Nat
      BY SMTT(30), <1>2, <2>1
    <3>2. /\ Len(Append(reply, resp[tx])) = Len(reply) + 1
          /\ \A i \in 1 .. Len(reply) : Append(reply, resp[tx])[i] = reply[i]
          /\ Append(reply, resp[tx])[Len(reply) + 1] = resp[tx]
      BY <3>1, AppendProperties
    <3>3. QED BY <2>1, <2>2, <3>2
  <2>4. \A j \in 1 .. a : /\ reply'[4 * (j - 1) + 1] = Header
                          /\ reply'[4 * (j - 1) + 2] = 1
                          /\ reply'[4 * (j - 1) + 3] = j
    <3>1. \A j \in 1 .. a : /\ 4 * (j - 1) + 1 \in 1 .. n
                            /\ 4 * (j - 1) + 2 \in 1 .. n
                            /\ 4 * (j - 1) + 3 \in 1 .. n
      BY <1>3, <2>1, <2>2
    <3>2. QED BY <1>3, <2>3, <3>1
  <2>5. \A k \in 1 .. 3 : k <= tx => reply'[4 * a + k] = resp[k]
    <3>1. ASSUME NEW k \in 1 .. 3, k <= tx PROVE reply'[4 * a + k] = resp[k]
      <4>1. CASE k = tx
        <5>1. 4 * a + k = n + 1
          BY <1>3, <2>1, <2>2, <4>1
        <5>2. QED BY <2>3, <4>1, <5>1
      <4>2. CASE k < tx
        <5>1. 4 * a + k \in 1 .. n
          BY <1>3, <2>1, <2>2, <4>2
        <5>2. QED BY <1>3, <2>3, <4>2, <5>1
      <4>3. k < tx \/ k = tx
        BY <2>1, <3>1
      <4>4. QED BY <4>1, <4>2, <4>3
    <3>2. QED BY <3>1
  <2>6. CASE tx < 4
    <3>1. tx' = tx + 1 /\ tx' # 0 /\ \A k \in 1 .. 3 : k < tx + 1 => k <= tx
      BY <2>1, <2>6
    <3>2. Len(reply') = 4 * a + (tx' - 1)
      BY <2>1, <2>2, <2>3, <3>1
    <3>3. \A k \in 1 .. 3 : k < tx' => reply'[4 * a + k] = resp'[k]
      BY <2>1, <2>5, <3>1
    <3>4. /\ sent' <= a + 1 /\ Len(executed') = a + 1
          /\ resp'[1] = Header /\ resp'[2] = 1 /\ resp'[3] = a + 1
      BY <1>3, <2>1
    <3>5. AnswersTo(a)'
      BY <2>4, <3>1, <3>2, <3>3, <3>4 DEF AnswersTo
    <3>6. QED BY <3>5, <1>4
  <2>7. CASE tx = 4
    <3>1. PICK b \in Nat : b = a + 1
      BY <1>3
    <3>2. tx' = 0 /\ Len(reply') = 4 * b + 0
      BY <2>1, <2>2, <2>3, <2>7, <3>1
    <3>3. sent' <= b + 1 /\ Len(executed') = b
      BY <1>3, <1>2, <2>1, <2>7, <3>1
    <3>4. \A k \in 1 .. 3 : ~(k < 0) /\ k <= tx
      BY <2>7
    <3>5. resp[1] = Header /\ resp[2] = 1 /\ resp[3] = b
      BY <1>3, <2>1, <3>1
    <3>6. 4 * (b - 1) = 4 * a
      BY <3>1
    <3>7. /\ reply'[4 * (b - 1) + 1] = Header
          /\ reply'[4 * (b - 1) + 2] = 1
          /\ reply'[4 * (b - 1) + 3] = b
      <4>1. /\ reply'[4 * a + 1] = resp[1] /\ reply'[4 * a + 2] = resp[2]
            /\ reply'[4 * a + 3] = resp[3]
        BY <2>5, <2>7
      <4>2. QED BY <3>5, <3>6, <4>1
    <3>8. \A j \in 1 .. b : j = b \/ j \in 1 .. a
      BY <3>1
    <3>9. \A j \in 1 .. b : /\ reply'[4 * (j - 1) + 1] = Header
                            /\ reply'[4 * (j - 1) + 2] = 1
                            /\ reply'[4 * (j - 1) + 3] = j
      BY <2>4, <3>7, <3>8
    <3>10. AnswersTo(b)'
      BY <3>2, <3>3, <3>4, <3>9 DEF AnswersTo
    <3>11. QED BY <3>1, <3>10, <1>4
  <2>8. QED BY <2>1, <2>6, <2>7
<1>8. CASE UNCHANGED <<sent, executed, resp, tx, reply>>
  <2>1. AnswersTo(a)'
    BY <1>3, <1>8 DEF AnswersTo
  <2>2. QED BY <2>1, <1>4
<1>9. QED
  BY <1>5, <1>6, <1>7, <1>8
     DEF Next, MainLoop, vars, txVars, DmaByte, IdleInterrupt, FullInterrupt, Wake,
         LoopTest, ParseNone, TrimTest, Move, SubtractRead, SubtractWrite, EmptyTest, Zero

-----------------------------------------------------------------------------
(* The theorems. *)

\* What holds in the clean modes, and what besides for a host that waits.
RxInv(S, at) ==
  Clean(mode) => LapInv(S, at) /\ (mode.window = 1 => AnswerInv)

LEMMA RxInvariant ==
  ASSUME NEW S \in [Cells -> Nat], NEW at \in [0 .. Len(Frames) -> Nat],
         WellFormed, LaidOut(S, at)
  PROVE  Spec => []RxInv(S, at)
<1>1. Init => RxInv(S, at)
  <2> SUFFICES ASSUME Init, Clean(mode) PROVE LapInv(S, at) /\ AnswerInv
    BY DEF RxInv
  <2>1. LapInv(S, at)
    BY LapInit
  <2>2. sent = 0 /\ executed = <<>> /\ tx = 0 /\ reply = <<>>
    BY DEF Init
  <2>3. AnswersTo(0)
    <3>1. Len(reply) = 0 /\ Len(executed) = 0
      BY <2>2
    <3>2. \A k \in 1 .. 3 : ~(k < 0)
      OBVIOUS
    <3>3. QED BY <2>2, <3>1, <3>2 DEF AnswersTo
  <2>4. QED BY <2>1, <2>3 DEF AnswerInv
<1>2. RxInv(S, at) /\ [Next]_vars => RxInv(S, at)'
  <2> SUFFICES ASSUME RxInv(S, at), [Next]_vars, Clean(mode)'
               PROVE  LapInv(S, at)' /\ ((mode.window = 1)' => AnswerInv')
    BY DEF RxInv
  <2>1. mode' = mode
    BY DEF Next, MainLoop, Send, DmaByte, IdleInterrupt, FullInterrupt, TxByte, Wake,
           LoopTest, ParseFound, ParseNone, TrimTest, Move, SubtractRead,
           SubtractWrite, EmptyTest, Zero, vars, uartVars
  <2>2. LapInv(S, at) /\ (mode.window = 1 => AnswerInv)
    BY <2>1 DEF RxInv, Clean
  <2>3. LapInv(S, at)'
    BY <2>2, LapStep
  <2>4. mode.window = 1 => AnswerInv'
    BY <2>2, AnswerStep
  <2>5. QED BY <2>1, <2>3, <2>4
<1>3. QED BY <1>1, <1>2, PTL DEF Spec

\* Frames that fit rx_buf once reach the handlers as they were sent, in order and
\* once, in whatever pieces the UART reports them.
THEOREM FramesInOrderOnce == ASSUME OneLap PROVE Spec => []InOrderOnce
<1>1. PICK S \in [Cells -> Nat], at \in [0 .. Len(Frames) -> Nat] : LaidOut(S, at)
  BY LayoutExists
<1>2. WellFormed
  BY DEF OneLap
<1>3. RxInv(S, at) => InOrderOnce
  BY <1>1, <1>2, LapFacts DEF RxInv, InOrderOnce, LapInv, Executing
<1>4. Spec => []RxInv(S, at)
  BY <1>1, <1>2, RxInvariant
<1>5. QED BY <1>3, <1>4, PTL

\* ... and a host that waits for each answer before it sends the next frame gets
\* every answer whole, although all are sent out of the same memory.
THEOREM AnswersAreWhole == ASSUME OneLap PROVE Spec => []AnswersWhole
<1>1. PICK S \in [Cells -> Nat], at \in [0 .. Len(Frames) -> Nat] : LaidOut(S, at)
  BY LayoutExists
<1>2. WellFormed
  BY DEF OneLap
<1>3. RxInv(S, at) => AnswersWhole
  <2> SUFFICES ASSUME RxInv(S, at), mode.window = 1, Clean(mode),
                      NEW j \in 1 .. Answers
               PROVE  SubSeq(reply, 4 * (j - 1) + 1, 4 * (j - 1) + 3) = <<Header, 1, j>>
    BY Constants DEF AnswersWhole, Clean
  <2>1. LapInv(S, at) /\ AnswerInv
    BY DEF RxInv
  <2>2. PICK a \in Nat : AnswersTo(a)
    BY <2>1 DEF AnswerInv
  <2>3. tx \in 0 .. 4 /\ reply \in Seq(Nat)
    BY <2>1, Constants DEF LapInv, InBuffer, TypeOK
  <2>4. Answers = a
    <3>1. (IF tx = 0 THEN 0 ELSE tx - 1) \in 0 .. 3
      BY <2>3
    <3>2. QED BY <2>2, <3>1, CountOfAnswers DEF AnswersTo
  <2>5. PICK i \in Nat : i = 4 * (j - 1)
    BY <2>4
  <2>6. reply[i + 1] = Header /\ reply[i + 2] = 1 /\ reply[i + 3] = j
    BY <2>2, <2>4, <2>5 DEF AnswersTo
  <2>7. SubSeq(reply, i + 1, i + 3) = <<Header, 1, j>>
    <3>1. SubSeq(reply, i + 1, i + 3) = [k \in 1 .. 3 |-> reply[(i + 1) + k - 1]]
      <4>1. (1 + (i + 3)) - (i + 1) = 3
        BY <2>5
      <4>2. QED BY <4>1
    <3>2. /\ (i + 1) + 1 - 1 = i + 1 /\ (i + 1) + 2 - 1 = i + 2
          /\ (i + 1) + 3 - 1 = i + 3
      BY <2>5
    <3>3. \A k \in 1 .. 3 : reply[(i + 1) + k - 1] = <<Header, 1, j>>[k]
      <4>1. \A k \in 1 .. 3 : k = 1 \/ k = 2 \/ k = 3
        OBVIOUS
      <4>2. QED BY <2>6, <3>2, <4>1
    <3>4. <<Header, 1, j>> = [k \in 1 .. 3 |-> <<Header, 1, j>>[k]]
      OBVIOUS
    <3>5. QED BY <3>1, <3>3, <3>4
  <2>8. QED BY <2>5, <2>7
<1>4. Spec => []RxInv(S, at)
  BY <1>1, <1>2, RxInvariant
<1>5. QED BY <1>3, <1>4, PTL

-----------------------------------------------------------------------------
(* Nothing is lost. *)

\* The bytes of S from a up to b.
Word(S, a, b) == [i \in 1 .. b - a |-> S[a + i - 1]]

LEMMA WordType ==
  ASSUME NEW S \in [Cells -> Nat], NEW a \in Nat, NEW b \in Nat, a <= b, b <= RxSize
  PROVE  /\ Word(S, a, b) \in Seq(Nat) /\ Len(Word(S, a, b)) = b - a
         /\ \A i \in 1 .. b - a : Word(S, a, b)[i] = S[a + i - 1]
<1>1. RxSize \in Nat /\ b - a \in Nat
  BY Constants
<1>2. \A i \in 1 .. b - a : S[a + i - 1] \in Nat
  <2>1. \A i \in 1 .. b - a : a + i - 1 \in Cells
    BY <1>1 DEF Cells
  <2>2. QED BY <2>1
<1>3. QED BY <1>1, <1>2 DEF Word

\* A sequence whose bytes are those of S from a up to b.
LEMMA WordIs ==
  ASSUME NEW S \in [Cells -> Nat], NEW a \in Nat, NEW b \in Nat, a <= b, b <= RxSize,
         NEW s \in Seq(Nat), Len(s) = b - a, \A i \in 1 .. b - a : s[i] = S[a + i - 1]
  PROVE  s = Word(S, a, b)
<1>1. PICK w \in Seq(Nat) :
        w = Word(S, a, b) /\ Len(w) = b - a /\ \A i \in 1 .. b - a : w[i] = S[a + i - 1]
  BY Zenon, WordType
<1>2. \A i \in 1 .. Len(s) : s[i] = w[i]
  BY Zenon, <1>1
<1>3. Len(s) = Len(w)
  BY Zenon, <1>1
<1>4. s = w
  BY Zenon, <1>2, <1>3, SeqEqual
<1>5. QED BY <1>1, <1>4

LEMMA WordsJoin ==
  ASSUME NEW S \in [Cells -> Nat], NEW a \in Nat, NEW b \in Nat, NEW c \in Nat,
         a <= b, b <= c, c <= RxSize
  PROVE  Word(S, a, b) \o Word(S, b, c) = Word(S, a, c)
<1>1. RxSize \in Nat /\ b <= RxSize /\ a <= c
  BY Constants
<1>2. PICK v \in Seq(Nat) :
        v = Word(S, a, b) /\ Len(v) = b - a /\ \A i \in 1 .. b - a : v[i] = S[a + i - 1]
  BY ZenonT(30), <1>1, WordType
<1>3. PICK w \in Seq(Nat) :
        w = Word(S, b, c) /\ Len(w) = c - b /\ \A i \in 1 .. c - b : w[i] = S[b + i - 1]
  BY ZenonT(30), <1>1, WordType
<1>4. Behind(v \o w, v, w)
  BY ConcatProperties DEF Behind
<1>5. v \o w \in Seq(Nat) /\ Len(v \o w) = c - a
  <2>1. Len(v \o w) = (b - a) + (c - b)
    BY Zenon, <1>2, <1>3, <1>4 DEF Behind
  <2>2. (b - a) + (c - b) = c - a
    OBVIOUS
  <2>3. QED BY Zenon, <1>4, <2>1, <2>2 DEF Behind
<1>6. ASSUME NEW i \in 1 .. c - a PROVE (v \o w)[i] = S[a + i - 1]
  <2>1. CASE i \in 1 .. b - a
    BY Zenon, <1>2, <1>4, <2>1 DEF Behind
  <2>2. CASE i \notin 1 .. b - a
    <3>1. PICK k \in Int : k = i - (b - a)
      OBVIOUS
    <3>2. k \in 1 .. c - b /\ i = (b - a) + k /\ b + k - 1 = a + i - 1
      BY <2>2, <3>1
    <3>3. (v \o w)[(b - a) + k] = w[k]
      BY Zenon, <1>2, <1>3, <1>4, <3>2 DEF Behind
    <3>4. QED BY Zenon, <1>3, <3>2, <3>3
  <2>3. QED BY <2>1, <2>2
<1>7. v \o w = Word(S, a, c)
  BY <1>1, <1>5, <1>6, WordIs
<1>8. QED BY <1>2, <1>3, <1>7

\* The frames one behind the other, as they are laid out.
LEMMA WordOfFrames ==
  ASSUME NEW S \in [Cells -> Nat], NEW at \in [0 .. Len(Frames) -> Nat],
         WellFormed, LaidOut(S, at), NEW m \in Modes, Clean(m),
         NEW f, Joined(f, Frames)
  PROVE  \A n \in 0 .. m.frames : f[n] = Word(S, 0, at[n])
<1>1. /\ m.frames \in Nat /\ m.frames <= Len(Frames) /\ Len(Frames) \in Nat
      /\ Frames \in Seq(Seq(Nat)) /\ at[0] = 0
  BY Constants DEF LaidOut
<1>2. /\ \A n \in 0 .. m.frames : at[n] \in Nat /\ at[n] <= RxSize
      /\ \A n \in 1 .. m.frames :
           /\ Frames[n] \in Seq(Nat) /\ Len(Frames[n]) \in Nat
           /\ at[n] = at[n - 1] + Len(Frames[n])
           /\ \A k \in 1 .. Len(Frames[n]) : S[at[n - 1] + k - 1] = Frames[n][k]
  BY Layout
<1> DEFINE T == {n \in Nat : n <= m.frames => f[n] = Word(S, 0, at[n])}
<1>3. 0 \in T
  <2>1. f[0] = <<>>
    BY Zenon, <1>1, JoinsType
  <2>2. <<>> = Word(S, 0, 0)
    BY DEF Word
  <2>3. QED BY <1>1, <2>1, <2>2
<1>4. ASSUME NEW n \in Nat, n \in T PROVE n + 1 \in T
  <2>1. CASE n + 1 <= m.frames
    <3>1. /\ n + 1 \in 1 .. m.frames /\ n + 1 \in 1 .. Len(Frames) /\ (n + 1) - 1 = n
          /\ n \in 0 .. m.frames /\ n + 1 \in 0 .. m.frames
      BY <1>1, <2>1
    <3>2. PICK a \in Nat, b \in Nat, l \in Nat :
            a = at[n] /\ b = at[n + 1] /\ l = Len(Frames[n + 1])
      BY Zenon, <1>2, <3>1
    <3>3. /\ b = a + l /\ b <= RxSize /\ Frames[n + 1] \in Seq(Nat)
          /\ \A k \in 1 .. l : S[a + k - 1] = Frames[n + 1][k]
      <4>1. /\ at[n + 1] = at[(n + 1) - 1] + Len(Frames[n + 1]) /\ at[n + 1] <= RxSize
            /\ Frames[n + 1] \in Seq(Nat)
        BY Zenon, <1>2, <3>1
      <4>2. \A k \in 1 .. Len(Frames[n + 1]) : S[at[(n + 1) - 1] + k - 1] = Frames[n + 1][k]
        BY Zenon, <1>2, <3>1
      <4>3. QED BY Zenon, <3>1, <3>2, <4>1, <4>2
    <3>4. f[n] = Word(S, 0, a)
      <4>1. n <= m.frames
        BY <1>1, <2>1
      <4>2. f[n] = Word(S, 0, at[n])
        BY Zenon, <1>4, <4>1
      <4>3. QED BY Zenon, <3>2, <4>2
    <3>5. Frames[n + 1] = Word(S, a, b)
      <4>1. b - a = l /\ a <= b
        BY <3>3
      <4>2. /\ Len(Frames[n + 1]) = b - a
            /\ \A k \in 1 .. b - a : Frames[n + 1][k] = S[a + k - 1]
        BY Zenon, <3>2, <3>3, <4>1
      <4>3. QED BY Zenon, <3>3, <4>1, <4>2, WordIs
    <3>6. f[n + 1] = f[n] \o Frames[n + 1]
      <4>1. Behind(f[n + 1], f[(n + 1) - 1], Frames[n + 1])
        BY <1>1, <3>1, JoinsStep
      <4>2. QED BY Zenon, <3>1, <4>1 DEF Behind
    <3>7. Word(S, 0, a) \o Word(S, a, b) = Word(S, 0, b)
      <4>1. 0 \in Nat /\ 0 <= a /\ a <= b /\ b <= RxSize
        BY <3>3
      <4>2. QED BY Zenon, <4>1, WordsJoin
    <3>8. f[n + 1] = Word(S, 0, at[n + 1])
      BY Zenon, <3>2, <3>4, <3>5, <3>6, <3>7
    <3>9. QED BY <3>8
  <2>2. QED BY <2>1
<1>5. \A n \in Nat : n \in T
  <2> HIDE DEF T
  <2> QED BY <1>3, <1>4, NaturalInduction
<1>6. QED BY <1>1, <1>5

LEMMA LapLosesNothing ==
  ASSUME NEW S \in [Cells -> Nat], NEW at \in [0 .. Len(Frames) -> Nat],
         WellFormed, LaidOut(S, at), LapInv(S, at)
  PROVE  Concat(SubSeq(Frames, 1, sent)) =
           Concat(executed) \o Pending \o Bytes(dma.from, dma.pos) \o line
<1>1. /\ RxSize \in Nat /\ mode \in Modes /\ mode.frames \in Nat
      /\ mode.frames <= Len(Frames) /\ Len(Frames) \in Nat
      /\ sent \in Nat /\ sent <= mode.frames /\ at[sent] <= RxSize
      /\ Len(executed) \in Nat /\ Len(executed) <= sent
      /\ rx_len \in Nat /\ processed \in Nat /\ rx_len <= RxSize
      /\ line \in Seq(Nat) /\ Len(line) \in Nat
      /\ executed \in Seq(Seq(Nat)) /\ rx_buf \in [Cells -> Nat]
  BY LapFacts
<1>2. PICK e \in Nat, r \in Nat, p \in Nat, s \in Nat :
        e = at[Len(executed)] /\ r = From /\ p = Pos /\ s = at[sent]
  BY LapFacts
<1>3. /\ e <= r /\ r <= p /\ p <= s /\ s <= RxSize
      /\ Held = r - e /\ Len(line) = s - p
      /\ \A i \in 0 .. Held - 1 : rx_buf[Base + i] = S[e + i]
      /\ \A i \in r .. p - 1 : rx_buf[i] = S[i]
      /\ \A k \in 1 .. Len(line) : line[k] = S[p + k - 1]
  BY <1>1, <1>2 DEF LapInv, Arriving, Holding
<1>4. PICK f : Joined(f, Frames)
  BY Zenon, Constants, JoinsExist
<1>5. \A n \in 0 .. mode.frames : f[n] = Word(S, 0, at[n])
  <2>1. Clean(mode)
    BY DEF LapInv
  <2>2. mode \in Modes
    BY <1>1
  <2>3. PICK m \in Modes : m = mode
    BY <2>2
  <2>4. \A n \in 0 .. m.frames : f[n] = Word(S, 0, at[n])
    BY <1>4, <2>1, <2>3, WordOfFrames
  <2>5. QED BY Zenon, <2>3, <2>4
<1>6. Concat(SubSeq(Frames, 1, sent)) = Word(S, 0, s)
  <2>1. sent \in 0 .. Len(Frames) /\ sent \in 0 .. mode.frames /\ sent <= Len(Frames)
    BY <1>1
  <2>2. /\ SubSeq(Frames, 1, sent) \in Seq(Seq(Nat)) /\ Len(SubSeq(Frames, 1, sent)) = sent
        /\ \A i \in 1 .. sent : SubSeq(Frames, 1, sent)[i] = Frames[i]
    BY Zenon, <2>1, Constants, FirstOf
  <2>3. PICK t : t = SubSeq(Frames, 1, sent)
    OBVIOUS
  <2>4. Concat(t) = f[Len(t)]
    <3>1. t \in Seq(Seq(Nat)) /\ Len(t) <= Len(Frames) /\ \A n \in 1 .. Len(t) : t[n] = Frames[n]
      BY Zenon, <2>1, <2>2, <2>3
    <3>2. Frames \in Seq(Seq(Nat))
      BY Constants
    <3>3. QED BY Zenon, <1>4, <3>1, <3>2, ConcatOfFirst
  <2>5. QED BY Zenon, <1>2, <1>5, <2>1, <2>2, <2>3, <2>4
<1>7. Concat(executed) = Word(S, 0, e)
  <2>1. Len(executed) <= Len(Frames) /\ Len(executed) \in 0 .. mode.frames
    BY <1>1
  <2>2. \A i \in 1 .. Len(executed) : executed[i] = Frames[i]
    BY DEF LapInv, Executing
  <2>3. Concat(executed) = f[Len(executed)]
    BY Zenon, <1>1, <1>4, <2>1, <2>2, Constants, ConcatOfFirst
  <2>4. QED BY Zenon, <1>2, <1>5, <2>1, <2>3
<1>8. Pending = Word(S, e, r)
  <2>1. Pending = [i \in 1 .. Held |-> rx_buf[Base + i - 1]]
    <3>1. CASE pc = "sleep"
      <4>1. Pending = [i \in 1 .. rx_len - 0 |-> rx_buf[0 + i - 1]]
        BY <3>1 DEF Pending, Bytes
      <4>2. Base = 0 /\ Held = rx_len /\ rx_len - 0 = rx_len
        BY <1>1, <3>1 DEF Base, Held
      <4>3. QED BY Zenon, <4>1, <4>2
    <3>2. CASE pc \in {"read", "write"}
      <4>1. Pending = [i \in 1 .. (rx_len - processed) - 0 |-> rx_buf[0 + i - 1]]
        BY <3>2 DEF Pending, Bytes
      <4>2. Base = 0 /\ Held = rx_len - processed /\ (rx_len - processed) - 0 = rx_len - processed
        BY <1>1, <3>2 DEF Base, Held
      <4>3. QED BY Zenon, <4>1, <4>2
    <3>3. CASE pc \notin {"sleep", "read", "write"}
      <4>1. Pending = [i \in 1 .. rx_len - processed |-> rx_buf[processed + i - 1]]
        BY <3>3 DEF Pending, Bytes
      <4>2. Base = processed /\ Held = rx_len - processed
        BY <3>3 DEF Base, Held
      <4>3. QED BY Zenon, <4>1, <4>2
    <3>4. QED BY <3>1, <3>2, <3>3
  <2>2. PICK b \in Nat : b = Base
    BY <1>1 DEF Base
  <2>3. ASSUME NEW i \in 1 .. r - e PROVE rx_buf[b + i - 1] = S[e + i - 1]
    <3>1. PICK k \in Int : k = i - 1
      OBVIOUS
    <3>2. k \in 0 .. (r - e) - 1 /\ b + i - 1 = b + k /\ e + i - 1 = e + k
      BY <3>1
    <3>3. QED BY Zenon, <1>3, <2>2, <3>2
  <2>4. Pending = [i \in 1 .. r - e |-> rx_buf[b + i - 1]]
    BY Zenon, <1>3, <2>1, <2>2
  <2>5. QED BY <2>3, <2>4 DEF Word
<1>9. Bytes(dma.from, dma.pos) = Word(S, r, p)
  <2>1. CASE Lapped
    <3>1. dma.from = 0 /\ dma.pos = 0 /\ r = RxSize /\ p = RxSize
      BY <1>2, <2>1 DEF LapInv, Arriving, From, Pos
    <3>2. 1 .. 0 - 0 = {} /\ 1 .. r - p = {} /\ 1 .. p - r = {}
      BY <1>1, <3>1
    <3>3. QED BY <3>1, <3>2 DEF Bytes, Word
  <2>2. CASE ~Lapped
    <3>1. dma.from = r /\ dma.pos = p
      BY <1>2, <2>2 DEF From, Pos
    <3>2. Bytes(dma.from, dma.pos) = [i \in 1 .. p - r |-> rx_buf[r + i - 1]]
      BY Zenon, <3>1 DEF Bytes
    <3>3. ASSUME NEW i \in 1 .. p - r PROVE rx_buf[r + i - 1] = S[r + i - 1]
      <4>1. r + i - 1 \in r .. p - 1
        OBVIOUS
      <4>2. QED BY <1>3, <4>1
    <3>4. QED BY <3>2, <3>3 DEF Word
  <2>3. QED BY <2>1, <2>2
<1>10. line = Word(S, p, s)
  <2>1. Len(line) = s - p /\ \A k \in 1 .. s - p : line[k] = S[p + k - 1]
    BY Zenon, <1>3
  <2>2. QED BY ZenonT(30), <1>1, <1>3, <2>1, WordIs
<1>11. /\ Word(S, 0, e) \o Word(S, e, r) = Word(S, 0, r)
       /\ Word(S, 0, r) \o Word(S, r, p) = Word(S, 0, p)
       /\ Word(S, 0, p) \o Word(S, p, s) = Word(S, 0, s)
  <2>1. /\ r <= RxSize /\ p <= RxSize
        /\ 0 \in Nat /\ 0 <= e /\ 0 <= r /\ 0 <= p
    BY <1>1, <1>3
  <2>2. Word(S, 0, e) \o Word(S, e, r) = Word(S, 0, r)
    BY Zenon, <1>3, <2>1, WordsJoin
  <2>3. Word(S, 0, r) \o Word(S, r, p) = Word(S, 0, p)
    BY Zenon, <1>3, <2>1, WordsJoin
  <2>4. Word(S, 0, p) \o Word(S, p, s) = Word(S, 0, s)
    BY Zenon, <1>3, <2>1, WordsJoin
  <2>5. QED BY <2>2, <2>3, <2>4
<1>12. QED BY Zenon, <1>6, <1>7, <1>8, <1>9, <1>10, <1>11

\* While interrupts come in the sleep only, no byte of frames that fit rx_buf once is
\* lost, repeated or moved out of its place: what was sent is what has been executed,
\* what is buffered, what the UART has not reported and what is on the line.
THEOREM NothingIsLost == ASSUME OneLap PROVE Spec => []NothingLost
<1>1. PICK S \in [Cells -> Nat], at \in [0 .. Len(Frames) -> Nat] : LaidOut(S, at)
  BY LayoutExists
<1>2. WellFormed
  BY DEF OneLap
<1>3. RxInv(S, at) => NothingLost
  <2> SUFFICES ASSUME RxInv(S, at), ~mode.preempt /\ mode.noise = 0
               PROVE  Concat(SubSeq(Frames, 1, sent)) =
                        Concat(executed) \o Pending \o Bytes(dma.from, dma.pos) \o line
    BY DEF NothingLost
  <2>1. LapInv(S, at)
    BY DEF RxInv, Clean
  <2>2. QED BY <1>1, <1>2, <2>1, LapLosesNothing
<1>4. Spec => []RxInv(S, at)
  BY <1>1, <1>2, RxInvariant
<1>5. QED BY <1>3, <1>4, PTL

-----------------------------------------------------------------------------
(* The receive path implements FrameChannel, but for its liveness. *)

\* No mode promises anything about a disturbed line, and no frame is sent twice.
Quiet    == \A m \in Modes : m.preempt \/ m.noise = 0
Distinct == \A i, j \in 1 .. Len(Frames) : Frames[i] = Frames[j] => i = j

ChannelSafety == Channel!Init /\ [][Channel!Next]_(Channel!vars)

\* The first frames, numbered.
LEMMA Numbered ==
  ASSUME Distinct, NEW q \in Seq(Seq(Nat)), Len(q) <= Len(Frames),
         \A i \in 1 .. Len(q) : q[i] = Frames[i]
  PROVE  [i \in DOMAIN q |-> Number(q[i])] = [i \in 1 .. Len(q) |-> i]
<1>1. Frames \in Seq(Seq(Nat)) /\ Len(Frames) \in Nat
  BY Constants
<1>2. /\ DOMAIN q = 1 .. Len(q) /\ DOMAIN Frames = 1 .. Len(Frames)
      /\ Len(q) \in Nat
  BY <1>1, LenProperties
<1>3. \A i \in 1 .. Len(q) : i \in 1 .. Len(Frames)
  BY <1>1, <1>2
<1>4. \A i \in 1 .. Len(q) : Number(q[i]) = i
  BY <1>2, <1>3 DEF Number, Distinct
<1>5. QED BY <1>2, <1>4

LEMMA ChannelStep ==
  ASSUME NEW S \in [Cells -> Nat], NEW at \in [0 .. Len(Frames) -> Nat],
         WellFormed, LaidOut(S, at), Distinct, Quiet, mode \in Modes,
         RxInv(S, at), RxInv(S, at)', [Next]_vars
  PROVE  Channel!Next \/ UNCHANGED Channel!vars
<1>1. mode' = mode
  BY DEF Next, MainLoop, Send, DmaByte, IdleInterrupt, FullInterrupt, TxByte, Wake,
         LoopTest, ParseFound, ParseNone, TrimTest, Move, SubtractRead, SubtractWrite,
         EmptyTest, Zero, vars, uartVars
<1>2. CASE mode.preempt
  BY <1>1, <1>2 DEF Channel!vars
<1>3. CASE ~mode.preempt
  <2>1. Clean(mode) /\ Clean(mode)'
    BY <1>1, <1>3 DEF Quiet, Clean
  <2>2. LapInv(S, at) /\ LapInv(S, at)'
    BY <2>1 DEF RxInv
  <2>3. PICK x \in Nat : x = Len(executed)
    BY <2>2, LapFacts
  <2>4. /\ executed \in Seq(Seq(Nat)) /\ sent \in Nat /\ x <= sent
        /\ Frames \in Seq(Seq(Nat)) /\ Len(Frames) \in Nat
        /\ mode.frames \in Nat /\ sent <= mode.frames /\ mode.frames <= Len(Frames)
    BY <2>2, <2>3, LapFacts, Constants
  <2>5. CASE Send
    <3>1. sent' = sent + 1 /\ executed' = executed /\ sent < mode.frames
      BY <2>5 DEF Send
    <3>2. sent < Len(Frames)
      BY <2>4, <3>1
    <3>3. Channel!Accept
      BY <1>1, <1>3, <3>1, <3>2 DEF Channel!Accept
    <3>4. QED BY <3>3 DEF Channel!Next
  <2>6. CASE ParseFound
    <3>1. /\ x + 1 \in 1 .. sent /\ executed' = Append(executed, Frames[x + 1])
          /\ sent' = sent
      BY <2>2, <2>3, <2>6, LapParseFacts DEF ParseFound
    <3>2. Frames[x + 1] \in Seq(Nat)
      BY <2>4, <3>1
    <3>3. /\ executed' \in Seq(Seq(Nat)) /\ Len(executed') = x + 1
          /\ executed'[x + 1] = Frames[x + 1]
          /\ \A i \in 1 .. x : executed'[i] = executed[i]
      BY <2>3, <2>4, <3>1, <3>2, AppendProperties
    <3>4. [i \in DOMAIN executed |-> Number(executed[i])] = [i \in 1 .. x |-> i]
      <4>1. \A i \in 1 .. x : executed[i] = Frames[i]
        BY <2>2, <2>3 DEF LapInv, Executing
      <4>2. x <= Len(Frames)
        BY <2>4
      <4>3. QED BY <2>3, <2>4, <4>1, <4>2, Numbered
    <3>5. [i \in DOMAIN executed' |-> Number(executed'[i])] = [i \in 1 .. x + 1 |-> i]
      <4>1. \A i \in 1 .. x : executed'[i] = Frames[i]
        BY <2>2, <2>3, <3>3 DEF LapInv, Executing
      <4>2. \A i \in 1 .. x + 1 : i = x + 1 \/ i \in 1 .. x
        OBVIOUS
      <4>3. \A i \in 1 .. x + 1 : executed'[i] = Frames[i]
        BY <3>3, <4>1, <4>2
      <4>4. x + 1 <= Len(Frames)
        BY <2>4, <3>1
      <4>5. QED BY <3>3, <4>3, <4>4, Numbered
    <3>6. PICK d \in Seq(Nat) : d = [i \in 1 .. x |-> i] /\ Len(d) = x
      OBVIOUS
    <3>7. [i \in 1 .. x + 1 |-> i] = Append(d, x + 1)
      BY <3>6
    <3>8. (IF d = <<>> THEN 0 ELSE Last(d)) = x
      <4>1. CASE x = 0
        BY <3>6, <4>1
      <4>2. CASE x > 0
        <5>1. d # <<>> /\ d[x] = x
          BY <3>6, <4>2
        <5>2. QED BY <3>6, <5>1 DEF Last
      <4>3. QED BY <4>1, <4>2
    <3>9. x < sent
      BY <2>4, <3>1
    <3>10. Channel!Newest = x
      BY <1>3, <3>4, <3>6, <3>8 DEF Channel!Newest, Channel!Last, Last
    <3>11. Channel!Deliver
      BY <1>1, <1>3, <3>1, <3>4, <3>5, <3>6, <3>7, <3>9, <3>10 DEF Channel!Deliver
    <3>12. QED BY <3>11 DEF Channel!Next
  <2>7. CASE UNCHANGED <<sent, executed>>
    BY <1>1, <2>7 DEF Channel!vars
  <2>8. QED
    BY <2>5, <2>6, <2>7
       DEF Next, MainLoop, vars, DmaByte, IdleInterrupt, FullInterrupt, TxByte, Wake,
           LoopTest, ParseNone, TrimTest, Move, SubtractRead, SubtractWrite,
           EmptyTest, Zero
<1>4. QED BY <1>2, <1>3

\* On clean lines, with frames that are all different and fit rx_buf once, the receive
\* path is a FrameChannel: it delivers each frame after those before it, never one
\* that was not sent, and none again.
THEOREM ImplementsChannel ==
  ASSUME OneLap, Quiet, Distinct PROVE Spec => ChannelSafety
<1>1. PICK S \in [Cells -> Nat], at \in [0 .. Len(Frames) -> Nat] : LaidOut(S, at)
  BY LayoutExists
<1>2. WellFormed
  BY DEF OneLap
<1>3. Init => Channel!Init
  BY DEF Init, Channel!Init
<1>4. InBuffer => mode \in Modes
  BY DEF InBuffer
<1>5. InBuffer /\ RxInv(S, at) /\ RxInv(S, at)' /\ [Next]_vars
        => [Channel!Next]_(Channel!vars)
  BY <1>1, <1>2, <1>4, ChannelStep
<1>6. Spec => []RxInv(S, at)
  BY <1>1, <1>2, RxInvariant
<1>7. QED BY <1>3, <1>5, <1>6, ReceiveInBuffer, PTL DEF Spec, ChannelSafety

-----------------------------------------------------------------------------
(* The interrupt anywhere in the pass, and a host that waits for each answer. *)

\* The mode this is about: each frame comes in one piece.
Racing(m) == m.preempt /\ m.noise = 0 /\ m.window = 1 /\ m.whole

\* Every frame has been executed when it was its turn.
InTurn == \A j \in 1 .. Len(executed) : j <= Len(Frames) /\ executed[j] = Frames[j]

\* The bytes at the front of rx_buf that count: while rx_len is being reduced, those
\* that have been moved there.
Kept == IF pc \in {"read", "write"} THEN rx_len - processed ELSE rx_len

\* They are those of S from b up to what the UART has not reported yet, unless what
\* followed the executed frames, which end before t, has been lost.  A pass has
\* executed everything up to there, or it is about to execute the first frame again.
\* What it moves is all there is: no interrupt comes then.
Buffered(S, b, t) ==
  /\ b + Kept = From \/ (Kept = 0 /\ b = t /\ t < From)
  /\ \A i \in 0 .. Kept - 1 : rx_buf[i] = S[b + i]
  /\ pc \in {"loop", "parse"} => processed = t - b \/ processed = 0
  /\ pc \in {"trim", "move", "emptyTest", "zero"} => processed = t - b
  /\ pc \in {"move", "read", "write"} => t < From
  /\ pc \in {"read", "write"} => b = t
  /\ pc = "write" => tmp = rx_len

\* At most one frame is under way behind those executed.  The UART reports it whole,
\* unless the end of rx_buf cuts it in two.
Raced(S, at) ==
  /\ sent = Len(executed) \/ sent = Len(executed) + 1
  /\ Arriving(S, at)
  /\ at[Len(executed)] <= From
  /\ ~Lapped => From = at[Len(executed)] \/ From = at[sent]
  /\ \E a \in 0 .. Len(executed) : Buffered(S, at[a], at[Len(executed)])

LEMMA StreamFacts ==
  ASSUME NEW S, NEW at \in [0 .. Len(Frames) -> Nat], WellFormed, Streamed(S, at),
         NEW n \in 1 .. Len(Frames)
  PROVE  /\ Frames[n] \in Seq(Nat) /\ Len(Frames[n]) \in Nat
         /\ at[n] \in Nat /\ at[n - 1] \in Nat /\ at[n] = at[n - 1] + Len(Frames[n])
         /\ Len(Frames[n]) >= 3 /\ Frames[n][1] = Header
         /\ Len(Frames[n]) = Frames[n][2] + 3
         /\ \A k \in 1 .. Len(Frames[n]) : S[at[n - 1] + k - 1] = Frames[n][k]
<1>1. Frames[n] \in Seq(Nat) /\ Len(Frames[n]) \in Nat /\ Len(Frames) \in Nat
  BY Constants
<1>2. Len(Frames[n]) >= 3 /\ Frames[n][1] = Header
  BY <1>1 DEF WellFormed, HdrSize, TailSize
<1>3. Frames[n][2] \in Nat
  BY <1>1, <1>2
<1>4. Len(Frames[n]) = Frames[n][2] + 3
  BY <1>3 DEF WellFormed, HdrSize, TailSize
<1>5. at[n] \in Nat /\ at[n - 1] \in Nat
  BY SMTT(30), <1>1
<1>6. QED BY Zenon, <1>1, <1>2, <1>4, <1>5 DEF Streamed

\* A frame ends behind those before it.
LEMMA Ascending ==
  ASSUME NEW S, NEW at \in [0 .. Len(Frames) -> Nat], Streamed(S, at)
  PROVE  \A j \in 0 .. Len(Frames) : \A i \in 0 .. j : at[i] \in Nat /\ at[i] <= at[j]
<1> DEFINE T == {j \in Nat : j <= Len(Frames) => \A i \in 0 .. j : at[i] <= at[j]}
<1>1. Frames \in Seq(Seq(Nat)) /\ Len(Frames) \in Nat
  BY Constants
<1>2. 0 \in T
  <2>1. at[0] \in Nat /\ \A i \in 0 .. 0 : i = 0
    BY <1>1
  <2>2. QED BY <2>1
<1>3. ASSUME NEW j \in Nat, j \in T PROVE j + 1 \in T
  <2>1. ASSUME j + 1 <= Len(Frames), NEW i \in 0 .. j + 1 PROVE at[i] <= at[j + 1]
    <3>1. /\ j + 1 \in 1 .. Len(Frames) /\ (j + 1) - 1 = j
          /\ j \in 0 .. Len(Frames) /\ j + 1 \in 0 .. Len(Frames)
          /\ i \in 0 .. Len(Frames)
      BY <1>1, <2>1
    <3>2. at[j + 1] = at[j] + Len(Frames[j + 1]) /\ Len(Frames[j + 1]) \in Nat
      <4>1. at[j + 1] = at[(j + 1) - 1] + Len(Frames[j + 1])
        BY Zenon, <3>1 DEF Streamed
      <4>2. Len(Frames[j + 1]) \in Nat
        BY <1>1, <3>1
      <4>3. QED BY Zenon, <3>1, <4>1, <4>2
    <3>3. at[j] \in Nat /\ at[j + 1] \in Nat /\ at[i] \in Nat
      BY <3>1
    <3>4. at[j] <= at[j + 1]
      BY <3>2, <3>3
    <3>5. CASE i <= j
      <4>1. at[i] <= at[j]
        BY <1>3, <2>1, <3>1, <3>5
      <4>2. QED BY <3>3, <3>4, <4>1
    <3>6. CASE i = j + 1
      BY <3>3, <3>6
    <3>7. QED BY <2>1, <3>5, <3>6
  <2>2. QED BY <2>1
<1>4. \A j \in Nat : j \in T
  <2> HIDE DEF T
  <2> QED BY <1>2, <1>3, NaturalInduction
<1>5. \A j \in 0 .. Len(Frames) : \A i \in 0 .. j : at[i] \in Nat
  BY SMTT(30), <1>1
<1>6. QED BY <1>1, <1>4, <1>5

\* The numbers of a state.
LEMMA RacedFacts ==
  ASSUME NEW S, NEW at \in [0 .. Len(Frames) -> Nat], Streamed(S, at),
         InBuffer, Raced(S, at)
  PROVE  /\ Len(executed) \in Nat /\ Len(executed) <= Len(Frames)
         /\ Len(executed) <= sent /\ sent <= Len(Frames) /\ sent \in Nat
         /\ at[sent] \in Nat /\ at[Len(executed)] \in Nat
         /\ at[Len(executed)] <= at[sent]
         /\ \A a \in 0 .. Len(executed) : at[a] \in Nat /\ at[a] <= at[Len(executed)]
<1>1. /\ Len(executed) \in Nat /\ sent \in Nat /\ sent <= Len(Frames)
      /\ Len(Frames) \in Nat
  BY Numbers, Constants
<1>2. Len(executed) <= sent
  BY <1>1 DEF Raced
<1>3. Len(executed) \in 0 .. Len(Frames) /\ sent \in 0 .. Len(Frames) /\ Len(executed) \in 0 .. sent
  BY <1>1, <1>2
<1>4. QED BY <1>1, <1>2, <1>3, Ascending

-----------------------------------------------------------------------------
(* The host and the UART. *)

LEMMA RacedSend ==
  ASSUME NEW S, NEW at \in [0 .. Len(Frames) -> Nat], WellFormed, Streamed(S, at),
         InBuffer, InBuffer', Raced(S, at), Send, mode.window = 1,
         Answers <= Len(executed), Answers \in Nat
  PROVE  Raced(S, at)'
<1>1. /\ sent < Answers + mode.window /\ sent' = sent + 1
      /\ UNCHANGED <<rx_buf, rx_len, dma, nextBuf, pc, processed, tmp, executed>>
  BY DEF Send, loopVars
<1>2. PICK e \in Nat, s \in Nat, q \in Nat : e = Len(executed) /\ s = sent /\ q = Answers
  BY Zenon, RacedFacts
<1>3. s = e /\ s' = e + 1
  <2>1. s < q + 1 /\ q <= e /\ e <= s
    BY Zenon, <1>1, <1>2, RacedFacts
  <2>2. QED BY <1>1, <1>2, <2>1
<1>4. sent + 1 \in 1 .. Len(Frames)
  <2>1. sent' <= Len(Frames) /\ sent' = sent + 1
    BY <1>1 DEF InBuffer
  <2>2. sent \in Nat /\ Len(Frames) \in Nat
    BY Numbers, Constants
  <2>3. QED BY <2>1, <2>2
<1>5. /\ Frames[sent + 1] \in Seq(Nat)
      /\ at[sent + 1] = at[sent] + Len(Frames[sent + 1])
      /\ \A k \in 1 .. Len(Frames[sent + 1]) : S[at[sent] + k - 1] = Frames[sent + 1][k]
  <2>1. (sent + 1) - 1 = sent
    BY <1>2
  <2>2. PICK n \in 1 .. Len(Frames) : n = sent + 1
    BY <1>4
  <2>3. /\ Frames[n] \in Seq(Nat) /\ at[n] = at[n - 1] + Len(Frames[n])
        /\ \A k \in 1 .. Len(Frames[n]) : S[at[n - 1] + k - 1] = Frames[n][k]
    BY StreamFacts
  <2>4. QED BY Zenon, <2>1, <2>2, <2>3
<1>6. Arriving(S, at)'
  <2>1. /\ sent \in Nat /\ at[sent] \in Nat /\ Pos \in Nat /\ line \in Seq(Nat)
    BY Zenon, Numbers, RacedFacts
  <2>2. QED BY <1>5, <2>1, LineGrows DEF Raced
<1>7. From' = From /\ Lapped' = Lapped /\ Kept' = Kept
  BY <1>1 DEF From, Lapped, Kept
<1>8. \A b, t : Buffered(S, b, t)' <=> Buffered(S, b, t)
  BY <1>1, <1>7 DEF Buffered
<1>9. QED BY <1>1, <1>2, <1>3, <1>6, <1>7, <1>8 DEF Raced

\* A byte that arrives once rx_buf has been full ends the first lap.
LEMMA RacedByte ==
  ASSUME NEW S, NEW at \in [0 .. Len(Frames) -> Nat], Streamed(S, at),
         InBuffer, InBuffer', Raced(S, at), DmaByte, FirstLap'
  PROVE  Raced(S, at)'
<1>1. UNCHANGED <<rx_len, nextBuf, sent, pc, processed, tmp, executed>>
  BY DEF DmaByte, loopVars
<1>2. ~Lapped
  <2>1. SUFFICES ASSUME Lapped PROVE FALSE
    OBVIOUS
  <2>2. dma.pos = 0 /\ nextBuf[1] > 0
    BY <2>1 DEF Raced, Arriving
  <2>3. dma'.pos = 1
    <3>1. dma \in [pos : 0 .. RxSize, end : 0 .. RxSize, from : 0 .. RxSize]
      BY DEF InBuffer, TypeOK
    <3>2. QED BY <2>2, <3>1 DEF DmaByte
  <2>4. nextBuf' # <<0, RxSize>>
    BY <1>1, <2>1 DEF Lapped
  <2>5. QED BY <2>3, <2>4 DEF FirstLap
<1>3. /\ Arriving(S, at)' /\ ~Lapped' /\ From' = From /\ From <= dma.pos
      /\ \A i \in Cells : i # dma.pos => rx_buf'[i] = rx_buf[i]
  BY <1>2, ByteArrives, RacedFacts DEF Raced
<1>4. PICK x \in Nat, e \in Nat, f \in Nat, r \in Nat, p \in Nat :
         x = Len(executed) /\ e = at[x] /\ f = From /\ r = rx_len /\ p = dma.pos
  BY Zenon, RacedFacts, Numbers
<1>5. PICK a \in 0 .. x : Buffered(S, at[a], e)
  BY Zenon, <1>4 DEF Raced
<1>6. PICK b \in Nat : b = at[a] /\ b <= e
  BY Zenon, <1>4, <1>5, RacedFacts
<1>7. Kept' = Kept
  BY <1>1 DEF Kept
<1>8. \A i \in 0 .. Kept - 1 : rx_buf'[i] = rx_buf[i]
  <2>1. PICK k \in Int : k = Kept
    BY Numbers DEF Kept
  <2>2. k <= f
    BY <1>4, <1>5, <1>6, <2>1 DEF Buffered
  <2>3. f <= p /\ p < RxSize /\ RxSize \in Nat
    <3>1. dma.pos < dma.end /\ dma.end <= RxSize /\ dma.end \in Nat /\ RxSize \in Nat
      BY Numbers DEF DmaByte
    <3>2. QED BY <1>3, <1>4, <3>1
  <2>4. \A i \in 0 .. k - 1 : i \in Cells /\ i # p
    BY <1>4, <2>2, <2>3 DEF Cells
  <2>5. QED BY Zenon, <1>3, <1>4, <2>1, <2>4
<1>9. Buffered(S, b, e)'
  BY <1>1, <1>3, <1>5, <1>6, <1>7, <1>8 DEF Buffered
<1>10. QED BY Zenon, <1>1, <1>2, <1>3, <1>4, <1>5, <1>6, <1>9 DEF Raced

\* An interrupt comes only while all that was reported has been executed: it
\* reports the whole of the next frame, or what of it fits the end of rx_buf.
LEMMA RacedInterrupt ==
  ASSUME NEW S, NEW at \in [0 .. Len(Frames) -> Nat], Streamed(S, at),
         InBuffer, InBuffer', Raced(S, at), mode.whole, IdleInterrupt \/ FullInterrupt
  PROVE  Raced(S, at)'
<1>1. /\ dma.from < dma.pos /\ RxRdy(dma.pos - dma.from)
      /\ UNCHANGED <<line, sent, pc, processed, tmp, executed>>
  BY DEF IdleInterrupt, FullInterrupt, loopVars
<1>2. /\ RxSize \in Nat /\ dma.pos \in Nat /\ dma.from \in Nat /\ dma.end \in Nat
      /\ dma.pos <= dma.end /\ dma.end <= RxSize /\ Len(line) \in Nat
  BY Zenon, Numbers
<1>3. ~Lapped
  BY <1>1, <1>2 DEF Raced, Arriving
<1>4. PICK x \in Nat, e \in Nat, s \in Nat, f \in Nat, r \in Nat, p \in Nat :
         /\ x = Len(executed) /\ e = at[x] /\ s = at[sent] /\ f = dma.from
         /\ r = rx_len /\ p = dma.pos
  BY Zenon, RacedFacts, Numbers
<1>5. From = f /\ Pos = p
  BY <1>3, <1>4 DEF From, Pos
<1>6. /\ p <= s /\ Len(line) = s - p /\ dma.end = RxSize
      /\ \A k \in 1 .. Len(line) : line[k] = S[p + k - 1]
      /\ \A i \in f .. p - 1 : rx_buf[i] = S[i]
      /\ e <= f /\ (f = e \/ f = s)
  BY Zenon, <1>3, <1>4, <1>5 DEF Raced, Arriving
<1>7. f = e /\ f < p
  BY <1>1, <1>4, <1>6
<1>8. PICK a \in 0 .. x : Buffered(S, at[a], e)
  BY Zenon, <1>4 DEF Raced
<1>9. PICK b \in Nat : b = at[a]
  BY Zenon, <1>4, <1>8, RacedFacts
<1>10. /\ b + Kept = f /\ pc \notin {"move", "read", "write"}
       /\ \A i \in 0 .. Kept - 1 : rx_buf[i] = S[b + i]
  BY <1>4, <1>5, <1>7, <1>8, <1>9 DEF Buffered
<1>11. Kept = r /\ Kept' = rx_len'
  BY <1>1, <1>4, <1>10 DEF Kept
<1>12. /\ b + rx_len' = p
       /\ \A i \in 0 .. rx_len' - 1 : rx_buf'[i] = S[b + i]
  <2>1. b + rx_len = dma.from /\ \A i \in 0 .. rx_len - 1 : rx_buf[i] = S[b + i]
    BY Zenon, <1>4, <1>10, <1>11
  <2>2. \A i \in dma.from .. dma.pos - 1 : rx_buf[i] = S[i]
    BY Zenon, <1>4, <1>6
  <2>3. /\ b + rx_len' = dma.pos
        /\ \A i \in 0 .. rx_len' - 1 : rx_buf'[i] = S[b + i]
    BY <1>1, <2>1, <2>2, Appended
  <2>4. QED BY Zenon, <1>4, <2>3
<1>13. /\ Arriving(S, at)' /\ From' = p /\ (~Lapped' => p = s)
  <2>1. CASE IdleInterrupt
    <3>1. /\ line = <<>> /\ dma' = [dma EXCEPT !.from = dma.pos] /\ nextBuf' = nextBuf
      BY <2>1 DEF IdleInterrupt
    <3>2. dma'.pos = p /\ dma'.end = dma.end /\ dma'.from = p
      <4>1. dma \in [pos : 0 .. RxSize, end : 0 .. RxSize, from : 0 .. RxSize]
        BY DEF InBuffer, TypeOK
      <4>2. QED BY <1>4, <3>1, <4>1
    <3>3. ~Lapped' /\ From' = p /\ Pos' = p
      BY <1>3, <3>1, <3>2 DEF Lapped, From, Pos
    <3>4. Len(line) = 0
      BY <3>1
    <3>5. p = s
      BY <1>4, <1>6, <3>4
    <3>6. p <= p /\ \A i \in p .. p - 1 : FALSE
      BY <1>4
    <3>7. at[sent'] = s
      BY <1>1, <1>4
    <3>8. Arriving(S, at)'
      BY <1>1, <1>6, <3>2, <3>3, <3>6, <3>7 DEF Arriving
    <3>9. QED BY <3>3, <3>5, <3>8
  <2>2. CASE FullInterrupt
    <3>1. p = RxSize
      BY <1>4, <1>6, <2>2 DEF FullInterrupt
    <3>2. /\ dma' = [pos |-> 0, end |-> RxSize, from |-> 0]
          /\ nextBuf' = <<rx_len', RxSize>>
      <4>1. nextBuf[1] = 0 /\ nextBuf[2] = RxSize /\ nextBuf[1] < nextBuf[2]
        BY <1>3, <1>4, <1>7, <3>1 DEF Lapped
      <4>2. QED BY <2>2, <4>1 DEF FullInterrupt
    <3>3. rx_len' > 0 /\ rx_len' \in Nat
      <4>1. rx_len' \in Nat
        BY Constants DEF InBuffer, TypeOK
      <4>2. b <= f
        <5>1. b + r = f
          BY Zenon, <1>10, <1>11
        <5>2. QED BY <1>4, <1>9, <5>1
      <4>3. QED BY <1>4, <1>7, <1>9, <1>12, <4>1, <4>2
    <3>4. dma'.pos = 0 /\ dma'.from = 0 /\ nextBuf'[1] = rx_len' /\ Lapped'
      BY <3>2, <3>3 DEF Lapped
    <3>5. From' = p /\ Pos' = p
      BY <3>1, <3>4 DEF From, Pos
    <3>6. p <= p /\ \A i \in p .. p - 1 : FALSE
      BY <1>4
    <3>7. at[sent'] = s
      BY <1>1, <1>4
    <3>8. Arriving(S, at)'
      BY <1>1, <1>6, <3>3, <3>4, <3>5, <3>6, <3>7 DEF Arriving
    <3>9. QED BY <3>4, <3>5, <3>8
  <2>3. QED BY <2>1, <2>2
<1>14. Buffered(S, b, e)'
  <2>1. b + Kept' = From' /\ \A i \in 0 .. Kept' - 1 : rx_buf'[i] = S[b + i]
    BY Zenon, <1>11, <1>12, <1>13
  <2>2. QED BY <1>1, <1>8, <1>9, <1>10, <2>1 DEF Buffered
<1>15. e <= From'
  BY <1>4, <1>7, <1>13
<1>16. at[sent'] = s /\ at[Len(executed')] = e /\ Len(executed') = x
  BY Zenon, <1>1, <1>4
<1>17. QED BY Zenon, <1>1, <1>4, <1>8, <1>9, <1>13, <1>14, <1>15, <1>16 DEF Raced

-----------------------------------------------------------------------------
(* The pass. *)

\* A step of the pass that moves at most what is kept.
LEMMA RacedPass ==
  ASSUME NEW S, NEW at, Arriving(S, at), Raced(S, at),
         UNCHANGED <<dma, nextBuf, line, sent, executed>>,
         \A i \in From .. Pos - 1 : rx_buf'[i] = rx_buf[i],
         NEW a \in 0 .. Len(executed), Buffered(S, at[a], at[Len(executed)])'
  PROVE  Raced(S, at)'
<1>1. From' = From /\ Pos' = Pos /\ Lapped' = Lapped
  BY DEF From, Pos, Lapped
<1>2. Arriving(S, at)'
  BY <1>1 DEF Arriving
<1>3. QED BY <1>1, <1>2 DEF Raced

\* A frame that is there is found.
LEMMA FrameIsFound ==
  ASSUME InBuffer, NEW F \in Seq(Nat), Len(F) >= 3, F[1] = Header,
         Len(F) = F[2] + 3, processed + Len(F) <= rx_len,
         \A k \in 1 .. Len(F) : rx_buf[processed + k - 1] = F[k]
  PROVE  ~ParseNone
<1>1. PICK q \in Nat, l \in Nat, L \in Nat : q = processed /\ l = rx_len /\ L = Len(F)
  <2>1. Len(F) \in Nat
    OBVIOUS
  <2>2. QED BY Zenon, <2>1, Numbers
<1>2. L >= 3 /\ L = F[2] + 3 /\ F[2] \in Nat /\ q + L <= l
  <2>1. F[2] \in Nat
    OBVIOUS
  <2>2. QED BY Zenon, <1>1, <2>1
<1>3. rx_buf[q] = Header /\ rx_buf[q + 1] = F[2]
  <2>1. 1 \in 1 .. L /\ 2 \in 1 .. L
    <3>1. \A n \in Nat : n >= 3 => 1 \in 1 .. n /\ 2 \in 1 .. n
      OBVIOUS
    <3>2. QED BY Zenon, <1>1, <1>2, <3>1
  <2>2. q + 1 - 1 = q /\ q + 2 - 1 = q + 1
    BY <1>1
  <2>3. \A k \in 1 .. L : rx_buf[q + k - 1] = F[k]
    BY Zenon, <1>1
  <2>4. QED BY <2>1, <2>2, <2>3
<1>4. 0 \in Marks(q, l - q) /\ q + 0 = q
  <2>1. q + 0 = q /\ 0 \in 0 .. (l - q) - MinSize
    BY <1>1, <1>2 DEF MinSize, HdrSize
  <2>2. QED BY <1>3, <2>1 DEF Marks
<1>5. \A m \in Marks(q, l - q) : 0 <= m
  BY <1>1 DEF Marks, MinSize, HdrSize
<1>6. TotalLen(q) = L
  <2>1. TotalLen(q) = HdrSize + F[2] + TailSize
    BY <1>3, Zenon DEF TotalLen
  <2>2. HdrSize + F[2] + TailSize = F[2] + 3
    BY <1>2 DEF HdrSize, TailSize
  <2>3. QED BY <1>2, <2>1, <2>2, Zenon
<1>7. ~(0 + TotalLen(q + 0) > l - q)
  <2>1. ~(0 + L > l - q)
    BY <1>1, <1>2
  <2>2. QED BY Zenon, <1>4, <1>6, <2>1
<1>8. QED BY Zenon, <1>1, <1>4, <1>5, <1>7 DEF ParseNone

LEMMA Shifted ==
  ASSUME NEW l \in Nat, NEW r \in Nat, l <= r, NEW b \in Nat, NEW k \in 1 .. l
  PROVE  k - 1 \in 0 .. r - 1 /\ 0 + k - 1 = k - 1 /\ b + k - 1 = b + (k - 1)
OBVIOUS

\* The first frame that is kept when a pass is about to execute it again.
LEMMA StaleFrame ==
  ASSUME NEW S, NEW at \in [0 .. Len(Frames) -> Nat], WellFormed, Streamed(S, at),
         InBuffer, Raced(S, at), NEW a \in 0 .. Len(executed),
         Buffered(S, at[a], at[Len(executed)]), pc = "parse",
         processed # at[Len(executed)] - at[a]
  PROVE  /\ a + 1 \in 1 .. Len(executed) /\ a + 1 \in 1 .. Len(Frames)
         /\ processed = 0 /\ processed + Len(Frames[a + 1]) <= rx_len
         /\ \A k \in 1 .. Len(Frames[a + 1]) :
              rx_buf[processed + k - 1] = Frames[a + 1][k]
<1>1. PICK x \in Nat, e \in Nat, f \in Nat, r \in Nat, b \in Nat :
         /\ x = Len(executed) /\ e = at[x] /\ f = From /\ r = rx_len /\ b = at[a]
  BY Zenon, RacedFacts, Numbers
<1>2. Kept = r
  BY <1>1 DEF Kept
<1>3. /\ processed = 0 /\ b # e /\ b + r = f /\ e <= f /\ b <= e
      /\ \A i \in 0 .. r - 1 : rx_buf[i] = S[b + i]
  <2>1. processed = e - b \/ processed = 0
    BY Zenon, <1>1 DEF Buffered
  <2>2. processed = 0
    BY Zenon, <1>1, <2>1
  <2>3. b # e
    BY <1>1, <2>2
  <2>4. b + r = f
    BY Zenon, <1>1, <1>2, <2>3 DEF Buffered
  <2>5. e <= f /\ b <= e
    BY Zenon, <1>1, RacedFacts DEF Raced
  <2>6. \A i \in 0 .. r - 1 : rx_buf[i] = S[b + i]
    BY Zenon, <1>1, <1>2 DEF Buffered
  <2>7. QED BY <2>2, <2>3, <2>4, <2>5, <2>6
<1>4. PICK n \in Nat : n = a + 1
  BY <1>1
<1>5. /\ n \in 1 .. x /\ n \in 1 .. Len(Frames) /\ n \in 0 .. Len(executed)
      /\ n - 1 = a
  <2>1. a # x
    BY <1>1, <1>3
  <2>2. x <= Len(Frames) /\ Len(Frames) \in Nat /\ a \in 0 .. x
    BY <1>1, RacedFacts, Constants
  <2>3. QED BY <1>1, <1>4, <2>1, <2>2
<1>6. PICK L \in Nat :
         /\ L = Len(Frames[n]) /\ at[n] = b + L /\ at[n] <= e
         /\ \A k \in 1 .. L : S[b + k - 1] = Frames[n][k]
  <2>1. /\ Len(Frames[n]) \in Nat /\ at[n] = at[n - 1] + Len(Frames[n])
        /\ \A k \in 1 .. Len(Frames[n]) : S[at[n - 1] + k - 1] = Frames[n][k]
    BY ZenonT(40), <1>5, StreamFacts
  <2>2. at[n] <= e
    BY Zenon, <1>1, <1>5, RacedFacts
  <2>3. QED BY Zenon, <1>1, <1>5, <2>1, <2>2
<1>7. L <= r
  <2>1. b + L <= e /\ b + r = f /\ e <= f
    BY Zenon, <1>3, <1>6
  <2>2. QED BY <2>1
<1>8. \A k \in 1 .. L : rx_buf[0 + k - 1] = Frames[n][k]
  <2>1. ASSUME NEW k \in 1 .. L PROVE rx_buf[0 + k - 1] = Frames[n][k]
    <3>1. PICK i \in 0 .. r - 1 : i = k - 1 /\ 0 + k - 1 = i /\ b + k - 1 = b + i
      BY Zenon, <1>1, <1>6, <1>7, <2>1, Shifted
    <3>2. QED BY Zenon, <1>3, <1>6, <2>1, <3>1
  <2>2. QED BY <2>1
<1>9. processed + L <= rx_len
  BY <1>1, <1>3, <1>6, <1>7
<1>10. QED BY Zenon, <1>1, <1>3, <1>4, <1>5, <1>6, <1>8, <1>9

LEMMA RacedLoop ==
  ASSUME NEW S, NEW at \in [0 .. Len(Frames) -> Nat], WellFormed, Streamed(S, at),
         InBuffer, InBuffer', Raced(S, at),
         Wake \/ LoopTest \/ ParseNone \/ TrimTest \/ Move \/ SubtractRead
           \/ SubtractWrite \/ EmptyTest \/ Zero \/ TxByte \/ UNCHANGED vars
  PROVE  Raced(S, at)'
<1>1. UNCHANGED <<dma, nextBuf, line, sent, executed>>
  BY DEF Wake, LoopTest, ParseNone, TrimTest, Move, SubtractRead, SubtractWrite,
         EmptyTest, Zero, TxByte, vars, uartVars
<1>2. From' = From
  BY <1>1 DEF From, Lapped
<1>3. PICK x \in Nat, e \in Nat, f \in Nat, r \in Nat, p \in Nat :
         /\ x = Len(executed) /\ e = at[x] /\ f = From /\ r = rx_len /\ p = processed
  BY Zenon, RacedFacts, Numbers
<1>4. PICK a \in 0 .. x : Buffered(S, at[a], e)
  BY Zenon, <1>3 DEF Raced
<1>5. PICK b \in Nat : b = at[a] /\ b <= e
  BY Zenon, <1>3, <1>4, RacedFacts
<1>6. e <= f
  BY Zenon, <1>3 DEF Raced
<1>7. /\ b + Kept = f \/ (Kept = 0 /\ b = e /\ e < f)
      /\ \A i \in 0 .. Kept - 1 : rx_buf[i] = S[b + i]
      /\ pc \in {"loop", "parse"} => p = e - b \/ p = 0
      /\ pc \in {"trim", "move", "emptyTest", "zero"} => p = e - b
      /\ pc \in {"move", "read", "write"} => e < f
      /\ pc \in {"read", "write"} => b = e
      /\ pc = "write" => tmp = r
  BY <1>3, <1>4, <1>5 DEF Buffered
<1>8. x \in 0 .. x /\ x' = x /\ e' = e
  BY <1>3
<1>9. ASSUME rx_buf' = rx_buf, Buffered(S, b, e)' PROVE Raced(S, at)'
  BY <1>1, <1>3, <1>4, <1>5, <1>9, RacedPass DEF Raced
<1>10. CASE Wake
  <2>1. /\ pc = "sleep" /\ pc' = "loop" /\ processed' = 0 /\ Kept = r /\ Kept' = r
        /\ UNCHANGED <<rx_buf, rx_len>>
    BY <1>3, <1>10 DEF Wake, Goto, Kept
  <2>2. Buffered(S, b, e)'
    BY <1>2, <1>3, <1>7, <2>1 DEF Buffered
  <2>3. QED BY <1>9, <2>1, <2>2
<1>11. CASE LoopTest
  <2>1. /\ pc = "loop" /\ pc' = (IF p < r THEN "parse" ELSE "trim")
        /\ processed' = p /\ Kept = r /\ Kept' = r
        /\ UNCHANGED <<rx_buf, rx_len>>
    BY <1>3, <1>11 DEF LoopTest, Goto, Kept
  <2>2. ~(p < r) => p = e - b
    BY <1>3, <1>5, <1>6, <1>7, <2>1
  <2>3. Buffered(S, b, e)'
    BY <1>2, <1>3, <1>7, <2>1, <2>2 DEF Buffered
  <2>4. QED BY <1>9, <2>1, <2>3
<1>12. CASE ParseNone
  <2>1. /\ pc = "parse" /\ pc' = "trim" /\ processed' = p /\ Kept = r /\ Kept' = r
        /\ UNCHANGED <<rx_buf, rx_len>>
    BY <1>3, <1>12 DEF ParseNone, Goto, Kept
  <2>2. p = e - b
    <3>1. SUFFICES ASSUME p # e - b PROVE FALSE
      OBVIOUS
    <3>2. processed # at[Len(executed)] - at[a]
      BY Zenon, <1>3, <1>5, <3>1
    <3>3. /\ a + 1 \in 1 .. Len(Frames)
          /\ processed + Len(Frames[a + 1]) <= rx_len
          /\ \A k \in 1 .. Len(Frames[a + 1]) :
               rx_buf[processed + k - 1] = Frames[a + 1][k]
      BY <1>3, <1>4, <2>1, <3>2, StaleFrame
    <3>4. PICK n \in 1 .. Len(Frames) : n = a + 1
      BY <3>3
    <3>5. PICK F \in Seq(Nat) : F = Frames[n] /\ Len(F) >= 3 /\ F[1] = Header
                                   /\ Len(F) = F[2] + 3
      BY StreamFacts
    <3>6. /\ processed + Len(F) <= rx_len
          /\ \A k \in 1 .. Len(F) : rx_buf[processed + k - 1] = F[k]
      BY Zenon, <3>3, <3>4, <3>5
    <3>7. QED BY <1>12, <3>5, <3>6, FrameIsFound
  <2>3. Buffered(S, b, e)'
    BY <1>2, <1>3, <1>7, <2>1, <2>2 DEF Buffered
  <2>4. QED BY <1>9, <2>1, <2>3
<1>13. CASE TrimTest
  <2>1. /\ pc = "trim" /\ pc' = (IF p > 0 /\ p < r THEN "move" ELSE "emptyTest")
        /\ processed' = p /\ Kept = r /\ Kept' = r
        /\ UNCHANGED <<rx_buf, rx_len>>
    BY <1>3, <1>13 DEF TrimTest, Goto, Kept
  <2>2. p < r => e < f
    BY SMTT(30), <1>3, <1>5, <1>6, <1>7, <2>1
  <2>3. Buffered(S, b, e)'
    BY <1>2, <1>3, <1>7, <2>1, <2>2 DEF Buffered
  <2>4. QED BY <1>9, <2>1, <2>3
<1>14. CASE Move
  <2>1. /\ pc = "move" /\ pc' = "read" /\ processed' = p /\ Kept = r /\ Kept' = r - p
        /\ rx_len' = rx_len
        /\ rx_buf' = [i \in Cells |-> IF i < r - p THEN rx_buf[p + i] ELSE rx_buf[i]]
    BY <1>3, <1>14 DEF Move, Goto, Kept
  <2>2. p < r /\ r <= RxSize /\ RxSize \in Nat
    BY <1>3, <2>1, Numbers DEF InBuffer
  <2>3. p = e - b /\ b + r = f /\ e + (r - p) = f /\ e < f
    <3>1. p = e - b /\ e < f /\ (b + r = f \/ r = 0)
      BY <1>7, <2>1
    <3>2. QED BY <2>2, <3>1
  <2>4. \A i \in 0 .. r - p - 1 : rx_buf'[i] = S[e + i]
    <3>1. ASSUME NEW i \in 0 .. r - p - 1 PROVE rx_buf'[i] = S[e + i]
      <4>1. i \in Cells /\ i < r - p /\ p + i \in 0 .. r - 1 /\ b + (p + i) = e + i
        <5>1. i \in Cells /\ i < r - p /\ p + i \in 0 .. r - 1
          BY <2>2, <3>1 DEF Cells
        <5>2. i \in Int /\ p = e - b
          BY <2>3
        <5>3. b + (p + i) = e + i
          BY <5>2
        <5>4. QED BY <5>1, <5>3
      <4>2. rx_buf'[i] = rx_buf[p + i]
        BY <2>1, <4>1
      <4>3. rx_buf[p + i] = S[b + (p + i)]
        BY Zenon, <1>7, <2>1, <4>1
      <4>4. QED BY Zenon, <4>1, <4>2, <4>3
    <3>2. QED BY <3>1
  <2>5. Buffered(S, e, e)'
    BY <1>2, <1>3, <2>1, <2>3, <2>4 DEF Buffered
  <2>6. \A i \in From .. Pos - 1 : rx_buf'[i] = rx_buf[i]
    <3>1. Pos \in Nat /\ Pos <= RxSize
      BY <2>2, Numbers DEF Pos
    <3>2. \A i \in f .. Pos - 1 : i \in Cells /\ ~(i < r - p)
      BY <1>3, <1>5, <2>2, <2>3, <3>1 DEF Cells
    <3>3. QED BY <1>3, <2>1, <3>2
  <2>7. QED BY <1>1, <1>3, <1>8, <2>5, <2>6, RacedPass DEF Raced
<1>15. CASE SubtractRead
  <2>1. /\ pc = "read" /\ pc' = "write" /\ processed' = p /\ tmp' = r /\ Kept' = Kept
        /\ UNCHANGED <<rx_buf, rx_len>>
    BY <1>3, <1>15 DEF SubtractRead, Goto, Kept
  <2>2. Buffered(S, b, e)'
    BY <1>2, <1>3, <1>7, <2>1 DEF Buffered
  <2>3. QED BY <1>9, <2>1, <2>2
<1>16. CASE SubtractWrite
  <2>1. /\ pc = "write" /\ pc' = "sleep" /\ rx_len' = tmp - p
        /\ rx_buf' = rx_buf /\ Kept = r - p /\ Kept' = rx_len'
    BY <1>3, <1>16 DEF SubtractWrite, Goto, Kept
  <2>2. Kept' = Kept
    BY Zenon, <1>7, <2>1
  <2>3. Buffered(S, b, e)'
    BY <1>2, <1>3, <1>7, <2>1, <2>2 DEF Buffered
  <2>4. QED BY <1>9, <2>1, <2>3
<1>17. CASE EmptyTest
  <2>1. /\ pc = "emptyTest" /\ pc' \in {"zero", "sleep"} /\ processed' = p
        /\ Kept = r /\ Kept' = r /\ UNCHANGED <<rx_buf, rx_len>>
    BY <1>3, <1>17 DEF EmptyTest, Goto, Kept
  <2>2. Buffered(S, b, e)'
    BY <1>2, <1>3, <1>7, <2>1 DEF Buffered
  <2>3. QED BY <1>9, <2>1, <2>2
<1>18. CASE Zero
  <2>1. pc' = "sleep" /\ rx_len' = 0 /\ rx_buf' = rx_buf /\ Kept' = 0
    BY <1>18 DEF Zero, Goto, Kept
  <2>2. e + 0 = f \/ e < f
    BY <1>3, <1>6
  <2>3. \A i \in 0 .. 0 - 1 : FALSE
    OBVIOUS
  <2>4. Buffered(S, e, e)'
    BY <1>2, <1>3, <2>1, <2>2, <2>3 DEF Buffered
  <2>5. QED BY <1>1, <1>3, <1>8, <2>1, <2>4, RacedPass DEF Raced
<1>19. CASE TxByte \/ UNCHANGED vars
  <2>1. UNCHANGED <<rx_buf, rx_len, pc, processed, tmp>>
    BY <1>19 DEF TxByte, vars, loopVars
  <2>2. Kept' = Kept
    BY <2>1 DEF Kept
  <2>3. Buffered(S, b, e)'
    BY <1>2, <1>3, <1>7, <2>1, <2>2 DEF Buffered
  <2>4. QED BY <1>9, <2>1, <2>3
<1>20. QED
  BY <1>10, <1>11, <1>12, <1>13, <1>14, <1>15, <1>16, <1>17, <1>18, <1>19

\* Either it is the next frame's turn, or the pass executes an earlier one again.
LEMMA RacedParse ==
  ASSUME NEW S, NEW at \in [0 .. Len(Frames) -> Nat], WellFormed, Streamed(S, at),
         InBuffer, Raced(S, at), ParseFound
  PROVE  \/ /\ Raced(S, at)'
            /\ Len(executed) + 1 <= sent /\ Len(executed) + 1 \in 1 .. Len(Frames)
            /\ executed' = Append(executed, Frames[Len(executed) + 1])
         \/ \E n \in 1 .. Len(executed) :
              n \in 1 .. Len(Frames) /\ executed' = Append(executed, Frames[n])
<1>1. /\ pc = "parse" /\ pc' = "loop"
      /\ UNCHANGED <<rx_buf, rx_len, dma, nextBuf, line, sent>>
  BY DEF ParseFound, Goto, uartVars
<1>2. PICK x \in Nat, e \in Nat, f \in Nat, r \in Nat, p \in Nat, s \in Nat :
         /\ x = Len(executed) /\ e = at[x] /\ f = From /\ r = rx_len /\ p = processed
         /\ s = at[sent]
  BY Zenon, RacedFacts, Numbers
<1>3. PICK a \in 0 .. x : Buffered(S, at[a], e)
  BY Zenon, <1>2 DEF Raced
<1>4. PICK b \in Nat : b = at[a] /\ b <= e
  BY Zenon, <1>2, <1>3, RacedFacts
<1>5. e <= f
  BY Zenon, <1>2 DEF Raced
<1>6. f <= s
  <2>1. PICK q \in Nat : q = Pos
    BY Zenon, Numbers
  <2>2. f <= q /\ q <= s
    BY Zenon, <1>2, <2>1 DEF Raced, Arriving
  <2>3. QED BY <2>2
<1>7. r - p >= 2
  <2>1. PICK m \in Marks(p, r - p) : TRUE
    BY <1>2 DEF ParseFound
  <2>2. QED BY <1>2, <2>1 DEF Marks, MinSize, HdrSize
<1>8. CASE processed # at[Len(executed)] - at[a]
  <2>1. /\ a + 1 \in 1 .. Len(executed) /\ a + 1 \in 1 .. Len(Frames)
        /\ \A k \in 1 .. Len(Frames[a + 1]) :
             rx_buf[processed + k - 1] = Frames[a + 1][k]
    BY <1>1, <1>2, <1>3, <1>8, StaleFrame
  <2>2. PICK n \in 1 .. Len(Frames) : n = a + 1
    BY <2>1
  <2>3. PICK F \in Seq(Nat) : F = Frames[n] /\ Len(F) >= 3 /\ F[1] = Header
                                 /\ Len(F) = F[2] + 3
    BY StreamFacts
  <2>4. \A k \in 1 .. Len(F) : rx_buf[processed + k - 1] = F[k]
    BY Zenon, <2>1, <2>2, <2>3
  <2>5. executed' = Append(executed, F)
    BY <2>3, <2>4, FrontFrame
  <2>6. QED BY Zenon, <2>1, <2>2, <2>3, <2>5
<1>9. CASE processed = at[Len(executed)] - at[a]
  <2>1. p = e - b
    BY Zenon, <1>2, <1>4, <1>9
  <2>2. Kept = r /\ Kept' = r
    BY <1>1, <1>2 DEF Kept
  <2>3. b + r = f /\ \A i \in 0 .. r - 1 : rx_buf[i] = S[b + i]
    <3>1. r # 0
      BY <1>7
    <3>2. QED BY Zenon, <1>2, <1>3, <1>4, <2>2, <3>1 DEF Buffered
  <2>4. e < s
    BY <1>6, <1>7, <2>1, <2>3
  <2>5. PICK n \in Nat : n = x + 1
    OBVIOUS
  <2>6. n = sent /\ n \in 1 .. Len(Frames) /\ n - 1 = x
    <3>1. sent = x \/ sent = x + 1
      BY Zenon, <1>2 DEF Raced
    <3>2. sent # x
      BY <1>2, <2>4
    <3>3. sent = n
      BY Zenon, <2>5, <3>1, <3>2
    <3>4. sent <= Len(Frames) /\ Len(Frames) \in Nat
      BY Numbers, Constants
    <3>5. QED BY <2>5, <3>3, <3>4
  <2>7. PICK F \in Seq(Nat), L \in Nat :
           /\ F = Frames[n] /\ L = Len(F) /\ L >= 3 /\ F[1] = Header /\ L = F[2] + 3
           /\ at[n] = e + L /\ \A k \in 1 .. L : S[e + k - 1] = F[k]
    <3>1. /\ Frames[n] \in Seq(Nat) /\ Len(Frames[n]) \in Nat
          /\ at[n] = at[n - 1] + Len(Frames[n])
          /\ Len(Frames[n]) >= 3 /\ Frames[n][1] = Header
          /\ Len(Frames[n]) = Frames[n][2] + 3
          /\ \A k \in 1 .. Len(Frames[n]) : S[at[n - 1] + k - 1] = Frames[n][k]
      <4>1. n \in 1 .. Len(Frames)
        BY Zenon, <2>6
      <4>2. QED BY ZenonT(40), <4>1, StreamFacts
    <3>2. at[n - 1] = e
      BY Zenon, <1>2, <2>6
    <3>3. QED BY Zenon, <3>1, <3>2
  <2>8. \A k \in 1 .. L : k <= r - p => rx_buf[p + k - 1] = F[k]
    <3>1. ASSUME NEW k \in 1 .. L, k <= r - p PROVE rx_buf[p + k - 1] = F[k]
      <4>1. PICK i \in 0 .. r - 1 : p + k - 1 = i /\ b + i = e + k - 1
        <5>1. p + k - 1 \in 0 .. r - 1 /\ b + (p + k - 1) = e + k - 1
          BY <2>1, <3>1
        <5>2. QED BY <5>1
      <4>2. QED BY Zenon, <2>3, <2>7, <3>1, <4>1
    <3>2. QED BY <3>1
  <2>9. executed' = Append(executed, F) /\ processed' = p + L /\ p + L <= r
    <3>1. \A k \in 1 .. Len(F) : k <= rx_len - processed => rx_buf[processed + k - 1] = F[k]
      BY Zenon, <1>2, <2>7, <2>8
    <3>2. /\ executed' = Append(executed, F) /\ processed' = processed + Len(F)
          /\ processed + Len(F) <= rx_len
      BY Zenon, <2>7, <3>1, FrontFrame
    <3>3. QED BY Zenon, <1>2, <2>7, <3>2
  <2>10. PICK g \in Nat : g = e + L
    OBVIOUS
  <2>11. g = s /\ f = g
    <3>1. g = s
      BY Zenon, <1>2, <2>6, <2>7, <2>10
    <3>2. g <= f
      BY <2>1, <2>3, <2>9, <2>10
    <3>3. QED BY <1>6, <3>1, <3>2
  <2>12. Len(executed') = n
    <3>1. executed \in Seq(Seq(Nat)) /\ x \in Nat
      BY Numbers
    <3>2. Len(Append(executed, F)) = Len(executed) + 1
      BY <3>1, <2>7
    <3>3. QED BY Zenon, <1>2, <2>5, <2>9, <3>2
  <2>13. From' = From /\ Pos' = Pos /\ Lapped' = Lapped
    BY <1>1 DEF From, Pos, Lapped
  <2>14. Arriving(S, at)'
    BY <1>1, <2>13 DEF Raced, Arriving
  <2>15. Buffered(S, b, g)'
    <3>1. processed' = g - b
      BY <2>1, <2>9, <2>10
    <3>2. QED BY <1>1, <1>2, <2>2, <2>3, <2>13, <3>1 DEF Buffered
  <2>16. a \in 0 .. n /\ g <= f
    BY <2>5, <2>11
  <2>17. at[Len(executed')] = g
    BY Zenon, <2>7, <2>10, <2>12
  <2>18. Raced(S, at)'
    BY Zenon, <1>1, <1>2, <1>4, <2>6, <2>11, <2>12, <2>13, <2>14, <2>15, <2>16, <2>17
       DEF Raced
  <2>19. n <= sent
    BY <2>5, <2>6
  <2>20. QED BY Zenon, <1>2, <2>5, <2>6, <2>7, <2>9, <2>18, <2>19
<1>10. QED BY <1>8, <1>9

-----------------------------------------------------------------------------
(* The first frame executed out of its turn. *)

\* No more answers than frames executed.
Counted ==
  \E q \in Nat : /\ Len(reply) = 4 * q + (IF tx = 0 THEN 0 ELSE tx - 1)
                 /\ q + (IF tx = 0 THEN 0 ELSE 1) <= Len(executed)

\* Once rx_buf has been full the UART is never again at its beginning.
LapEnds == nextBuf[2] = RxSize

RaceInv(S, at) ==
  /\ Counted /\ LapEnds
  /\ Racing(mode) /\ FirstLap =>
       /\ InTurn => Raced(S, at)
       /\ \A i \in 1 .. Len(executed) :
            (\A j \in 1 .. i - 1 : j <= Len(Frames) /\ executed[j] = Frames[j]) =>
              \E n \in 1 .. sent : n <= i /\ executed[i] = Frames[n]

LEMMA CountedStep == InBuffer /\ Counted /\ [Next]_vars => Counted'
<1> SUFFICES ASSUME InBuffer, Counted, [Next]_vars PROVE Counted'
  OBVIOUS
<1>1. /\ tx \in 0 .. 4 /\ resp \in [1 .. 5 -> Nat] /\ reply \in Seq(Nat)
      /\ executed \in Seq(Seq(Nat)) /\ Len(executed) \in Nat
  <2>1. tx \in 0 .. AnswerSize /\ resp \in [1 .. StructSize -> Nat] /\ reply \in Seq(Nat)
    BY DEF InBuffer, TypeOK
  <2>2. QED BY <2>1, Numbers, Constants
<1>2. PICK q \in Nat : /\ Len(reply) = 4 * q + (IF tx = 0 THEN 0 ELSE tx - 1)
                       /\ q + (IF tx = 0 THEN 0 ELSE 1) <= Len(executed)
  BY DEF Counted
<1>3. CASE ParseFound
  <2>1. /\ tx' = (IF tx = 0 THEN 1 ELSE tx) /\ reply' = reply
        /\ Len(executed') = Len(executed) + 1
    <3>1. \E F : executed' = Append(executed, F)
      BY <1>3 DEF ParseFound
    <3>2. PICK F : executed' = Append(executed, F)
      BY <3>1
    <3>3. Len(executed') = Len(executed) + 1
      BY <1>1, <3>2
    <3>4. QED BY <1>3, <3>3 DEF ParseFound, SendResponse
  <2>2. Len(reply') = 4 * q + (IF tx' = 0 THEN 0 ELSE tx' - 1)
    BY <1>1, <1>2, <2>1
  <2>3. q + (IF tx' = 0 THEN 0 ELSE 1) <= Len(executed')
    BY <1>1, <1>2, <2>1
  <2>4. QED BY <2>2, <2>3 DEF Counted
<1>4. CASE TxByte
  <2>1. /\ tx \in 1 .. 4 /\ reply' = Append(reply, resp[tx])
        /\ tx' = (IF tx = 4 THEN 0 ELSE tx + 1) /\ executed' = executed
    BY <1>1, <1>4, Constants DEF TxByte
  <2>2. Len(reply') = Len(reply) + 1
    BY <1>1, <2>1
  <2>3. CASE tx = 4
    <3>1. PICK u \in Nat : u = q + 1
      OBVIOUS
    <3>2. Len(reply') = 4 * u + 0 /\ tx' = 0 /\ u + 0 <= Len(executed')
      BY <1>2, <2>1, <2>2, <2>3, <3>1
    <3>3. QED BY <3>2 DEF Counted
  <2>4. CASE tx # 4
    <3>1. Len(reply') = 4 * q + (tx' - 1) /\ tx' # 0 /\ q + 1 <= Len(executed')
      BY <1>2, <2>1, <2>2, <2>4
    <3>2. QED BY <3>1 DEF Counted
  <2>5. QED BY <2>3, <2>4
<1>5. CASE UNCHANGED <<executed, tx, reply>>
  BY <1>2, <1>5 DEF Counted
<1>6. QED
  BY <1>3, <1>4, <1>5
     DEF Next, MainLoop, vars, txVars, Send, DmaByte, IdleInterrupt, FullInterrupt, Wake,
         LoopTest, ParseNone, TrimTest, Move, SubtractRead, SubtractWrite, EmptyTest, Zero

LEMMA CountedAnswers ==
  ASSUME InBuffer, Counted
  PROVE  Answers \in Nat /\ Answers <= Len(executed)
<1>1. tx \in 0 .. 4 /\ Len(executed) \in Nat
  <2>1. tx \in 0 .. AnswerSize
    BY DEF InBuffer, TypeOK
  <2>2. QED BY <2>1, Numbers, Constants
<1>2. PICK q \in Nat : /\ Len(reply) = 4 * q + (IF tx = 0 THEN 0 ELSE tx - 1)
                       /\ q + (IF tx = 0 THEN 0 ELSE 1) <= Len(executed)
  BY DEF Counted
<1>3. (IF tx = 0 THEN 0 ELSE tx - 1) \in 0 .. 3
  BY <1>1
<1>4. Answers = q
  BY <1>2, <1>3, CountOfAnswers
<1>5. QED BY <1>1, <1>2, <1>4

LEMMA LapStays ==
  ASSUME InBuffer, LapEnds, [Next]_vars
  PROVE  LapEnds' /\ (FirstLap' => FirstLap)
<1>1. CASE DmaByte
  <2>1. nextBuf' = nextBuf /\ dma' = [dma EXCEPT !.pos = @ + 1]
    BY <1>1 DEF DmaByte
  <2>2. dma \in [pos : 0 .. RxSize, end : 0 .. RxSize, from : 0 .. RxSize] /\ RxSize \in Nat
    BY Constants DEF InBuffer, TypeOK
  <2>3. dma'.pos # 0
    BY <2>1, <2>2
  <2>4. QED BY <2>1, <2>3 DEF LapEnds, FirstLap
<1>2. CASE FullInterrupt
  <2>1. /\ dma.pos = dma.end /\ dma.from < dma.end /\ RxRdy(dma.end - dma.from)
        /\ IF nextBuf[1] < nextBuf[2]
             THEN /\ dma' = [pos |-> nextBuf[1], end |-> nextBuf[2], from |-> nextBuf[1]]
                  /\ nextBuf' = <<rx_len', RxSize>>
             ELSE dma' = [dma EXCEPT !.from = dma.end] /\ nextBuf' = nextBuf
    BY <1>2 DEF FullInterrupt
  <2>2. /\ dma \in [pos : 0 .. RxSize, end : 0 .. RxSize, from : 0 .. RxSize]
        /\ nextBuf \in (0 .. RxSize) \X (0 .. RxSize) /\ RxSize \in Nat
        /\ rx_len \in Nat /\ rx_len <= RxSize
    BY Constants DEF InBuffer, TypeOK
  <2>3. SUFFICES ASSUME FirstLap', ~FirstLap PROVE FALSE
    BY <2>1, <2>2 DEF LapEnds
  <2>4. nextBuf[1] # 0 /\ nextBuf # <<0, RxSize>> /\ dma.pos # 0
    BY <2>2, <2>3 DEF FirstLap, LapEnds
  <2>5. rx_len' # 0
    <3>1. PICK l \in Nat, n \in Nat : l = rx_len /\ n = dma.end - dma.from /\ n > 0
                                     /\ n <= RxSize
      BY <2>1, <2>2
    <3>2. l + n <= RxSize => rx_len' = l + n
      BY <2>1, <3>1 DEF RxRdy
    <3>3. ~(l + n <= RxSize) => rx_len' = l
      BY <2>1, <3>1 DEF RxRdy
    <3>4. QED BY <2>2, <3>1, <3>2, <3>3
  <2>6. nextBuf' # <<0, RxSize>> /\ dma'.pos # 0
    BY <2>1, <2>2, <2>4, <2>5
  <2>7. QED BY <2>3, <2>6 DEF FirstLap
<1>3. CASE nextBuf' = nextBuf /\ dma'.pos = dma.pos
  BY <1>3 DEF LapEnds, FirstLap
<1>4. IdleInterrupt => nextBuf' = nextBuf /\ dma'.pos = dma.pos
  <2>1. dma \in [pos : 0 .. RxSize, end : 0 .. RxSize, from : 0 .. RxSize]
    BY DEF InBuffer, TypeOK
  <2>2. QED BY <2>1 DEF IdleInterrupt
<1>5. QED
  BY <1>1, <1>2, <1>3, <1>4
     DEF Next, MainLoop, vars, uartVars, Send, TxByte, Wake, LoopTest, ParseFound,
         ParseNone, TrimTest, Move, SubtractRead, SubtractWrite, EmptyTest, Zero

LEMMA RacedStep ==
  ASSUME NEW S, NEW at \in [0 .. Len(Frames) -> Nat], WellFormed, Distinct,
         Streamed(S, at), InBuffer, InBuffer', Raced(S, at), Racing(mode), Counted,
         [Next]_vars, FirstLap', InTurn'
  PROVE  Raced(S, at)'
<1>1. mode.window = 1 /\ mode.whole
  BY DEF Racing
<1>2. CASE Send
  BY <1>1, <1>2, CountedAnswers, RacedSend
<1>3. CASE DmaByte
  BY <1>3, RacedByte
<1>4. CASE IdleInterrupt \/ FullInterrupt
  BY <1>1, <1>4, RacedInterrupt
<1>5. CASE ParseFound
  <2>1. SUFFICES ASSUME NEW n \in 1 .. Len(executed), n \in 1 .. Len(Frames),
                        executed' = Append(executed, Frames[n])
                 PROVE  FALSE
    BY <1>5, RacedParse
  <2>2. PICK x \in Nat : x = Len(executed)
    BY Numbers
  <2>3. Len(executed') = x + 1 /\ executed'[x + 1] = Frames[n]
    BY <2>1, <2>2, Numbers
  <2>4. x + 1 \in 1 .. Len(executed')
    BY <2>2, <2>3
  <2>5. x + 1 <= Len(Frames) /\ executed'[x + 1] = Frames[x + 1]
    BY <2>4 DEF InTurn
  <2>6. x + 1 \in 1 .. Len(Frames) /\ n # x + 1
    BY <2>1, <2>2, <2>5, Constants
  <2>7. QED BY Zenon, <2>1, <2>3, <2>5, <2>6 DEF Distinct
<1>6. CASE Wake \/ LoopTest \/ ParseNone \/ TrimTest \/ Move \/ SubtractRead
             \/ SubtractWrite \/ EmptyTest \/ Zero \/ TxByte \/ UNCHANGED vars
  BY <1>6, RacedLoop
<1>7. QED BY Zenon, <1>2, <1>3, <1>4, <1>5, <1>6 DEF Next, MainLoop

\* What was executed when it was its turn still was.
LEMMA TurnStep ==
  ASSUME InBuffer, [Next]_vars
  PROVE  /\ sent <= sent' /\ sent \in Nat /\ sent' \in Nat
         /\ executed' = executed \/ \E F : executed' = Append(executed, F)
         /\ Len(executed) <= Len(executed') /\ Len(executed') <= Len(executed) + 1
         /\ Len(executed') \in Nat
         /\ \A i \in 1 .. Len(executed) : executed'[i] = executed[i]
<1>1. executed' = executed \/ \E F : executed' = Append(executed, F)
  BY DEF Next, MainLoop, vars, Send, DmaByte, IdleInterrupt, FullInterrupt, TxByte, Wake,
         LoopTest, ParseFound, ParseNone, TrimTest, Move, SubtractRead, SubtractWrite,
         EmptyTest, Zero
<1>2. sent' = sent \/ sent' = sent + 1
  BY DEF Next, MainLoop, vars, Send, DmaByte, IdleInterrupt, FullInterrupt, TxByte, Wake,
         LoopTest, ParseFound, ParseNone, TrimTest, Move, SubtractRead, SubtractWrite,
         EmptyTest, Zero
<1>3. sent \in Nat /\ executed \in Seq(Seq(Nat)) /\ Len(executed) \in Nat
  BY Numbers
<1>4. CASE executed' = executed
  BY <1>1, <1>2, <1>3, <1>4
<1>5. ASSUME NEW F, executed' = Append(executed, F)
      PROVE  /\ Len(executed') = Len(executed) + 1
             /\ \A i \in 1 .. Len(executed) : executed'[i] = executed[i]
  BY <1>3, <1>5
<1>6. QED BY <1>1, <1>2, <1>3, <1>4, <1>5

LEMMA RaceInvStep ==
  ASSUME NEW S, NEW at \in [0 .. Len(Frames) -> Nat], WellFormed, Distinct,
         Streamed(S, at), InBuffer, InBuffer', RaceInv(S, at), [Next]_vars
  PROVE  RaceInv(S, at)'
<1>1. Counted' /\ LapEnds' /\ (FirstLap' => FirstLap)
  BY CountedStep, LapStays DEF RaceInv
<1>2. mode' = mode
  BY DEF Next, MainLoop, Send, DmaByte, IdleInterrupt, FullInterrupt, TxByte, Wake,
         LoopTest, ParseFound, ParseNone, TrimTest, Move, SubtractRead,
         SubtractWrite, EmptyTest, Zero, vars, uartVars
<1>3. SUFFICES ASSUME Racing(mode), FirstLap', FirstLap
               PROVE  /\ InTurn' => Raced(S, at)'
                      /\ \A i \in 1 .. Len(executed') :
                           (\A j \in 1 .. i - 1 : j <= Len(Frames) /\ executed'[j] = Frames[j]) =>
                             \E n \in 1 .. sent' : n <= i /\ executed'[i] = Frames[n]
  BY <1>1, <1>2 DEF RaceInv
<1>4. /\ InTurn => Raced(S, at)
      /\ \A i \in 1 .. Len(executed) :
           (\A j \in 1 .. i - 1 : j <= Len(Frames) /\ executed[j] = Frames[j]) =>
             \E n \in 1 .. sent : n <= i /\ executed[i] = Frames[n]
  BY <1>3 DEF RaceInv
<1>5. /\ sent <= sent' /\ sent \in Nat /\ sent' \in Nat
      /\ Len(executed) \in Nat /\ Len(executed') \in Nat
      /\ Len(executed) <= Len(executed') /\ Len(executed') <= Len(executed) + 1
      /\ \A i \in 1 .. Len(executed) : executed'[i] = executed[i]
  BY TurnStep, Numbers
<1>6. ASSUME InTurn' PROVE Raced(S, at)'
  <2>1. InTurn
    BY <1>5, <1>6 DEF InTurn
  <2>2. Counted
    BY DEF RaceInv
  <2>3. QED BY <1>3, <1>4, <1>6, <2>1, <2>2, RacedStep
<1>7. ASSUME NEW i \in 1 .. Len(executed'),
             \A j \in 1 .. i - 1 : j <= Len(Frames) /\ executed'[j] = Frames[j]
      PROVE  \E n \in 1 .. sent' : n <= i /\ executed'[i] = Frames[n]
  <2>1. CASE i \in 1 .. Len(executed)
    <3>1. \A j \in 1 .. i - 1 : j <= Len(Frames) /\ executed[j] = Frames[j]
      <4>1. \A j \in 1 .. i - 1 : j \in 1 .. Len(executed)
        BY <1>5, <2>1
      <4>2. QED BY Zenon, <1>5, <1>7, <4>1
    <3>2. PICK n \in 1 .. sent : n <= i /\ executed[i] = Frames[n]
      BY <1>4, <2>1, <3>1
    <3>3. n \in 1 .. sent'
      BY <1>5, <3>2
    <3>4. QED BY Zenon, <1>5, <2>1, <3>2, <3>3
  <2>2. CASE i \notin 1 .. Len(executed)
    <3>1. PICK x \in Nat : x = Len(executed) /\ i = x + 1
      BY <1>5, <2>2
    <3>2. InTurn
      <4>1. \A j \in 1 .. Len(executed) : j \in 1 .. i - 1
        BY <3>1
      <4>2. QED BY Zenon, <1>5, <1>7, <4>1 DEF InTurn
    <3>3. Raced(S, at)
      BY <1>4, <3>2
    <3>4. ParseFound
      <4>1. executed' # executed
        BY <1>5, <2>2
      <4>2. QED
        BY <4>1 DEF Next, MainLoop, vars, Send, DmaByte, IdleInterrupt, FullInterrupt,
               TxByte, Wake, LoopTest, ParseNone, TrimTest, Move, SubtractRead,
               SubtractWrite, EmptyTest, Zero
    <3>5. executed \in Seq(Seq(Nat)) /\ x <= sent /\ Frames \in Seq(Seq(Nat))
      BY <3>1, <3>3, RacedFacts, Numbers, Constants
    <3>6. CASE /\ x + 1 <= sent /\ x + 1 \in 1 .. Len(Frames)
               /\ executed' = Append(executed, Frames[x + 1])
      <4>1. executed'[i] = Frames[x + 1]
        BY <3>1, <3>5, <3>6
      <4>2. x + 1 \in 1 .. sent' /\ x + 1 <= i
        BY <1>5, <3>1, <3>6
      <4>3. QED BY Zenon, <4>1, <4>2
    <3>7. CASE \E n \in 1 .. x : n \in 1 .. Len(Frames) /\ executed' = Append(executed, Frames[n])
      <4>1. PICK n \in 1 .. x : n \in 1 .. Len(Frames) /\ executed' = Append(executed, Frames[n])
        BY <3>7
      <4>2. executed'[i] = Frames[n]
        BY <3>1, <3>5, <4>1
      <4>3. n \in 1 .. sent' /\ n <= i
        BY <1>5, <3>1, <3>5, <4>1
      <4>4. QED BY Zenon, <4>2, <4>3
    <3>8. QED BY <3>1, <3>3, <3>4, <3>6, <3>7, RacedParse
  <2>3. QED BY <2>1, <2>2
<1>8. QED BY <1>6, <1>7

LEMMA RaceInvInit ==
  ASSUME NEW S, NEW at \in [0 .. Len(Frames) -> Nat], Streamed(S, at), Init
  PROVE  RaceInv(S, at)
<1>1. /\ at[0] = 0 /\ executed = <<>> /\ sent = 0 /\ rx_len = 0 /\ pc = "sleep"
      /\ nextBuf = <<0, RxSize>> /\ dma = [pos |-> 0, end |-> RxSize, from |-> 0]
      /\ line = [i \in 1 .. mode.noise |-> 0] /\ tx = 0 /\ reply = <<>>
  BY DEF Init, Streamed
<1>2. Len(executed) = 0 /\ Len(reply) = 0
  BY <1>1
<1>3. Counted
  <2>1. Len(reply) = 4 * 0 + (IF tx = 0 THEN 0 ELSE tx - 1)
        /\ 0 + (IF tx = 0 THEN 0 ELSE 1) <= Len(executed)
    BY <1>1, <1>2
  <2>2. QED BY <2>1 DEF Counted
<1>4. LapEnds
  BY <1>1 DEF LapEnds
<1>5. ASSUME Racing(mode) PROVE Raced(S, at)
  <2>1. line = <<>> /\ Len(line) = 0
    BY <1>1, <1>5 DEF Racing
  <2>2. dma.pos = 0 /\ dma.end = RxSize /\ dma.from = 0
    BY <1>1
  <2>3. From = 0 /\ Pos = 0 /\ Kept = 0 /\ ~Lapped
    BY <1>1, <2>2 DEF From, Pos, Kept, Lapped
  <2>4. Arriving(S, at)
    <3>1. at[sent] = 0 /\ 0 <= 0 /\ 0 = 0 - 0
      BY <1>1
    <3>2. (\A k \in 1 .. 0 : FALSE) /\ \A k \in 0 .. 0 - 1 : FALSE
      OBVIOUS
    <3>3. QED BY Zenon, <2>1, <2>2, <2>3, <3>1, <3>2 DEF Arriving
  <2>5. Buffered(S, 0, 0)
    BY <1>1, <2>3 DEF Buffered
  <2>6. 0 \in 0 .. Len(executed) /\ at[Len(executed)] = 0
    BY <1>1, <1>2
  <2>7. QED BY <1>1, <1>2, <2>3, <2>4, <2>5, <2>6 DEF Raced
<1>6. QED BY <1>2, <1>3, <1>4, <1>5 DEF RaceInv

\* Where each frame is reported by one event, and wherever that event falls in a
\* pass: the first frame executed out of its turn is, in the first lap, one that has
\* been executed before, and it is whole.
THEOREM ReportedWholeStaysWhole ==
  ASSUME OneLap, Distinct PROVE Spec => []WholeFramesStayWhole
<1>1. PICK G, at, f : Stream(G, at, f)
  BY StreamExists
<1>2. at \in [0 .. Len(Frames) -> Nat] /\ Streamed(G, at)
  BY Zenon, <1>1 DEF Stream
<1>3. WellFormed
  BY DEF OneLap
<1>4. Spec => []RaceInv(G, at)
  <2>1. Init => RaceInv(G, at)
    BY <1>2, RaceInvInit
  <2>2. InBuffer /\ InBuffer' /\ RaceInv(G, at) /\ [Next]_vars => RaceInv(G, at)'
    BY <1>2, <1>3, RaceInvStep
  <2>3. QED BY <2>1, <2>2, ReceiveInBuffer, PTL DEF Spec
<1>5. InBuffer /\ RaceInv(G, at) /\ InOrderOnce => WholeFramesStayWhole
  <2> SUFFICES ASSUME InBuffer, RaceInv(G, at), InOrderOnce, FirstLap,
                      mode.noise = 0, mode.window = 1, mode.whole,
                      NEW i \in DOMAIN executed,
                      \A j \in 1 .. i - 1 : j <= Len(Frames) /\ executed[j] = Frames[j]
               PROVE  \E n \in 1 .. sent : n <= i /\ executed[i] = Frames[n]
    BY DEF WholeFramesStayWhole
  <2>1. /\ executed \in Seq(Seq(Nat)) /\ sent \in Nat /\ Len(executed) \in Nat
        /\ i \in 1 .. Len(executed)
    <3>1. executed \in Seq(Seq(Nat)) /\ sent \in Nat /\ Len(executed) \in Nat
      BY Zenon, Numbers
    <3>2. QED BY Zenon, <3>1, LenProperties
  <2>2. CASE mode.preempt
    <3>1. Racing(mode)
      BY <2>2 DEF Racing
    <3>2. QED BY Zenon, <2>1, <3>1 DEF RaceInv
  <2>3. CASE ~mode.preempt
    <3>1. Len(executed) <= sent /\ executed[i] = Frames[i]
      BY <2>1, <2>3 DEF InOrderOnce, Clean
    <3>2. i \in 1 .. sent /\ i <= i
      BY <2>1, <3>1
    <3>3. QED BY Zenon, <3>1, <3>2
  <2>4. QED BY <2>2, <2>3
<1>6. QED BY <1>4, <1>5, ReceiveInBuffer, FramesInOrderOnce, PTL
=============================================================================
