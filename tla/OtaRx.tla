-------------------------------- MODULE OtaRx --------------------------------
(***************************************************************************)
(* How the device turns bytes into commands and answers them               *)
(* (app90_ota/src/ota_protocol.c): the UART's DMA writes into rx_buf, its  *)
(* interrupt (uart_cb) appends what arrived to the first rx_len bytes of   *)
(* the SAME rx_buf, and the main loop (ota_process_rx) parses frames from  *)
(* there.  The interrupt may come between any two accesses of the main     *)
(* loop to the volatile rx_len.  Answers are sent by DMA too, out of the   *)
(* stack of a function that has returned.                                  *)
(*                                                                         *)
(* A frame is scaled down to <<Header, n>> \o data \o <<Tail>>: two bytes  *)
(* for the 16 of ota_frame_header_t, of which only the mark and the length *)
(* steer the parser, and one byte for the 4 of ota_frame_tail_t.  Every    *)
(* frame is answered with one byte of data: the number of the answer.      *)
(***************************************************************************)
EXTENDS Integers, Sequences

CONSTANTS
  RxSize,    \* RX_BUF_SIZE
  Header,    \* the byte that stands for the mark 0x12 0x34
  Tail0,     \* the byte that stands for reserved, 0xCD 0xEF
  Frames,    \* the frames the host sends, in order
  Modes      \* how host and interrupt may behave, see Mode

HdrSize  == 2
TailSize == 1
MinSize  == HdrSize   \* FRAME_MIN_SIZE is 18, less than the 20 of an empty frame
MaxData  == 2         \* bound: FRAME_MAX_DATA_LEN, room for more than is answered

\* What is sent of an answer, and the ota_frame_t it is sent from.
AnswerSize == HdrSize + 1 + TailSize
StructSize == HdrSize + MaxData + TailSize

\* frames:  how many of Frames the host sends
\* window:  how many it sends without waiting for an answer
\* whole:   a frame comes without gaps and is reported in one event
\* preempt: the interrupt may come during ota_process_rx, not only during the
\*          10 ms the main loop sleeps
\* noise:   how many bytes of garbage come before the first frame
Mode == [frames : Nat, window : Nat \ {0}, whole : BOOLEAN, preempt : BOOLEAN,
         noise : Nat]

ASSUME RxAssumption ==
  /\ RxSize \in Nat \ {0}
  /\ Header \in Nat \ {0} /\ Tail0 \in Nat \ {0}   \* garbage is 0
  /\ Frames \in Seq(Seq(Nat))
  /\ Modes \subseteq Mode /\ \A m \in Modes : m.frames <= Len(Frames)

VARIABLES
  rx_buf, rx_len,
  dma,        \* the UART's buffer: base, next position, end, start of unreported
  nextBuf,    \* the buffer uart_rx_buf_rsp has queued: <<base, end>>
  line,       \* bytes still to arrive
  sent,       \* frames sent
  pc,         \* where ota_process_rx has got to
  processed, tmp,   \* its locals; tmp is the rx_len read by "rx_len -= processed"
  executed,   \* the frames given to ota_frame_process
  resp,       \* the memory of the ota_frame_t in ota_send_response
  tx,         \* the cell of resp the UART sends next, 0 when it sends nothing
  reply,      \* the bytes sent to the host
  mode        \* the mode of this behaviour

uartVars == <<dma, nextBuf, line, mode>>
loopVars == <<pc, processed, tmp>>
txVars == <<resp, tx, reply>>
vars == <<rx_buf, rx_len, uartVars, sent, loopVars, executed, txVars>>

Cells == 0 .. RxSize - 1

Init ==
  /\ rx_buf = [i \in Cells |-> 0] /\ rx_len = 0
  /\ dma = [pos |-> 0, end |-> RxSize, from |-> 0]
  /\ nextBuf = <<0, RxSize>>
  /\ sent = 0
  /\ pc = "sleep" /\ processed = 0 /\ tmp = 0
  /\ executed = <<>>
  /\ mode \in Modes
  /\ line = [i \in 1 .. mode.noise |-> 0]
  /\ \E junk \in {0, Tail0} : resp = [i \in 1 .. StructSize |-> junk]
  /\ tx = 0 /\ reply = <<>>

Answers == Len(reply) \div AnswerSize

SendEarly ==   \* variant: the host does not wait for the whole answer
  /\ sent < mode.frames /\ sent < Len(executed) + mode.window
  /\ line' = line \o Frames[sent + 1]
  /\ sent' = sent + 1
  /\ UNCHANGED <<rx_buf, rx_len, dma, nextBuf, loopVars, executed, mode, txVars>>

\* The host sends its next frame when it has the answers to all but window - 1.
Send ==
  /\ sent < mode.frames /\ sent < Answers + mode.window
  /\ line' = line \o Frames[sent + 1]
  /\ sent' = sent + 1
  /\ UNCHANGED <<rx_buf, rx_len, dma, nextBuf, loopVars, executed, mode, txVars>>

-----------------------------------------------------------------------------
(* The UART and its interrupt. *)

DmaByte ==
  /\ line # <<>> /\ dma.pos < dma.end
  /\ rx_buf' = [rx_buf EXCEPT ![dma.pos] = Head(line)]
  /\ line' = Tail(line)
  /\ dma' = [dma EXCEPT !.pos = @ + 1]
  /\ UNCHANGED <<rx_len, nextBuf, sent, loopVars, executed, mode, txVars>>

InterruptsAllowed == mode.preempt \/ pc = "sleep"

\* memcpy of n bytes within rx_buf.  Where the target overlaps the source from
\* above the result is undefined: a copy from the front repeats itself.
Copied(dst, src, n) ==
  LET moved == [i \in Cells |-> IF i \in dst .. dst + n - 1
                                  THEN rx_buf[src + (i - dst)] ELSE rx_buf[i]]
      smear == [i \in Cells |-> IF i \in dst .. dst + n - 1
                                  THEN rx_buf[src + ((i - dst) % (dst - src))]
                                  ELSE rx_buf[i]]
  IN  IF src < dst /\ dst < src + n THEN {moved, smear} ELSE {moved}

\* UART_RX_RDY: append what has arrived, or drop it when it does not fit.
RxRdy(n) ==
  IF rx_len + n <= RxSize
    THEN rx_buf' \in Copied(rx_len, dma.from, n) /\ rx_len' = rx_len + n
    ELSE UNCHANGED <<rx_buf, rx_len>>

\* The line has been idle for the receive timeout.
IdleInterrupt ==
  /\ InterruptsAllowed
  /\ dma.from < dma.pos /\ dma.pos < dma.end
  /\ mode.whole => line = <<>>
  /\ RxRdy(dma.pos - dma.from)
  /\ dma' = [dma EXCEPT !.from = dma.pos]
  /\ UNCHANGED <<nextBuf, line, sent, loopVars, executed, mode, txVars>>

\* The buffer is full: RX_RDY, then the UART goes on in the queued buffer and
\* UART_RX_BUF_REQUEST offers it the rest of rx_buf.  Without a queued buffer
\* reception ends.
FullInterrupt ==
  /\ InterruptsAllowed
  /\ dma.pos = dma.end /\ dma.from < dma.end
  /\ RxRdy(dma.end - dma.from)
  /\ IF nextBuf[1] < nextBuf[2]
       THEN /\ dma' = [pos |-> nextBuf[1], end |-> nextBuf[2], from |-> nextBuf[1]]
            /\ nextBuf' = <<rx_len', RxSize>>
       ELSE dma' = [dma EXCEPT !.from = dma.end] /\ UNCHANGED nextBuf
  /\ UNCHANGED <<line, sent, loopVars, executed, mode, txVars>>

\* The UART sends out of the memory it was given, whatever is there by now.
TxByte ==
  /\ tx # 0
  /\ reply' = Append(reply, resp[tx])
  /\ tx' = IF tx = AnswerSize THEN 0 ELSE tx + 1
  /\ UNCHANGED <<rx_buf, rx_len, uartVars, sent, loopVars, executed, resp>>

-----------------------------------------------------------------------------
(* ota_process_rx, one action per access to rx_len. *)

\* ota_frame_parse on len bytes from position at: the distances at which a
\* header mark is found; the first one counts.
Marks(at, len) == {p \in 0 .. len - MinSize : rx_buf[at + p] = Header}

NoTailLen(at) == HdrSize + rx_buf[at + 1]   \* variant: the tail is forgotten
TotalLen(at) == HdrSize + rx_buf[at + 1] + TailSize

Goto(label) == pc' = label

\* ota_send_response: ota_frame_build writes the tail where ota_frame_t has it,
\* behind the room for the longest data, and uart_tx is given the length of the
\* frame.  While the UART is busy uart_tx fails, but the memory is written.
SendResponse ==
  /\ resp' = [resp EXCEPT ![1] = Header, ![2] = 1, ![3] = Len(executed'),
                          ![StructSize] = Tail0]
  /\ tx' = IF tx = 0 THEN 1 ELSE tx
  /\ UNCHANGED reply

Wake ==
  /\ pc = "sleep"
  /\ Goto("loop") /\ processed' = 0
  /\ UNCHANGED <<rx_buf, rx_len, uartVars, sent, tmp, executed, txVars>>

LoopTest ==
  /\ pc = "loop"
  /\ Goto(IF processed < rx_len THEN "parse" ELSE "trim")
  /\ UNCHANGED <<rx_buf, rx_len, uartVars, sent, processed, tmp, executed, txVars>>

\* What is returned is the length of the frame, not counting what was skipped
\* to find it.  The tail is copied, never looked at.
ParseFound ==
  /\ pc = "parse"
  /\ \E p \in Marks(processed, rx_len - processed) :
       /\ \A q \in Marks(processed, rx_len - processed) : p <= q
       /\ LET at == processed + p IN
            /\ p + TotalLen(at) <= rx_len - processed
            /\ executed' = Append(executed,
                             [i \in 1 .. TotalLen(at) |-> rx_buf[at + i - 1]])
            /\ processed' = processed + TotalLen(at)
  /\ SendResponse
  /\ Goto("loop")
  /\ UNCHANGED <<rx_buf, rx_len, uartVars, sent, tmp>>

ParseNone ==
  /\ pc = "parse"
  /\ \A p \in Marks(processed, rx_len - processed) :
       (\A q \in Marks(processed, rx_len - processed) : p <= q)
         => p + TotalLen(processed + p) > rx_len - processed
  /\ Goto("trim")
  /\ UNCHANGED <<rx_buf, rx_len, uartVars, sent, processed, tmp, executed, txVars>>

NeverTrim ==   \* variant: a partly processed buffer is left alone
  /\ pc = "trim" /\ Goto("emptyTest")
  /\ UNCHANGED <<rx_buf, rx_len, uartVars, sent, processed, tmp, executed, txVars>>

TrimTest ==
  /\ pc = "trim"
  /\ Goto(IF processed > 0 /\ processed < rx_len THEN "move" ELSE "emptyTest")
  /\ UNCHANGED <<rx_buf, rx_len, uartVars, sent, processed, tmp, executed, txVars>>

NoMove ==   \* variant: the rest is not moved to the front
  /\ pc = "move" /\ Goto("read")
  /\ UNCHANGED <<rx_buf, rx_len, uartVars, sent, processed, tmp, executed, txVars>>

Move ==
  /\ pc = "move"
  /\ rx_buf' = [i \in Cells |-> IF i < rx_len - processed
                                  THEN rx_buf[processed + i] ELSE rx_buf[i]]
  /\ Goto("read")
  /\ UNCHANGED <<rx_len, uartVars, sent, processed, tmp, executed, txVars>>

SubtractRead ==
  /\ pc = "read"
  /\ tmp' = rx_len /\ Goto("write")
  /\ UNCHANGED <<rx_buf, rx_len, uartVars, sent, processed, executed, txVars>>

SubtractSwapped ==   \* variant: the operands are exchanged
  /\ pc = "write"
  /\ rx_len' = processed - tmp /\ Goto("sleep")
  /\ UNCHANGED <<rx_buf, uartVars, sent, processed, tmp, executed, txVars>>

SubtractWrite ==
  /\ pc = "write"
  /\ rx_len' = tmp - processed /\ Goto("sleep")
  /\ UNCHANGED <<rx_buf, uartVars, sent, processed, tmp, executed, txVars>>

EmptyTest ==
  /\ pc = "emptyTest"
  /\ Goto(IF processed >= rx_len THEN "zero" ELSE "sleep")
  /\ UNCHANGED <<rx_buf, rx_len, uartVars, sent, processed, tmp, executed, txVars>>

Zero ==
  /\ pc = "zero"
  /\ rx_len' = 0 /\ Goto("sleep")
  /\ UNCHANGED <<rx_buf, uartVars, sent, processed, tmp, executed, txVars>>

MainLoop ==
  \/ Wake \/ LoopTest \/ ParseFound \/ ParseNone \/ TrimTest
  \/ Move \/ SubtractRead \/ SubtractWrite \/ EmptyTest \/ Zero

Next ==
  Send \/ DmaByte \/ IdleInterrupt \/ FullInterrupt \/ TxByte \/ MainLoop

Spec == Init /\ [][Next]_vars

\* The host sends while it is answered, bytes arrive and leave, interrupts are
\* served, and the main loop runs.
Fairness ==
  /\ WF_vars(Send) /\ WF_vars(DmaByte) /\ WF_vars(TxByte) /\ WF_vars(MainLoop)
  /\ SF_vars(IdleInterrupt) /\ SF_vars(FullInterrupt)

FairSpec == Spec /\ Fairness
-----------------------------------------------------------------------------
(* Properties. *)

TypeOK ==
  /\ rx_buf \in [Cells -> Nat] /\ rx_len \in 0 .. RxSize
  /\ dma \in [pos : 0 .. RxSize, end : 0 .. RxSize, from : 0 .. RxSize]
  /\ nextBuf \in (0 .. RxSize) \X (0 .. RxSize)
  /\ line \in Seq(Nat) /\ sent \in 0 .. Len(Frames)
  /\ pc \in {"sleep", "loop", "parse", "trim", "move", "read", "write",
             "emptyTest", "zero"}
  /\ processed \in 0 .. RxSize /\ tmp \in 0 .. RxSize
  /\ executed \in Seq(Seq(Nat))
  /\ resp \in [1 .. StructSize -> Nat] /\ tx \in 0 .. AnswerSize
  /\ reply \in Seq(Nat)

Bytes(from, to) == [i \in 1 .. to - from |-> rx_buf[from + i - 1]]

\* The bytes the main loop still has to look at.
Pending ==
  CASE pc = "sleep"             -> Bytes(0, rx_len)
    [] pc \in {"read", "write"} -> Bytes(0, rx_len - processed)
    [] OTHER                    -> Bytes(processed, rx_len)

Concat(frames) ==
  LET upto[n \in 0 .. Len(frames)] ==
        IF n = 0 THEN <<>> ELSE upto[n - 1] \o frames[n]
  IN  upto[Len(frames)]

\* While interrupts come in the sleep only, no byte is lost, repeated or moved
\* out of its place between the line and the handlers: what was sent is what
\* has been executed, what is buffered, what the UART has not reported yet and
\* what is still on the line.
NothingLost == ~mode.preempt /\ mode.noise = 0 =>
  Concat(SubSeq(Frames, 1, sent)) =
    Concat(executed) \o Pending \o Bytes(dma.from, dma.pos) \o line

\* The frames delivered to the handlers, by their numbers.  Where the interrupt
\* falls into the pass nothing is promised, so nothing is shown.
Number(f) == IF \E n \in DOMAIN Frames : Frames[n] = f
               THEN CHOOSE n \in DOMAIN Frames : Frames[n] = f ELSE 0

Channel == INSTANCE FrameChannel WITH
  NFrames   <- Len(Frames),
  noisy     <- mode.noise > 0,
  accepted  <- IF mode.preempt THEN 0 ELSE sent,
  delivered <- IF mode.preempt THEN <<>>
               ELSE [i \in DOMAIN executed |-> Number(executed[i])]

\* While interrupts come in the sleep only, the receive path is such a channel:
\* each frame reaches its handler, in order and, on a clean line, once.
ChannelSpec == Channel!Spec

\* The UART has not come back to the beginning of rx_buf and written there.
FirstLap == nextBuf = <<0, RxSize>> \/ dma.pos = 0

\* Wherever the interrupt falls in the pass, a host that waits for every answer
\* and whose frames are each reported by one event, has them executed in turn
\* until, in the first lap, one is lost or executed again: the first frame that is
\* not the one whose turn it is has been executed before, whole.  Nothing keeps a
\* frame in one event: if the host pauses inside it, the UART reports it in pieces,
\* and a piece appended between the memmove and "rx_len -= processed" is counted
\* where bytes of the last frame lie, so that a frame nobody sent is executed.  And
\* once a frame has been executed again the host is an answer ahead, and the UART
\* writes over frames that are still to be executed.
WholeFramesStayWhole ==
  FirstLap /\ mode.noise = 0 /\ mode.window = 1 /\ mode.whole =>
    \A i \in DOMAIN executed :
      (\A j \in 1 .. i - 1 : j <= Len(Frames) /\ executed[j] = Frames[j]) =>
        \E n \in 1 .. sent : n <= i /\ executed[i] = Frames[n]

\* On a clean line a host that waits for answers gets each whole and once, though
\* it is sent from memory that the next answer will be written to.
AnswersWhole ==
  mode.window = 1 /\ ~mode.preempt /\ mode.noise = 0 =>
    \A j \in 1 .. Answers :
      SubSeq(reply, AnswerSize * (j - 1) + 1, AnswerSize * (j - 1) + 3)
        = <<Header, 1, j>>

\* "Frame tail: 0xCD 0xEF": the answers end in it.
AnswersEndInTail ==
  \A j \in 1 .. Answers : reply[AnswerSize * j] = Tail0

\* While interrupts come in the sleep only, each frame sent is executed, and so
\* answered, some day.
EveryFrameAnswered ==
  \A n \in DOMAIN Frames :
    (sent = n /\ ~mode.preempt) ~> (\E i \in DOMAIN executed : executed[i] = Frames[n])
=============================================================================
