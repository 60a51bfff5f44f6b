---------------------------- MODULE FrameDecoder ----------------------------
(***************************************************************************)
(* The PC tool's stream decoder (protocol/codec.rs), which the reader      *)
(* thread of the serial port feeds with whatever a read returns.           *)
(*                                                                         *)
(* A frame is scaled down to <<M1, M2, n>> \o data \o <<T>>: the header    *)
(* mark keeps its two bytes, because a read may end between them; the      *)
(* other fields of the 16-byte prefix shrink to the length, and the 4-byte *)
(* suffix to one byte of tail.                                             *)
(***************************************************************************)
EXTENDS Integers, Sequences

CONSTANTS
  M1, M2,      \* FRAME_HEADER: 0x12 0x34
  T,           \* FRAME_TAIL
  Streams      \* what may come over the line

PREFIX_SIZE == 3
SUFFIX_SIZE == 1

ASSUME DecoderAssumption ==
  /\ M1 \in Nat /\ M2 \in Nat /\ M1 # M2 /\ T \in Nat
  /\ Streams \subseteq Seq(Nat)

VARIABLES
  buf, expected_len,  \* as in FrameDecoder
  frames,             \* the frames returned so far
  stream, fed         \* the bytes of this run, and how many have been fed

vars == <<buf, expected_len, frames, stream, fed>>

MarkAt(s, i) == i < Len(s) /\ s[i] = M1 /\ s[i + 1] = M2

\* find_header: the first position of the mark, if there is one.
Marks(s) == {i \in DOMAIN s : MarkAt(s, i)}
FirstMark(s) == CHOOSE i \in Marks(s) : \A j \in Marks(s) : i <= j

From(s, i) == SubSeq(s, i, Len(s))

\* Frame::from_bytes on expected_len bytes that begin with the mark.
Valid(s, n) == s[n] = T

\* The last byte may be the first half of a mark: all but it is dropped.  A
\* single byte stays whatever it is.
KeepNothing(s) == <<>>   \* variant: a half mark is garbage too
Keep(s) ==
  IF Len(s) <= 1 THEN s
  ELSE IF s[Len(s)] = M1 THEN <<M1>> ELSE <<>>

State(b, e, fs) == [buf |-> b, expected |-> e, frames |-> fs]

\* feed while it looks for the mark, and the length behind it.
Search(st) ==
  IF st.expected # 0 THEN st
  ELSE IF Marks(st.buf) = {} THEN State(Keep(st.buf), 0, st.frames)
  ELSE LET b == From(st.buf, FirstMark(st.buf)) IN
       State(b, IF Len(b) < PREFIX_SIZE THEN 0
                ELSE PREFIX_SIZE + b[PREFIX_SIZE] + SUFFIX_SIZE, st.frames)

Complete(st) == st.expected > 0 /\ Len(st.buf) >= st.expected

\* feed on the expected bytes: a frame, or a mark that was none.
Extract(st) ==
  IF Valid(st.buf, st.expected)
    THEN State(From(st.buf, st.expected + 1), 0,
               Append(st.frames, SubSeq(st.buf, 1, st.expected)))
    ELSE State(From(st.buf, 3), 0, st.frames)

\* One round of feed's loop.  Where the code breaks off to wait for more bytes
\* a further round changes nothing.
Round(st) == LET found == Search(st) IN IF Complete(found) THEN Extract(found) ELSE found

\* The loop of feed.  Each round that is not the last takes two bytes or more.
Loop(st) ==
  LET after[n \in 0 .. Len(st.buf)] == IF n = 0 THEN st ELSE Round(after[n - 1])
  IN  after[Len(st.buf)]

Init ==
  /\ buf = <<>> /\ expected_len = 0 /\ frames = <<>>
  /\ stream \in Streams /\ fed = 0

Feed(k) ==
  /\ fed + k <= Len(stream)
  /\ LET st == Loop(State(buf \o SubSeq(stream, fed + 1, fed + k),
                          expected_len, frames))
     IN  buf' = st.buf /\ expected_len' = st.expected /\ frames' = st.frames
  /\ fed' = fed + k
  /\ UNCHANGED stream

Next == \E k \in 1 .. Len(stream) : Feed(k)

Spec == Init /\ [][Next]_vars

-----------------------------------------------------------------------------
(* Property. *)

\* What a stream means, without a buffer: the frames in s from position i on.  The
\* first mark from i on begins a frame as long as its length field says, which ends
\* in a tail; without the tail the mark was no mark.
MarksFrom(s, i) == {j \in i .. Len(s) : MarkAt(s, j)}
FirstFrom(s, i) == CHOOSE j \in MarksFrom(s, i) : \A k \in MarksFrom(s, i) : j <= k
FrameEnd(s, j)  == j + PREFIX_SIZE + s[j + 2]

Decode(s) ==
  LET rest[i \in 1 .. Len(s) + 1] ==
        LET j == FirstFrom(s, i) IN
        IF MarksFrom(s, i) = {} \/ j + 2 > Len(s) \/ FrameEnd(s, j) > Len(s) THEN <<>>
        ELSE IF s[FrameEnd(s, j)] = T
          THEN <<SubSeq(s, j, FrameEnd(s, j))>> \o rest[FrameEnd(s, j) + 1]
          ELSE rest[j + 2]
  IN  rest

\* However the bytes are split over the reads, down to the middle of a mark,
\* a length or a tail, the frames returned are those of the stream so far.
SplitIrrelevant == frames = Decode(SubSeq(stream, 1, fed))[1]
=============================================================================
