------------------------------ MODULE PipeDemo ------------------------------
(***************************************************************************)
(* app39_pipe.  Example 1: messages of 7 bytes, read with room for 64.     *)
(* Example 2: commands of 33 bytes put without waiting into a pipe of 32,  *)
(* read 8 bytes at a time; every third read is followed by a reset of the  *)
(* pipe.  The examples share nothing, so a behaviour runs one of them.  A  *)
(* unit of time is 1 s.  A byte is represented by the number of its        *)
(* message.                                                                *)
(*                                                                         *)
(* The pipe is the kernel's: a reader that waits gets its bytes directly   *)
(* from the writer.  Whether k_pipe_read waits until all it asked for is   *)
(* there or returns with less is the kernel's choice too.                  *)
(***************************************************************************)
EXTENDS Sleeping, Sequences

CONSTANT Numbers   \* bound: messages are numbered modulo Numbers

VARIABLES
  example,       \* 1 or 2
  greedy,        \* k_pipe_read waits for all the bytes it asked for
  behind,        \* what lies behind buf on the reader's stack
  number,        \* of the message written last
  pipe,          \* the bytes in it
  buf,           \* the bytes read so far by the read in progress
  waiting,       \* the reader is in k_pipe_read; its timer is the timeout
  reset_count,
  got            \* the bytes of the last read that returned

vars == <<example, greedy, behind, timer, number, pipe, buf, waiting,
          reset_count, got>>

PipeSize    == IF example = 1 THEN 64 ELSE 32
MessageSize == IF example = 1 THEN 7 ELSE 33
BufSize     == IF example = 1 THEN 64 ELSE 8
Period      == IF example = 1 THEN 2 ELSE 3
Timeout     == 5    \* of example 2; example 1 waits for ever
ResetAtFifth == 5   \* variant: two more reads between resets
ResetAt     == 3

Init ==
  /\ example \in {1, 2} /\ greedy \in BOOLEAN
  /\ behind \in {"nothing", "reset_count"}
  /\ timer = [writer |-> Period, reader |-> Timeout]
  /\ number = 0 /\ pipe = <<>> /\ buf = <<>> /\ waiting = TRUE
  /\ reset_count = 0 /\ got = <<>>

Least(m, n) == IF m < n THEN m ELSE n

\* What is left of n bytes when a waiting reader has taken its part.
ForReader ==
  IF waiting /\ pipe = <<>> THEN Least(MessageSize, BufSize - Len(buf)) ELSE 0

\* Example 1 waits for room, example 2 drops what does not fit.
Write ==
  LET left == MessageSize - ForReader
      room == PipeSize - Len(pipe)
      Bytes(n) == [i \in 1 .. n |-> number']
  IN
  /\ Awake("writer")
  /\ example = 1 => left <= room
  /\ number' = (number + 1) % Numbers
  /\ buf' = buf \o Bytes(ForReader)
  /\ pipe' = pipe \o Bytes(Least(left, room))
  /\ Sleep("writer", Period)
  /\ UNCHANGED <<example, greedy, behind, waiting, reset_count, got>>

\* A read begins with what is in the pipe.
Read ==
  LET n == Least(BufSize, Len(pipe)) IN
  /\ ~waiting /\ waiting' = TRUE
  /\ buf' = SubSeq(pipe, 1, n) /\ pipe' = SubSeq(pipe, n + 1, Len(pipe))
  /\ timer' = [timer EXCEPT !.reader = Timeout]
  /\ UNCHANGED <<example, greedy, behind, number, reset_count, got>>

TimedOut == example = 2 /\ Awake("reader")
CanReturn ==
  waiting /\ (Len(buf) = BufSize \/ (~greedy /\ buf # <<>>) \/ TimedOut)

\* The read returns.  The 0 written at buf[n] hits what lies behind a buffer
\* that is full.  Example 2 counts its reads, those in vain too.
Return ==
  LET hit == behind = "reset_count" /\ Len(buf) = BufSize
      counted == (IF hit THEN 0 ELSE reset_count) + 1
  IN
  /\ CanReturn
  /\ got' = buf /\ buf' = <<>> /\ waiting' = FALSE
  /\ IF example = 2 /\ counted = ResetAt
       THEN pipe' = <<>> /\ reset_count' = 0
       ELSE /\ reset_count' = IF example = 2 THEN counted ELSE 0
            /\ UNCHANGED pipe
  /\ UNCHANGED <<example, greedy, behind, timer, number>>

Tick ==
  /\ ~Awake("writer") /\ waiting /\ ~CanReturn
  /\ Pass
  /\ UNCHANGED <<example, greedy, behind, number, pipe, buf, waiting,
                 reset_count, got>>

Next == Write \/ Read \/ Return \/ Tick

Spec == Init /\ [][Next]_vars

-----------------------------------------------------------------------------
(* Properties. *)

TypeOK ==
  /\ example \in {1, 2} /\ greedy \in BOOLEAN
  /\ behind \in {"nothing", "reset_count"}
  /\ timer \in [{"writer", "reader"} -> 0 .. Timeout + Slack]
  /\ number \in 0 .. Numbers - 1 /\ waiting \in BOOLEAN
  /\ \A s \in {pipe, buf, got} : s \in Seq(0 .. Numbers - 1)
  /\ Len(pipe) <= PipeSize /\ Len(buf) <= BufSize /\ Len(got) <= BufSize
  /\ reset_count \in Nat

\* No read returns bytes of two messages, although the pipe knows no messages
\* and 33 bytes are no multiple of 8: what is left of a command is thrown away
\* before the next one comes.  That needs a reset_count that is not hit by the
\* 0 behind the full buffer, or, for example 1, a read that returns early.
ReadsAligned ==
  (IF example = 1 THEN ~greedy ELSE behind = "nothing")
    => \A i \in DOMAIN got : got[i] = got[1]
=============================================================================
