------------------------------ MODULE UartEcho ------------------------------
(***************************************************************************)
(* app05_uart_dma: received bytes are sent back from the buffers the DMA   *)
(* received them into.  Two buffers alternate; uart_cb starts sending what *)
(* UART_RX_RDY reports, and drops it when the last transmission is not     *)
(* over.  Time passes in byte times: in one, a byte may come in, and a     *)
(* byte goes out if a transmission runs.  A byte is its number in the      *)
(* stream.                                                                 *)
(***************************************************************************)
EXTENDS Integers, Sequences

CONSTANTS
  BUF_SIZE,
  Timeout,    \* RX_TIMEOUT_US in byte times, more than a buffer takes
  MaxBytes    \* bound: bytes received

VARIABLES
  polite,      \* the sender waits for the echo of each burst
  burst,       \* bytes of the current burst still to come
  received,    \* bytes received
  rx_buf,      \* the two buffers
  cur, pos, from,  \* the DMA's buffer, its next place, the first unreported one
  next_buf,    \* the buffer uart_rx_buf_rsp has queued
  rx_buf_idx,
  gap,         \* byte times since the last byte
  tx,          \* the transmission: <<buffer, next place, end>>, or Idle
  echo,        \* the bytes sent back
  dropped      \* bytes not sent back

rxVars == <<received, rx_buf, cur, pos, from, next_buf, rx_buf_idx, gap>>
vars   == <<polite, burst, rxVars, tx, echo, dropped>>

Idle == <<0, 0, 0>>

Init ==
  /\ polite \in BOOLEAN /\ burst = 0 /\ received = 0
  /\ rx_buf = [b \in 0 .. 1 |-> [i \in 1 .. BUF_SIZE |-> 0]]
  /\ cur = 0 /\ pos = 1 /\ from = 1 /\ gap = 0
  /\ next_buf = 1 /\ rx_buf_idx = 0   \* the request at uart_rx_enable
  /\ tx = Idle /\ echo = <<>> /\ dropped = 0

\* The sender decides on a burst of bytes without gaps.
Burst ==
  /\ burst = 0 /\ received < MaxBytes
  /\ polite => Len(echo) + dropped = received
  /\ \E n \in 1 .. BUF_SIZE : received + n <= MaxBytes /\ burst' = n
  /\ UNCHANGED <<polite, rxVars, tx, echo, dropped>>

-----------------------------------------------------------------------------
(* uart_cb. *)

\* UART_RX_RDY for places from .. pos - 1.
NoOffset(b, first, end) ==   \* variant: evt->data.rx.offset is ignored
  IF tx = Idle THEN tx' = <<b, 1, end - first + 1>> /\ UNCHANGED dropped
               ELSE dropped' = dropped + (end - first) /\ UNCHANGED tx

StartTx(b, first, end) ==
  IF tx = Idle THEN tx' = <<b, first, end>> /\ UNCHANGED dropped
               ELSE dropped' = dropped + (end - first) /\ UNCHANGED tx

BufferIsFull == pos > BUF_SIZE
LineIsIdle   == gap >= Timeout /\ from < pos

\* The buffer is full: RX_RDY, then reception goes on in the queued buffer, and
\* UART_RX_BUF_REQUEST queues the one rx_buf_idx names.
Full ==
  /\ BufferIsFull
  /\ StartTx(cur, from, pos)
  /\ cur' = next_buf /\ pos' = 1 /\ from' = 1
  /\ next_buf' = rx_buf_idx /\ rx_buf_idx' = 1 - rx_buf_idx
  /\ UNCHANGED <<polite, burst, received, rx_buf, gap, echo>>

RxIdle ==
  /\ LineIsIdle /\ ~BufferIsFull
  /\ StartTx(cur, from, pos)
  /\ from' = pos
  /\ UNCHANGED <<polite, burst, received, rx_buf, cur, pos, next_buf, rx_buf_idx, gap, echo>>

-----------------------------------------------------------------------------
\* A byte time: the byte that is sent is read before a new one is written.
Transmit ==
  IF tx = Idle THEN UNCHANGED <<tx, echo>>
  ELSE /\ echo' = Append(echo, rx_buf[tx[1]][tx[2]])
       /\ tx' = IF tx[2] + 1 = tx[3] THEN Idle ELSE [tx EXCEPT ![2] = @ + 1]

ByteIn ==
  /\ burst > 0 /\ ~BufferIsFull /\ ~LineIsIdle
  /\ rx_buf' = [rx_buf EXCEPT ![cur][pos] = received + 1]
  /\ received' = received + 1 /\ pos' = pos + 1 /\ gap' = 0
  /\ burst' = burst - 1
  /\ Transmit
  /\ UNCHANGED <<polite, cur, from, next_buf, rx_buf_idx, dropped>>

NoByteIn ==
  /\ burst = 0 /\ ~BufferIsFull /\ ~LineIsIdle
  /\ gap' = IF gap < Timeout THEN gap + 1 ELSE gap
  /\ Transmit
  /\ UNCHANGED <<polite, burst, received, rx_buf, cur, pos, from, next_buf, rx_buf_idx, dropped>>

Next == Burst \/ Full \/ RxIdle \/ ByteIn \/ NoByteIn

Spec == Init /\ [][Next]_vars

-----------------------------------------------------------------------------
(* Properties. *)

TypeOK ==
  /\ polite \in BOOLEAN /\ burst \in 0 .. BUF_SIZE
  /\ received \in 0 .. MaxBytes /\ dropped \in 0 .. MaxBytes
  /\ rx_buf \in [0 .. 1 -> [1 .. BUF_SIZE -> 0 .. MaxBytes]]
  /\ cur \in 0 .. 1 /\ next_buf \in 0 .. 1 /\ rx_buf_idx \in 0 .. 1
  /\ pos \in 1 .. BUF_SIZE + 1 /\ from \in 1 .. BUF_SIZE + 1
  /\ gap \in 0 .. Timeout
  /\ tx \in (0 .. 1) \X (0 .. BUF_SIZE) \X (0 .. BUF_SIZE + 1)
  /\ echo \in Seq(1 .. MaxBytes)

\* However the sender behaves, the echo may have holes but is never garbled: no
\* byte is sent twice, out of order, or after the DMA has written over it.
EchoInOrder == \A i \in 2 .. Len(echo) : echo[i - 1] < echo[i]

\* A sender that waits for each burst to come back gets every byte back, also
\* when its burst lies across the end of a buffer.
PoliteEcho ==
  polite => echo = [i \in 1 .. Len(echo) |-> i] /\ dropped = 0
=============================================================================
