----------------------------- MODULE TcpConsole -----------------------------
(***************************************************************************)
(* app70_ethernet: a server that serves one connection after another.  One *)
(* loop waits up to 200 ms for a key of the console and then looks for     *)
(* data of the peer.  The line being typed and the data received share one *)
(* buffer.                                                                 *)
(***************************************************************************)
EXTENDS Integers, Sequences

CONSTANTS
  BUF_SIZE,
  Keys,       \* characters that can be typed
  MaxQueued   \* bound: bytes of the peer that wait in the socket

VARIABLES
  pc,         \* where main and handle_client have got to
  sockets,    \* descriptors open
  peer,       \* the connection: "none", "open" or "closed" by the peer
  queued,     \* bytes of the peer that wait to be received
  buf, idx,   \* of handle_client
  typed,      \* the characters of the line being typed, were buf its own
  dirty,      \* received bytes have come while it is typed
  out         \* the line being sent, then what has been sent of it

vars == <<pc, sockets, peer, queued, buf, idx, typed, dirty, out>>

Cells    == 1 .. BUF_SIZE
Newline  == "newline"
Received == "received"   \* any byte of the peer, and the 0 behind them

Init ==
  /\ pc = "socket" /\ sockets = {} /\ peer = "none" /\ queued = 0
  /\ buf = [c \in Cells |-> Received] /\ idx = 0
  /\ typed = <<>> /\ dirty = FALSE /\ out = <<>>

-----------------------------------------------------------------------------
(* start_server: each step may fail; main then returns. *)

Socket ==
  /\ pc = "socket"
  /\ \/ sockets' = {"serv"} /\ pc' = "bind"
     \/ pc' = "ended" /\ UNCHANGED sockets
  /\ UNCHANGED <<peer, queued, buf, idx, typed, dirty, out>>

BindAndListen ==
  /\ pc \in {"bind", "listen"}
  /\ \/ pc' = (IF pc = "bind" THEN "listen" ELSE "accept") /\ UNCHANGED sockets
     \/ sockets' = {} /\ pc' = "ended"
  /\ UNCHANGED <<peer, queued, buf, idx, typed, dirty, out>>

\* A failed accept is tried again.
Accept ==
  /\ pc = "accept" /\ peer # "none"
  /\ sockets' = sockets \cup {"client"} /\ pc' = "getchar" /\ idx' = 0
  /\ typed' = <<>> /\ dirty' = FALSE
  /\ UNCHANGED <<peer, queued, buf, out>>

-----------------------------------------------------------------------------
(* handle_client. *)

NoTimeout ==   \* variant: it waits for a key for ever
  /\ FALSE
  /\ UNCHANGED vars

\* console_set_rx_timeout: console_getchar returns without a key, too.  Enter
\* and backspace do nothing in an empty line.
NoKey ==
  /\ pc = "getchar" /\ pc' = "recv"
  /\ UNCHANGED <<sockets, peer, queued, buf, idx, typed, dirty, out>>

KeyCharacter(k) ==
  /\ pc = "getchar" /\ pc' = "recv"
  /\ IF idx < BUF_SIZE - 1
       THEN /\ buf' = [buf EXCEPT ![idx + 1] = k] /\ idx' = idx + 1
            /\ typed' = Append(typed, k)
       ELSE UNCHANGED <<buf, idx, typed>>
  /\ UNCHANGED <<sockets, peer, queued, dirty, out>>

KeyBackspace ==
  /\ pc = "getchar" /\ pc' = "recv"
  /\ idx > 0 /\ idx' = idx - 1
  /\ typed' = SubSeq(typed, 1, Len(typed) - 1)
  /\ UNCHANGED <<sockets, peer, queued, buf, dirty, out>>

KeyEnter ==
  /\ pc = "getchar" /\ idx > 0 /\ pc' = "send"
  /\ buf' = [buf EXCEPT ![idx + 1] = Newline]
  /\ out' = [c \in 1 .. idx + 1 |-> buf'[c]]
  /\ UNCHANGED <<sockets, peer, queued, idx, typed, dirty>>

\* send waits while the peer does not read, but not for a peer that is gone.  It
\* may fail or send a part of the line: its result is not looked at.
Send ==
  /\ pc = "send" /\ pc' = "recv" /\ idx' = 0
  /\ typed' = <<>> /\ dirty' = FALSE
  /\ \E n \in 0 .. Len(out) : out' = SubSeq(out, 1, n)
  /\ UNCHANGED <<sockets, peer, queued, buf>>

\* recv takes what has come, over the line that is being typed.
Recv ==
  /\ pc = "recv" /\ queued > 0
  /\ LET n == IF queued < BUF_SIZE - 1 THEN queued ELSE BUF_SIZE - 1 IN
       /\ buf' = [c \in Cells |-> IF c <= n + 1 THEN Received ELSE buf[c]]
       /\ queued' = queued - n
  /\ dirty' = (dirty \/ idx > 0)
  /\ pc' = "getchar"
  /\ UNCHANGED <<sockets, peer, idx, typed, out>>

RecvNothing ==
  /\ pc = "recv" /\ queued = 0 /\ peer = "open" /\ pc' = "getchar"
  /\ UNCHANGED <<sockets, peer, queued, buf, idx, typed, dirty, out>>

\* The peer has closed the connection, or the connection has failed.
HangUp ==
  /\ pc = "recv" /\ queued = 0 /\ peer = "closed"
  /\ sockets' = sockets \ {"client"} /\ peer' = "none" /\ pc' = "accept"
  /\ UNCHANGED <<queued, buf, idx, typed, dirty, out>>

-----------------------------------------------------------------------------
(* The peer.  A second one waits in the backlog. *)

PeerConnects ==
  /\ peer = "none" /\ pc \notin {"socket", "bind", "listen", "ended"}
  /\ peer' = "open"
  /\ UNCHANGED <<pc, sockets, queued, buf, idx, typed, dirty, out>>

PeerSends ==
  /\ peer = "open" /\ queued < MaxQueued /\ queued' = queued + 1
  /\ UNCHANGED <<pc, sockets, peer, buf, idx, typed, dirty, out>>

\* A connection that breaks loses what has been sent on it.
PeerCloses ==
  /\ peer = "open" /\ peer' = "closed" /\ queued' \in {0, queued}
  /\ UNCHANGED <<pc, sockets, buf, idx, typed, dirty, out>>

Keyboard == KeyBackspace \/ KeyEnter \/ (\E k \in Keys : KeyCharacter(k))
Server ==
  \/ Socket \/ BindAndListen \/ Accept \/ NoKey \/ Keyboard
  \/ Recv \/ RecvNothing \/ HangUp
Peer == PeerConnects \/ PeerSends \/ PeerCloses

\* main has returned.
Ended == pc = "ended"

Next == Server \/ Send \/ Peer

Spec == Init /\ [][Next]_vars

\* The server's thread runs; a timeout ends console_getchar, so a key is never
\* needed; send returns once the peer is gone.
Fairness ==
  /\ WF_vars(NoKey) /\ WF_vars(Accept) /\ WF_vars(Recv \/ RecvNothing \/ HangUp)
  /\ WF_vars(peer = "closed" /\ Send)

FairSpec == Spec /\ Fairness

-----------------------------------------------------------------------------
(* Properties. *)

TypeOK ==
  /\ pc \in {"socket", "bind", "listen", "accept", "getchar", "send", "recv",
             "ended"}
  /\ sockets \subseteq {"serv", "client"}
  /\ peer \in {"none", "open", "closed"} /\ queued \in 0 .. MaxQueued
  /\ buf \in [Cells -> Keys \cup {Newline, Received}] /\ idx \in 0 .. BUF_SIZE - 1
  /\ dirty \in BOOLEAN /\ typed \in Seq(Keys)
  /\ out \in Seq(Keys \cup {Newline, Received})

\* What send is given is the line as it was typed, unless data came in meanwhile.
LineAsTyped == (pc = "send" /\ ~dirty) => out = typed \o <<Newline>>

\* Once the peer has hung up the connection is closed, whether or not anyone
\* types, so that the next one is accepted.
HangUpNoticed == (peer = "closed") ~> (peer = "none")

\* No descriptor outlives main or its connection.
AllClosed ==
  /\ pc = "ended" => sockets = {}
  /\ pc = "accept" => sockets = {"serv"}
=============================================================================
