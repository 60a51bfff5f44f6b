---------------------------- MODULE FrameChannel ----------------------------
(***************************************************************************)
(* What the host may expect of the device's receive path: frames are       *)
(* delivered to the handlers in the order they were sent, none is left out *)
(* and none is delivered for ever.  A channel with garbage on the line may *)
(* deliver a frame again, but never once a later one has been delivered.   *)
(***************************************************************************)
EXTENDS Integers, Sequences, SequencesExt

CONSTANT NFrames   \* frames the host can send

VARIABLES
  noisy,      \* whether there is garbage on the line
  accepted,   \* how many frames have been sent
  delivered   \* the numbers of the frames delivered, in order

vars == <<noisy, accepted, delivered>>

Newest == IF delivered = <<>> THEN 0 ELSE Last(delivered)

Init == noisy \in BOOLEAN /\ accepted = 0 /\ delivered = <<>>

Accept ==
  /\ accepted < NFrames /\ accepted' = accepted + 1
  /\ UNCHANGED <<noisy, delivered>>

Deliver ==
  /\ Newest < accepted
  /\ delivered' = Append(delivered, Newest + 1)
  /\ UNCHANGED <<noisy, accepted>>

Redeliver ==
  /\ noisy /\ delivered # <<>>
  /\ delivered' = Append(delivered, Newest)
  /\ UNCHANGED <<noisy, accepted>>

Next == Accept \/ Deliver \/ Redeliver

Spec == Init /\ [][Next]_vars /\ WF_vars(Deliver)
=============================================================================
