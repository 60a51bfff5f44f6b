------------------------------ MODULE MCOtaRx ------------------------------
(* OtaRx for TLC: four frames; the data of the third contains the header   *)
(* mark, 7.  With RxSize = 12 the fourth wraps around at a frame boundary, *)
(* with RxSize = 10 the third is cut by the end of rx_buf.                 *)
EXTENDS OtaRx

MCFrames == << <<7, 0, 6>>, <<7, 1, 2, 6>>, <<7, 2, 7, 1, 6>>, <<7, 1, 3, 6>> >>

\* Three frames back to back, reported in any pieces; four frames one by one, each
\* reported at once, with the interrupt anywhere; a host that waits for every answer; and two
\* frames behind up to three bytes of garbage.
Pieces == [frames |-> 3, window |-> 3, whole |-> FALSE, preempt |-> FALSE,
           noise |-> 0]
Racing == [frames |-> 4, window |-> 1, whole |-> TRUE, preempt |-> TRUE,
           noise |-> 0]
Polite == [frames |-> 3, window |-> 1, whole |-> FALSE, preempt |-> FALSE,
           noise |-> 0]
Noisy(n) == [frames |-> 2, window |-> 1, whole |-> FALSE, preempt |-> FALSE,
             noise |-> n]

MCModes  == {Pieces, Racing, Polite} \cup {Noisy(n) : n \in 1 .. 3}
MCPolite == {[Polite EXCEPT !.whole = TRUE]}
=============================================================================
