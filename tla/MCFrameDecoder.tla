--------------------------- MODULE MCFrameDecoder ---------------------------
(* FrameDecoder for TLC: 1 2 is the mark, 3 the tail; every stream of five  *)
(* bytes of three values, alone, or in front of two good frames.            *)
EXTENDS FrameDecoder

Garbage == [1 .. 5 -> 0 .. 3]
Good    == <<1, 2, 0, 3, 1, 2, 1, 1, 3>>

MCStreams == {g \o Good : g \in Garbage}
=============================================================================
