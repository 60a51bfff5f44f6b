---------------------------- MODULE StagedImage ----------------------------
(***************************************************************************)
(* What the upgrade protocol promises about the staging slot, without      *)
(* flash, sizes, CRCs or responses: an image that is begun empty, grows at *)
(* its end only, and once sealed does not change until it is dropped or a  *)
(* new one is begun.                                                       *)
(***************************************************************************)
EXTENDS Sequences

CONSTANTS Chunks   \* the sequences of bytes an image can grow by

VARIABLES phase,   \* "none", "growing", "sealed" or "broken"
          image    \* the bytes of the image so far

vars == <<phase, image>>

Init == phase = "none" /\ image = <<>>

Begin ==
  /\ phase \in {"none", "sealed"}
  /\ phase' = "growing" /\ image' = <<>>

Grow(chunk) ==
  /\ phase = "growing"
  /\ image' = image \o chunk
  /\ UNCHANGED phase

\* A broken image can still be sealed with what it has.
Seal ==
  /\ phase \in {"growing", "broken"}
  /\ phase' = "sealed" /\ UNCHANGED image

Break ==
  /\ phase \in {"growing", "sealed"}
  /\ phase' = "broken" /\ UNCHANGED image

Drop ==
  /\ phase' = "none" /\ image' = <<>>

Next == Begin \/ (\E chunk \in Chunks : Grow(chunk)) \/ Seal \/ Break \/ Drop

Spec == Init /\ [][Next]_vars
=============================================================================
