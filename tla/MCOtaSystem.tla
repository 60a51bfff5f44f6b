---------------------------- MODULE MCOtaSystem ----------------------------
(* OtaSystem for TLC: two firmware files of two bytes, sent one by one.    *)
EXTENDS OtaSystem, TLC

CONSTANTS
  a, b, ff,   \* two bytes of firmware, and an erased cell
  e1, e2      \* threads

MCByte   == {a, b, ff}
MCImages == {<<a, b>>, <<b, a>>}
MCImage  == {<<a, b>>}
MCLarge  == {<<a, b>>, <<a, a, b>>}   \* one is larger than the flash
MCCrcs   == MCImages \cup MCLarge
Threads  == Permutations(Engines)
=============================================================================
