------------------------------ MODULE MCDemos ------------------------------
(* Values for TLC.  At24 chips with a page for half of what is sent and with *)
(* one for all; sleeps that end up to 100 ms .. 1 s late, see the modules.   *)
EXTENDS Demos

MCSlack == [p \in Sleepers |->
              CASE p = "alloc" -> 3 [] p = "signal" -> 2 [] OTHER -> 1]

MCPageSizes == {2, 4}
=============================================================================
