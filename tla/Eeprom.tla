------------------------------- MODULE Eeprom -------------------------------
(***************************************************************************)
(* app10_eeprom: one transfer of 16 bytes to an AT24C02, read back and     *)
(* compared.  The chip takes what it gets into the page of the address it  *)
(* was sent: behind the end of the page it goes on at its beginning.       *)
(***************************************************************************)
EXTENDS Integers, Sequences

CONSTANTS
  TestDataSize,   \* TEST_DATA_SIZE
  PageSizes       \* pages a chip may have: 8 bytes by the device tree, or more

VARIABLES
  page,        \* the page size of the chip
  memory,      \* its cells, -1 before they have been written
  busy,        \* it writes: it answers to nothing
  step,
  read_data,
  result       \* what has been printed: "", "SUCCESS", "FAILED" or "error"

vars == <<page, memory, busy, step, read_data, result>>

Addresses == 0 .. TestDataSize - 1

WriteData == [a \in Addresses |-> a]

Init ==
  /\ page \in PageSizes
  /\ memory = [a \in Addresses |-> -1] /\ busy = FALSE
  /\ step = "write" /\ read_data = [a \in Addresses |-> 0] /\ result = ""

Error == step' = "ended" /\ result' = "error"

\* The byte sent last to an address of the first page stays there.
SendAll ==
  memory' = [a \in Addresses |->
               LET sent == {i \in Addresses : i % page = a} IN
               IF sent = {} THEN memory[a]
               ELSE WriteData[CHOOSE i \in sent : \A j \in sent : j <= i]]

Write ==
  /\ step = "write"
  /\ \/ ~busy /\ SendAll /\ busy' = TRUE /\ step' = "sleep" /\ UNCHANGED result
     \/ Error /\ UNCHANGED <<memory, busy>>
  /\ UNCHANGED <<page, read_data>>

\* 10 ms are longer than a write cycle.
Sleep ==
  /\ step = "sleep" /\ busy' = FALSE /\ step' = "read"
  /\ UNCHANGED <<page, memory, read_data, result>>

Read ==
  /\ step = "read"
  /\ \/ ~busy /\ read_data' = memory /\ step' = "verify" /\ UNCHANGED result
     \/ Error /\ UNCHANGED read_data
  /\ UNCHANGED <<page, memory, busy>>

Verify ==
  /\ step = "verify"
  /\ IF read_data = WriteData
       THEN result' = "SUCCESS" /\ step' = "single"
       ELSE result' = "FAILED" /\ step' = "ended"
  /\ UNCHANGED <<page, memory, busy, read_data>>

\* The byte at 5 is read once more; main says completed whatever it finds.
ReadSingle ==
  /\ step = "single" /\ step' = "ended"
  /\ UNCHANGED <<page, memory, busy, read_data, result>>

Restart ==
  /\ step = "ended" /\ step' = "write" /\ result' = ""
  /\ read_data' = [a \in Addresses |-> 0] /\ busy' = FALSE
  /\ UNCHANGED <<page, memory>>

Next == Write \/ Sleep \/ Read \/ Verify \/ ReadSingle \/ Restart

Spec == Init /\ [][Next]_vars

-----------------------------------------------------------------------------
(* Properties. *)

TypeOK ==
  /\ page \in PageSizes /\ busy \in BOOLEAN
  /\ memory \in [Addresses -> {-1} \cup Addresses]
  /\ read_data \in [Addresses -> {-1} \cup Addresses]
  /\ step \in {"write", "sleep", "read", "verify", "single", "ended"}
  /\ result \in {"", "SUCCESS", "FAILED", "error"}

\* The verdict is about the chip's page: the test succeeds where one page holds
\* all that is sent, and fails, with the data wrapped around, where it does not.
ResultTellsPage ==
  /\ result = "SUCCESS" => page >= TestDataSize /\ memory = WriteData
  /\ result = "FAILED"  => page < TestDataSize
=============================================================================
