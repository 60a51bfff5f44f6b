------------------------------ MODULE SdSpeed ------------------------------
(***************************************************************************)
(* app21_sdcard_speed: writes a file in chunks whose bytes depend on the   *)
(* chunk's number, reads it back and checks them, then deletes it.  Every  *)
(* path has to free the buffer and to close the file.                      *)
(***************************************************************************)
EXTENDS FileSystem

CONSTANTS
  ChunkSize,   \* CHUNK_SIZE, 32768 in the program
  ChunkCount   \* CHUNK_COUNT, 64 in the program

VARIABLES
  pc,
  chunk,       \* i of the two loops
  heap,        \* blocks allocated
  verify_ok,
  verdict      \* what test_read_speed has printed: "", "PASSED" or "FAILED"

demoVars == <<pc, chunk, heap, verify_ok, verdict>>
vars == <<fsVars, demoVars>>

TestFile == "speed_test.bin"

\* fill_test_buffer.  The sums are taken modulo 256 in the program.
Filled(seed) == [i \in 1 .. ChunkSize |-> i - 1 + seed]

Init ==
  /\ FsInit
  /\ pc = "set up" /\ chunk = 0 /\ heap = 0
  /\ verify_ok = TRUE /\ verdict = ""

Goto(label) == pc' = label

\* disk_access_init and fs_mount.
SetUp ==
  /\ pc = "set up" /\ (Goto("write malloc") \/ Goto("ended"))
  /\ UNCHANGED <<fsVars, chunk, heap, verify_ok, verdict>>

\* k_malloc at the beginning of either test.
Malloc(pass, then) ==
  /\ pc = pass
  /\ \/ heap' = heap + 1 /\ Goto(then)
     \/ Goto("ended") /\ UNCHANGED heap
  /\ chunk' = 0
  /\ UNCHANGED <<fsVars, verify_ok, verdict>>

OpenToWrite ==
  /\ pc = "write open"
  /\ \/ Open(TestFile, FALSE, FALSE) /\ Goto("write") /\ UNCHANGED heap
     \/ Goto("ended") /\ heap' = heap - 1 /\ UNCHANGED fsVars
  /\ UNCHANGED <<chunk, verify_ok, verdict>>

\* A short write is added up like any other.
WriteChunk ==
  /\ pc = "write" /\ chunk < ChunkCount
  /\ \/ /\ Write(Filled(chunk)) /\ chunk' = chunk + 1
        /\ UNCHANGED <<pc, heap>>
     \/ /\ Close \/ CloseFails
        /\ heap' = heap - 1 /\ Goto("ended") /\ UNCHANGED chunk
  /\ UNCHANGED <<verify_ok, verdict>>

\* fs_sync and fs_close: whether they fail is not looked at.
WriteDone ==
  /\ pc = "write" /\ chunk = ChunkCount
  /\ Close \/ CloseFails
  /\ heap' = heap - 1 /\ Goto("read malloc")
  /\ UNCHANGED <<chunk, verify_ok, verdict>>

OpenToRead ==
  /\ pc = "read open"
  /\ \/ /\ TestFile \in DOMAIN disk
        /\ Open(TestFile, FALSE, FALSE) /\ Goto("read") /\ UNCHANGED heap
     \/ Goto("ended") /\ heap' = heap - 1 /\ UNCHANGED fsVars
  /\ UNCHANGED <<chunk, verify_ok, verdict>>

\* verify_buffer looks at as many bytes as have been read.
ReadChunk ==
  /\ pc = "read" /\ chunk < ChunkCount
  /\ \/ /\ Read(ChunkSize) /\ chunk' = chunk + 1
        /\ verify_ok' = (verify_ok /\ IsPrefix(NextCells(ChunkSize), Filled(chunk)))
     \/ chunk' = ChunkCount /\ verify_ok' = FALSE /\ UNCHANGED fsVars
  /\ UNCHANGED <<pc, heap, verdict>>

ReadDone ==
  /\ pc = "read" /\ chunk = ChunkCount
  /\ Close \/ CloseFails
  /\ heap' = heap - 1
  /\ verdict' = IF verify_ok THEN "PASSED" ELSE "FAILED"
  /\ Goto(IF verify_ok THEN "unlink" ELSE "ended")
  /\ UNCHANGED <<chunk, verify_ok>>

Cleanup ==
  /\ pc = "unlink" /\ Goto("ended")
  /\ Unlink(TestFile) \/ UNCHANGED fsVars
  /\ UNCHANGED <<chunk, heap, verify_ok, verdict>>

\* The board is reset after main has returned; the file may have been left.
Restart ==
  /\ pc = "ended"
  /\ Goto("set up") /\ chunk' = 0 /\ heap' = 0
  /\ verify_ok' = TRUE /\ verdict' = ""
  /\ UNCHANGED fsVars

Next ==
  \/ SetUp
  \/ Malloc("write malloc", "write open") \/ OpenToWrite \/ WriteChunk \/ WriteDone
  \/ Malloc("read malloc", "read open") \/ OpenToRead \/ ReadChunk \/ ReadDone
  \/ Cleanup \/ Restart

Spec == Init /\ [][Next]_vars

-----------------------------------------------------------------------------
(* Properties. *)

Labels == {"set up", "write malloc", "write open", "write", "read malloc", "read open",
           "read", "unlink", "ended"}

TypeOK ==
  /\ DOMAIN disk \subseteq {TestFile}
  /\ pc \in Labels /\ chunk \in 0 .. ChunkCount /\ heap \in {0, 1}
  /\ verify_ok \in BOOLEAN /\ verdict \in {"", "PASSED", "FAILED"}

\* After "Data integrity: PASSED" no byte of the file that is there is wrong, chunk
\* by chunk: a cell the card has lost does not pass.  Nothing says that the file is
\* all there, or this run's.  Short writes are added up, fs_sync and fs_close may
\* fail unseen, and verify_buffer looks at as many bytes as were read: the file may
\* be short or empty, or what an earlier run has left.
PassedIsRight ==
  (verdict = "PASSED" /\ pc = "unlink") =>
    \A i \in DOMAIN Content(TestFile) :
      Content(TestFile)[i] =
        Filled((i - 1) \div ChunkSize)[((i - 1) % ChunkSize) + 1]

\* Whenever a test is over its buffer is free and its file closed.
AllReleased ==
  pc \in {"set up", "write malloc", "read malloc", "unlink", "ended"}
    => heap = 0 /\ file = <<>>
=============================================================================
