------------------------------- MODULE SdCard -------------------------------
(***************************************************************************)
(* app20_sdcard: writes a text with a time stamp, reads it back, compares  *)
(* the two, then writes a file in a directory.  main returns at the first  *)
(* error; the program runs again after a reset, on what it has left.       *)
(* Statistics and directory listings, which only print, are left out.      *)
(***************************************************************************)
EXTENDS FileSystem

VARIABLES
  step,      \* the call main has got to
  phase,     \* where the function it calls is: "open", "io" or "close"
  run,       \* the number of this run, modulo 2: its time stamp
  read_buf,
  verdict    \* what has been printed: "", "passed", "completed" or "error"

demoVars == <<step, phase, run, read_buf, verdict>>
vars == <<fsVars, demoVars>>

TestFile   == "test.txt"
NestedFile == "nested_file.txt"

\* The time stamps of the runs are not equally long.
FullWriteData == IF run = 0 THEN <<"text", "0">> ELSE <<"text", "1", "1">>

Program ==
  <<"init", "mount", "write", "read", "verify", "mkdir", "write nested">>

Path == IF Program[step] = "write nested" THEN NestedFile ELSE TestFile
Data == IF Program[step] = "write nested" THEN <<"nested">> ELSE FullWriteData

Calling(name) == step <= Len(Program) /\ Program[step] = name
Writing == Calling("write") \/ Calling("write nested")
Ended   == step = Len(Program) + 1

Init ==
  /\ FsInit
  /\ step = 1 /\ phase = "open" /\ run = 0 /\ read_buf = <<>> /\ verdict = ""

NextStep == step' = step + 1 /\ phase' = "open"
GiveUp   == step' = Len(Program) + 1 /\ phase' = "open" /\ verdict' = "error"

\* test_file_write opens without FS_O_TRUNC: a longer old text keeps its end.
OpenFile ==
  /\ phase = "open" /\ (Writing \/ Calling("read"))
  /\ \/ Open(Path, FALSE, FALSE) /\ phase' = "io" /\ UNCHANGED <<step, verdict>>
     \/ GiveUp /\ UNCHANGED fsVars
  /\ UNCHANGED <<run, read_buf>>

\* A short write counts as success; after an error the file is closed.
WriteFile ==
  /\ phase = "io" /\ Writing
  /\ \/ Write(Data) /\ phase' = "close"
     \/ phase' = "error" /\ UNCHANGED fsVars
  /\ UNCHANGED <<step, run, read_buf, verdict>>

ReadFile ==
  /\ phase = "io" /\ Calling("read")
  /\ \/ Read(MaxRoom) /\ read_buf' = NextCells(MaxRoom) /\ phase' = "close"
     \/ phase' = "error" /\ UNCHANGED <<fsVars, read_buf>>
  /\ UNCHANGED <<step, run, verdict>>

CloseFile ==
  /\ phase = "close"
  /\ \/ Close /\ NextStep
        /\ verdict' = IF Calling("write nested") THEN "completed" ELSE verdict
     \/ CloseFails /\ GiveUp
  /\ UNCHANGED <<run, read_buf>>

CloseAfterError ==
  /\ phase = "error" /\ (Close \/ CloseFails) /\ GiveUp
  /\ UNCHANGED <<run, read_buf>>

\* memcmp over the length of what was written; read_buf is zeroed before.
VerifyRead ==   \* variant: over the length of what was read
  /\ Calling("verify")
  /\ IF IsPrefix(read_buf, FullWriteData)
       THEN NextStep /\ verdict' = "passed" ELSE GiveUp
  /\ UNCHANGED <<fsVars, run, read_buf>>

Verify ==
  /\ Calling("verify")
  /\ IF IsPrefix(FullWriteData, read_buf)
       THEN NextStep /\ verdict' = "passed" ELSE GiveUp
  /\ UNCHANGED <<fsVars, run, read_buf>>

\* The driver, the mount and the directory; one that exists is as good as new.
SetUp ==
  /\ Calling("init") \/ Calling("mount") \/ Calling("mkdir")
  /\ (NextStep /\ UNCHANGED verdict) \/ GiveUp
  /\ UNCHANGED <<fsVars, run, read_buf>>

\* The board is reset, after the program has returned or in its middle.
Reset ==
  /\ PowerLoss
  /\ step' = 1 /\ phase' = "open" /\ run' = 1 - run
  /\ read_buf' = <<>> /\ verdict' = ""

Next ==
  \/ OpenFile \/ WriteFile \/ ReadFile \/ CloseFile \/ CloseAfterError
  \/ Verify \/ SetUp \/ Reset

Spec == Init /\ [][Next]_vars

-----------------------------------------------------------------------------
(* Properties. *)

TypeOK ==
  /\ DOMAIN disk \subseteq {TestFile, NestedFile}
  /\ step \in 1 .. Len(Program) + 1
  /\ phase \in {"open", "io", "close", "error"} /\ run \in {0, 1}
  /\ Len(read_buf) <= MaxRoom
  /\ verdict \in {"", "passed", "completed", "error"}

\* After "PASSED" test.txt begins with the text of this run: a full card, an old
\* text or a bad cell does not pass.  A longer old text keeps its end behind it; the
\* file in the directory is never read back, and may be short or wrong after
\* "Completed Successfully".
PassedIsStored ==
  verdict \in {"passed", "completed"} => IsPrefix(FullWriteData, Content(TestFile))

\* Wherever main returns, no file is left open.
AllClosed == (Ended \/ phase = "open") => file = <<>>
=============================================================================
