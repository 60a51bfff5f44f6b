------------------------------ MODULE FlashFs ------------------------------
(***************************************************************************)
(* app81_flash_fs: writes a file in LittleFS, appends to it, writes a      *)
(* second one.  An error in between leads to the label out, where main     *)
(* unmounts; power may fail anywhere, and the program then runs again on   *)
(* what is there.                                                          *)
(***************************************************************************)
EXTENDS FileSystem

VARIABLES
  step,      \* the call main has got to
  phase,     \* where the function it calls is: "open", "io", "close" or "error"
  mounted,   \* "no", "yes", or "stuck": fs_unmount has failed
  failed     \* main has taken a goto out

demoVars == <<step, phase, mounted, failed>>
vars == <<fsVars, demoVars>>

Hello == "hello.txt"
Bin   == "data.bin"

Program ==
  <<[call |-> "write",  path |-> Hello, data |-> <<"hello">>],
    [call |-> "read",   path |-> Hello, data |-> <<>>],
    [call |-> "append", path |-> Hello, data |-> <<"works">>],
    [call |-> "read",   path |-> Hello, data |-> <<>>],
    [call |-> "write",  path |-> Bin,   data |-> <<"bin">>]>>

Out      == Len(Program) + 1   \* the label out
Returned == Len(Program) + 2   \* main has returned

Call  == Program[step]
InRun == mounted = "yes" /\ step <= Len(Program)

Init ==
  /\ FsInit
  /\ step = 1 /\ phase = "open" /\ mounted = "no" /\ failed = FALSE

\* Where it fails main returns at once.
Mount ==
  /\ mounted = "no" /\ step = 1
  /\ \/ mounted' = "yes" /\ UNCHANGED <<step, failed>>
     \/ step' = Returned /\ failed' = TRUE /\ UNCHANGED mounted
  /\ UNCHANGED <<fsVars, phase>>

ErrorReturns ==   \* variant: return rc instead of goto out
  step' = Returned /\ phase' = "open" /\ failed' = TRUE

GotoOut == step' = Out /\ phase' = "open" /\ failed' = TRUE

\* FS_O_TRUNC to write, FS_O_APPEND to append.  Only write_file creates.
OpenFile ==
  /\ InRun /\ phase = "open"
  /\ \/ /\ Call.call = "write" \/ Call.path \in DOMAIN disk
        /\ Open(Call.path, Call.call = "write", Call.call = "append")
        /\ phase' = "io" /\ UNCHANGED <<step, failed>>
     \/ GotoOut /\ UNCHANGED fsVars
  /\ UNCHANGED mounted

\* On a full flash LittleFS fails, it does not write less.
Access ==
  /\ InRun /\ phase = "io"
  /\ \/ /\ IF Call.call = "read" THEN Read(MaxRoom)
           ELSE file[1].pos + Len(Call.data) <= room /\ Write(Call.data)
        /\ phase' = "close"
     \/ phase' = "error" /\ UNCHANGED fsVars
  /\ UNCHANGED <<step, mounted, failed>>

CloseFile ==
  /\ InRun /\ phase \in {"close", "error"}
  /\ \/ /\ Close
        /\ IF phase = "error" THEN GotoOut
           ELSE step' = step + 1 /\ phase' = "open" /\ UNCHANGED failed
     \/ CloseFails /\ GotoOut
  /\ UNCHANGED mounted

\* fs_unmount may fail: the result is printed, and main returns 0.
Unmount ==
  /\ step = Out
  /\ mounted' \in {"no", "stuck"} /\ step' = Returned
  /\ UNCHANGED <<fsVars, phase, failed>>

\* The board is reset, after main has returned or in its middle.
Reset ==
  /\ PowerLoss
  /\ step' = 1 /\ phase' = "open" /\ mounted' = "no" /\ failed' = FALSE

Next == Mount \/ OpenFile \/ Access \/ CloseFile \/ Unmount \/ Reset

Spec == Init /\ [][Next]_vars

-----------------------------------------------------------------------------
(* Properties. *)

TypeOK ==
  /\ DOMAIN disk \subseteq {Hello, Bin}
  /\ step \in 1 .. Returned
  /\ phase \in {"open", "io", "close", "error"}
  /\ mounted \in {"no", "yes", "stuck"} /\ failed \in BOOLEAN

\* A run without an error leaves exactly the two lines and the bytes, however
\* the runs before it ended.
RunLeavesBoth ==
  (step > Len(Program) /\ ~failed) =>
    Content(Hello) = <<"hello", "works">> /\ Content(Bin) = <<"bin">>

\* A file is open only within a call and while the file system is mounted.
\* Whichever way main returns, it has tried to unmount what it had mounted, and
\* with every file closed.
AllReleased ==
  /\ file # <<>> => mounted = "yes" /\ step <= Len(Program) /\ phase # "open"
  /\ step = Returned => mounted # "yes"
=============================================================================
