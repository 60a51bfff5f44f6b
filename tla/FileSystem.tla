----------------------------- MODULE FileSystem -----------------------------
(***************************************************************************)
(* Zephyr's file systems as the storage programs use them: one file open   *)
(* at a time, any call may fail.  A file is a sequence of cells; what its  *)
(* cells stand for is up to the program.                                   *)
(***************************************************************************)
EXTENDS Integers, Sequences, SequencesExt

CONSTANTS
  Atomic,   \* LittleFS: files change when they are closed, and cells keep what
            \* was written.  FAT: anything else may happen.
  MaxRoom,  \* bound: cells a file may have at most
  Bad       \* a cell the medium has not kept

VARIABLES
  disk,   \* path |-> content, for the files there are
  file,   \* the open file: <<>> or <<[path, data, pos]>>
  room    \* how long a file can get before the medium is full

fsVars == <<disk, file, room>>

FsInit == disk = <<>> /\ file = <<>> /\ room \in 0 .. MaxRoom

Content(p) == IF p \in DOMAIN disk THEN disk[p] ELSE <<>>

\* fs_open.  A path that does not exist is created.
Open(p, truncate, append) ==
  LET old == IF truncate THEN <<>> ELSE Content(p) IN
  /\ file' = <<[path |-> p, data |-> old,
                pos |-> IF append THEN Len(old) ELSE 0]>>
  /\ disk' = [q \in DOMAIN disk \cup {p} |-> Content(q)]
  /\ UNCHANGED room

Overwritten(s, pos, d) ==
  SubSeq(s, 1, pos) \o d \o SubSeq(s, pos + Len(d) + 1, Len(s))

\* fs_write: as much as fits, behind the end or over what is there.
Write(d) ==
  LET f   == file[1]
      end == IF room > Len(f.data) THEN room ELSE Len(f.data)
      n   == IF f.pos + Len(d) <= end THEN Len(d) ELSE end - f.pos
  IN
  /\ \E bad \in IF Atomic THEN {0} ELSE 0 .. n :
       file' = <<[path |-> f.path, pos |-> f.pos + n,
                  data |-> Overwritten(f.data, f.pos,
                             [i \in 1 .. n |-> IF i = bad THEN Bad ELSE d[i]])]>>
  /\ UNCHANGED <<disk, room>>

\* fs_read: the next n cells, fewer at the end of the file.
NextCells(n) == LET f == file[1] IN
  SubSeq(f.data, f.pos + 1, IF f.pos + n < Len(f.data) THEN f.pos + n ELSE Len(f.data))

Read(n) ==
  /\ file' = <<[file[1] EXCEPT !.pos = @ + Len(NextCells(n))]>>
  /\ UNCHANGED <<disk, room>>

Stored == [disk EXCEPT ![file[1].path] = file[1].data]

\* fs_close gives the file up in any case; when it fails, what has been written
\* may not have been stored.
Close      == disk' = Stored /\ file' = <<>> /\ UNCHANGED room
CloseFails == disk' \in {disk, Stored} /\ file' = <<>> /\ UNCHANGED room

Unlink(p) ==
  /\ disk' = [q \in DOMAIN disk \ {p} |-> disk[q]]
  /\ UNCHANGED <<file, room>>

PowerLoss ==
  /\ disk' \in IF Atomic \/ file = <<>> THEN {disk} ELSE {disk, Stored}
  /\ file' = <<>> /\ UNCHANGED room
=============================================================================
