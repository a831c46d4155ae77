------------------------------ MODULE StateFile ------------------------------
(***************************************************************************)
(* One JSON state file and the writers of it (src/src/core/fs_utils.ts).   *)
(* writeJsonAtomic writes <file>.tmp and renames it over <file>; all       *)
(* writers of a file share that one temporary name, and a starting daemon  *)
(* removes whatever *.tmp it finds.  A writer that has the temporary file  *)
(* open keeps writing to it after it was renamed or removed.               *)
(***************************************************************************)
EXTENDS Integers, FiniteSets

CONSTANTS
  Writers,   \* calls of writeJsonAtomic
  Values,    \* contents a caller may write
  Fallback,  \* what a caller of readJson gets of a file that cannot be read
  MaxFaults  \* bound: crashes and failing file system calls

ASSUME FaultsAssumption == MaxFaults \in Nat

VARIABLES
  file, tmp,  \* <file> and <file>.tmp
  pc,         \* pc[w]: next file system call of w
  val,        \* val[w]: what w has to write
  fd,         \* fd[w]: where the file that w has open is by now
  installed,  \* history: the value of the last writer told ok
  overlapped, \* history: a writer began while another was at work
  faults

fileVars == <<file, tmp, pc, val, fd, installed, overlapped, faults>>

Content(s) == [state |-> s, value |-> Fallback]
Whole(v) == [state |-> "whole", value |-> v]
Missing == Content("missing")

Busy == {w \in Writers : pc[w] # "idle"}

FileInit ==
  /\ file = Missing /\ tmp = Missing
  /\ pc = [w \in Writers |-> "idle"]
  /\ val = [w \in Writers |-> Fallback]
  /\ fd = [w \in Writers |-> "none"]
  /\ installed = Fallback /\ overlapped = FALSE /\ faults = 0

\* readJson: a file that is missing or does not parse reads as the fallback.
Read == file.value

Goto(w, l) == pc' = [pc EXCEPT ![w] = l]
\* The call returns.
Returns(w) == Goto(w, "idle") /\ val' = [val EXCEPT ![w] = Fallback]
\* Bound: faults come while the writers take turns; an overlap has failures of its own.
Fault == ~overlapped /\ faults < MaxFaults /\ faults' = faults + 1
\* The name of the temporary file goes; those who have it open keep it, at `to`.
TmpGoes(to) ==
  /\ tmp' = Missing
  /\ fd' = [w \in Writers |-> IF fd[w] = "tmp" THEN to
                              ELSE IF to = "file" /\ fd[w] = "file" THEN "gone" ELSE fd[w]]

\* Values that are null or do not serialize are refused before any file is touched.
WriteJsonAtomic(w, v) ==
  /\ pc[w] = "idle"
  /\ val' = [val EXCEPT ![w] = v]
  /\ overlapped' = (overlapped \/ Busy # {})
  /\ Goto(w, "open")
  /\ UNCHANGED <<file, tmp, fd, installed, faults>>

\* fs.writeFile opens the temporary file: made if missing, emptied if there.
OpenTmp(w) ==
  /\ pc[w] = "open"
  /\ tmp' = Content("empty")
  /\ fd' = [fd EXCEPT ![w] = "tmp"]
  /\ Goto(w, "write")
  /\ UNCHANGED <<file, val, installed, overlapped, faults>>

\* The file that w has open, under whatever name.
Open(w) == CASE fd[w] = "tmp" -> tmp [] fd[w] = "file" -> file [] OTHER -> Missing

\* w's write makes it c.
Puts(w, c) ==
  /\ tmp' = IF fd[w] = "tmp" THEN c ELSE tmp
  /\ file' = IF fd[w] = "file" THEN c ELSE file

\* Over another writer's longer content its tail remains.
Overwritten(w) ==
  {Whole(val[w])} \cup
    IF Open(w).state = "empty" \/ Open(w) = Whole(val[w]) THEN {} ELSE {Content("torn")}

WriteTmp(w) ==
  /\ pc[w] = "write"
  /\ \E c \in Overwritten(w) : Puts(w, c)
  /\ fd' = [fd EXCEPT ![w] = "none"]
  /\ Goto(w, "rename")
  /\ UNCHANGED <<val, installed, overlapped, faults>>

\* Mutant: the file is written in place.
RenameByCopy(w) ==
  /\ pc[w] = "rename" /\ tmp.state # "missing"
  /\ file' \in {tmp, Content("torn")}
  /\ TmpGoes("gone")
  /\ installed' = val[w]
  /\ Returns(w)
  /\ UNCHANGED <<overlapped, faults>>

Rename(w) ==
  /\ pc[w] = "rename" /\ tmp.state # "missing"
  /\ file' = tmp
  /\ TmpGoes("file")
  /\ installed' = val[w]
  /\ Returns(w)
  /\ UNCHANGED <<overlapped, faults>>

\* The process of w ends, or its system call fails: a write may have got part of the way.
Interrupted(w) ==
  \/ UNCHANGED <<file, tmp>>
  \/ pc[w] = "write" /\ Puts(w, Content("torn"))

\* No space, no permission.
WriteFails(w) ==
  /\ pc[w] \in {"open", "write"} /\ Fault
  /\ Interrupted(w)
  /\ fd' = [fd EXCEPT ![w] = "none"]
  /\ Goto(w, "cleanup")
  /\ UNCHANGED <<val, installed, overlapped>>

RenameFails(w) ==
  /\ pc[w] = "rename"
  /\ (tmp.state = "missing" /\ UNCHANGED faults) \/ Fault
  /\ Goto(w, "cleanup")
  /\ UNCHANGED <<file, tmp, val, fd, installed, overlapped>>

\* A failed call removes the temporary file, whoever made it, and reports the reason.
RemoveTmp(w) ==
  /\ pc[w] = "cleanup"
  /\ TmpGoes("gone")
  /\ Returns(w)
  /\ UNCHANGED <<file, installed, overlapped, faults>>

Crash(w) ==
  /\ pc[w] # "idle" /\ Fault
  /\ Interrupted(w)
  /\ fd' = [fd EXCEPT ![w] = "none"]
  /\ Returns(w)
  /\ UNCHANGED <<installed, overlapped>>

\* A daemon starts; if writers of other processes are at work it gets in their way.
CleanupStaleTempFiles ==
  /\ tmp.state # "missing"
  /\ TmpGoes("gone")
  /\ overlapped' = (overlapped \/ Busy # {})
  /\ UNCHANGED <<file, pc, val, installed, faults>>

FileNext ==
  \/ CleanupStaleTempFiles
  \/ \E w \in Writers :
       \/ \E v \in Values : WriteJsonAtomic(w, v)
       \/ OpenTmp(w) \/ WriteTmp(w) \/ Rename(w) \/ WriteFails(w) \/ RenameFails(w)
       \/ RemoveTmp(w) \/ Crash(w)

FileSpec == FileInit /\ [][FileNext]_fileVars
-----------------------------------------------------------------------------
Contents == [state : {"missing", "empty", "torn", "whole"}, value : Values]

FileTypeOK ==
  /\ file \in Contents /\ tmp \in Contents
  /\ pc \in [Writers -> {"idle", "open", "write", "rename", "cleanup"}]
  /\ val \in [Writers -> Values]
  /\ fd \in [Writers -> {"none", "tmp", "file", "gone"}]
  /\ installed \in Values /\ overlapped \in BOOLEAN
  /\ faults \in 0..MaxFaults

\* As long as the writers of a file take turns, a reader gets the whole value of the last
\* call that returned ok, through crashes, failing system calls and cleanups: no truncated
\* JSON, and nothing of a call that failed.
ReadsLastWritten ==
  ~overlapped => /\ Read = installed
                 /\ file.state \in {"missing", "whole"}
=============================================================================
