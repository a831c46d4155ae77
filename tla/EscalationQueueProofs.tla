------------------------ MODULE EscalationQueueProofs ------------------------
(***************************************************************************)
(* Proofs about EscalationQueue: its type invariant, that the file holds   *)
(* what was last written, the cooldown, and, while calls take turns, that  *)
(* no entry is lost but by the cap and none is opened again.               *)
(*                                                                         *)
(* First the file that the queue is kept in (StateFile): no system call    *)
(* makes up a value, and while the writers take turns a reader gets what   *)
(* the last successful call wrote.  Those lemmas speak of single steps and *)
(* of any value, so that the ones about the queue, which puts steps of its *)
(* own around the file, cite them.                                         *)
(***************************************************************************)
EXTENDS EscalationQueue, SequenceTheorems, TLAPS

-----------------------------------------------------------------------------
(* The state file *)

\* The values in the file, in the temporary file and in the hands of writers.
Held == {file.value, tmp.value, installed} \cup {val[w] : w \in Writers}

Steps == {"idle", "open", "write", "rename", "cleanup"}
Places == {"none", "tmp", "file", "gone"}

\* The functions are functions; what the values are does not matter here.
FileShape ==
  /\ pc \in [Writers -> Steps]
  /\ fd \in [Writers -> Places]
  /\ val = [w \in Writers |-> val[w]]

\* The rest of the types that do not depend on the values.
FileTypes ==
  /\ file.state \in {"missing", "empty", "torn", "whole"}
  /\ tmp.state \in {"missing", "empty", "torn", "whole"}
  /\ overlapped \in BOOLEAN /\ faults \in 0..MaxFaults

\* While writers take turns, the one at work alone has the temporary file open, and a
\* temporary file that is about to be renamed is complete.
TakingTurns ==
  ~overlapped =>
    /\ \A v, w \in Busy : v = w
    /\ \A w \in Writers : IF pc[w] = "write" THEN fd[w] = "tmp" /\ tmp = Content("empty")
                          ELSE fd[w] = "none"
    /\ \A w \in Writers : pc[w] = "rename" => tmp = Whole(val[w])

FileInv == FileShape /\ TakingTurns /\ ReadsLastWritten

\* A system call of w.
SystemCall(w) ==
  \/ OpenTmp(w) \/ WriteTmp(w) \/ Rename(w) \/ WriteFails(w) \/ RenameFails(w)
  \/ RemoveTmp(w) \/ Crash(w)
-----------------------------------------------------------------------------
\* A new file system has the invariant.
LEMMA FileInvInit == FileInit => FileInv
BY DEF FileInit, FileInv, FileShape, TakingTurns, ReadsLastWritten, Busy, Read,
       Missing, Content, Steps, Places

\* A call of writeJsonAtomic keeps the invariant, whatever it writes.
LEMMA FileInvWriteJson ==
  ASSUME FileInv, NEW w \in Writers, NEW v, WriteJsonAtomic(w, v)
  PROVE  FileInv'
<1> USE DEF FileInv, WriteJsonAtomic, Goto
<1>1. FileShape'
  BY DEF FileShape, Steps
<1>2. TakingTurns'
  <2> SUFFICES ASSUME ~overlapped' PROVE TakingTurns'
    BY DEF TakingTurns
  <2>1. ~overlapped /\ Busy = {}
    OBVIOUS
  <2>2. Busy' = {w}
    BY <2>1 DEF Busy, FileShape
  <2>3. QED BY <2>1, <2>2 DEF TakingTurns, Busy, FileShape
<1>3. ReadsLastWritten'
  BY DEF ReadsLastWritten, Read
<1>4. QED BY <1>1, <1>2, <1>3

\* Only w moves.
LEMMA OthersStay ==
  ASSUME FileShape, NEW w \in Writers, SystemCall(w)
  PROVE  /\ pc' = [pc EXCEPT ![w] = pc'[w]]
         /\ \A x \in Writers \ {w} : pc'[x] = pc[x] /\ val'[x] = val[x]
         /\ pc[w] # "idle"
         /\ overlapped' = overlapped
<1> USE DEF FileShape, Goto, Returns
<1>1. CASE OpenTmp(w) BY <1>1 DEF OpenTmp
<1>2. CASE WriteTmp(w) BY <1>2 DEF WriteTmp
<1>3. CASE Rename(w) BY <1>3 DEF Rename
<1>4. CASE WriteFails(w) BY <1>4 DEF WriteFails
<1>5. CASE RenameFails(w) BY <1>5 DEF RenameFails
<1>6. CASE RemoveTmp(w) BY <1>6 DEF RemoveTmp
<1>7. CASE Crash(w) BY <1>7 DEF Crash, Fault
<1>8. QED BY <1>1, <1>2, <1>3, <1>4, <1>5, <1>6, <1>7 DEF SystemCall

\* A system call keeps the shape.
LEMMA FileShapeSystemCall ==
  ASSUME FileShape, NEW w \in Writers, SystemCall(w)
  PROVE  FileShape'
<1> USE DEF FileShape, Goto, Returns, Steps, Places, TmpGoes
<1>1. CASE OpenTmp(w) BY <1>1 DEF OpenTmp
<1>2. CASE WriteTmp(w) BY <1>2 DEF WriteTmp
<1>3. CASE Rename(w) BY <1>3 DEF Rename
<1>4. CASE WriteFails(w) BY <1>4 DEF WriteFails
<1>5. CASE RenameFails(w) BY <1>5 DEF RenameFails
<1>6. CASE RemoveTmp(w) BY <1>6 DEF RemoveTmp
<1>7. CASE Crash(w) BY <1>7 DEF Crash
<1>8. QED BY <1>1, <1>2, <1>3, <1>4, <1>5, <1>6, <1>7 DEF SystemCall

\* A system call keeps turns and the file.
LEMMA FileInvSystemCall ==
  ASSUME FileInv, NEW w \in Writers, SystemCall(w)
  PROVE  FileInv'
<1>1. FileShape'
  BY FileShapeSystemCall DEF FileInv
<1>2. (TakingTurns /\ ReadsLastWritten)'
  <2> SUFFICES ASSUME ~overlapped' PROVE (TakingTurns /\ ReadsLastWritten)'
    BY DEF TakingTurns, ReadsLastWritten
  <2>1. /\ \A x \in Writers \ {w} : pc'[x] = pc[x] /\ val'[x] = val[x]
        /\ pc[w] # "idle" /\ ~overlapped
    BY OthersStay DEF FileInv
  <2>2. \A x \in Writers \ {w} : pc[x] = "idle" /\ pc'[x] = "idle"
    BY <2>1 DEF FileInv, TakingTurns, Busy
  <2>3. \A v, x \in Busy' : v = x
    BY <2>2 DEF Busy
  <2>4. \A x \in Writers \ {w} : fd[x] = "none"
    BY <2>1, <2>2 DEF FileInv, TakingTurns
  <2>5. /\ IF pc[w] = "write" THEN fd[w] = "tmp" /\ tmp = Content("empty") ELSE fd[w] = "none"
        /\ pc[w] = "rename" => tmp = Whole(val[w])
        /\ file.value = installed /\ file.state \in {"missing", "whole"}
    BY <2>1 DEF FileInv, TakingTurns, ReadsLastWritten, Read
  <2>6. SUFFICES
          /\ \A x \in Writers \ {w} : fd'[x] = "none"
          /\ IF pc'[w] = "write" THEN fd'[w] = "tmp" /\ tmp' = Content("empty")
             ELSE fd'[w] = "none"
          /\ pc'[w] = "rename" => tmp' = Whole(val'[w])
          /\ file'.value = installed' /\ file'.state \in {"missing", "whole"}
    BY <2>2, <2>3, Zenon DEF TakingTurns, ReadsLastWritten, Read, Whole, Content
  <2> USE <2>2, <2>4, <2>5, <1>1 DEF FileInv, FileShape, Goto, Returns, TmpGoes
  <2>a. CASE OpenTmp(w)
    BY <2>a DEF OpenTmp
  <2>b. CASE WriteTmp(w)
    <3>1. Overwritten(w) = {Whole(val[w])}
      BY <2>b DEF WriteTmp, Overwritten, Open, Content
    <3>2. tmp' = Whole(val[w]) /\ file' = file
      BY <3>1, <2>b DEF WriteTmp, Puts
    <3>3. QED BY <3>2, <2>b DEF WriteTmp
  <2>c. CASE Rename(w)
    BY <2>c DEF Rename, Whole
  <2>d. CASE WriteFails(w)
    <3>1. file' = file
      BY <2>d DEF WriteFails, Interrupted, Puts
    <3>2. QED BY <3>1, <2>d DEF WriteFails
  <2>e. CASE RenameFails(w)
    BY <2>e DEF RenameFails
  <2>f. CASE RemoveTmp(w)
    BY <2>f DEF RemoveTmp
  <2>g. CASE Crash(w)
    <3>1. file' = file
      BY <2>g DEF Crash, Interrupted, Puts
    <3>2. QED BY <3>1, <2>g DEF Crash
  <2>h. QED BY <2>a, <2>b, <2>c, <2>d, <2>e, <2>f, <2>g DEF SystemCall
<1>3. QED BY <1>1, <1>2 DEF FileInv

\* The cleanup of a starting daemon keeps the invariant.
LEMMA FileInvCleanup ==
  ASSUME FileInv, CleanupStaleTempFiles
  PROVE  FileInv'
<1> USE DEF FileInv, CleanupStaleTempFiles, TmpGoes
<1>1. FileShape'
  BY DEF FileShape, Places
<1>2. TakingTurns'
  <2> SUFFICES ASSUME ~overlapped' PROVE TakingTurns'
    BY DEF TakingTurns
  <2>1. ~overlapped /\ Busy = {}
    OBVIOUS
  <2>2. \A w \in Writers : pc[w] = "idle" /\ fd[w] = "none"
    BY <2>1 DEF TakingTurns, Busy
  <2>3. QED BY <2>1, <2>2 DEF TakingTurns, Busy, FileShape
<1>3. ReadsLastWritten'
  BY DEF ReadsLastWritten, Read
<1>4. QED BY <1>1, <1>2, <1>3

\* A step that leaves the file alone keeps the invariant.
LEMMA FileInvStutter ==
  ASSUME FileInv, UNCHANGED fileVars
  PROVE  FileInv'
BY DEF FileInv, FileShape, TakingTurns, ReadsLastWritten, Busy, Read, fileVars
-----------------------------------------------------------------------------
\* A call holds what it writes and what was held before.
LEMMA HeldWriteJson ==
  ASSUME FileShape, NEW w \in Writers, NEW v, WriteJsonAtomic(w, v)
  PROVE  Held' \subseteq Held \cup {v}
BY DEF FileShape, WriteJsonAtomic, Held

\* No system call makes up a value: a reader gets what some call wrote, or the fallback.
LEMMA HeldSystemCall ==
  ASSUME FileShape, NEW w \in Writers, SystemCall(w)
  PROVE  Held' \subseteq Held \cup {Fallback}
<1> USE DEF FileShape, Held, Content, Whole, Missing, TmpGoes, Returns, Goto
<1>p. ASSUME NEW c, c.value \in Held \cup {Fallback}, Puts(w, c)
      PROVE  {file'.value, tmp'.value} \subseteq Held \cup {Fallback}
  BY <1>p DEF Puts
<1>1. CASE OpenTmp(w) BY <1>1 DEF OpenTmp
<1>2. CASE WriteTmp(w)
  <2>1. PICK c \in Overwritten(w) : Puts(w, c)
    BY <1>2 DEF WriteTmp
  <2>2. c.value \in Held \cup {Fallback}
    BY DEF Overwritten
  <2>3. QED BY <1>p, <2>1, <2>2, <1>2 DEF WriteTmp
<1>3. CASE Rename(w) BY <1>3 DEF Rename
<1>4. ASSUME Interrupted(w) PROVE {file'.value, tmp'.value} \subseteq Held \cup {Fallback}
  BY <1>4, <1>p DEF Interrupted
<1>5. CASE WriteFails(w) BY <1>4, <1>5 DEF WriteFails
<1>6. CASE RenameFails(w) BY <1>6 DEF RenameFails
<1>7. CASE RemoveTmp(w) BY <1>7 DEF RemoveTmp
<1>8. CASE Crash(w) BY <1>4, <1>8 DEF Crash
<1>9. QED BY <1>1, <1>2, <1>3, <1>5, <1>6, <1>7, <1>8 DEF SystemCall

\* Nor does the cleanup.
LEMMA HeldCleanup ==
  ASSUME CleanupStaleTempFiles
  PROVE  Held' \subseteq Held \cup {Fallback}
BY DEF CleanupStaleTempFiles, TmpGoes, Held, Missing, Content
-----------------------------------------------------------------------------
LEMMA FileTypesInit == FileInit => FileTypes
<1> SUFFICES ASSUME FileInit PROVE FileTypes
  OBVIOUS
<1>1. file.state = "missing" /\ tmp.state = "missing"
  BY DEF FileInit, Missing, Content
<1>2. overlapped \in BOOLEAN
  BY DEF FileInit
<1>3. faults \in 0..MaxFaults
  BY FaultsAssumption DEF FileInit
<1>4. QED BY <1>1, <1>2, <1>3 DEF FileTypes

\* Every step keeps the types.
LEMMA FileTypesWriteJson ==
  ASSUME FileTypes, NEW w, NEW v, WriteJsonAtomic(w, v)
  PROVE  FileTypes'
BY DEF FileTypes, WriteJsonAtomic

LEMMA FileTypesCleanup ==
  ASSUME FileTypes, CleanupStaleTempFiles
  PROVE  FileTypes'
BY DEF FileTypes, CleanupStaleTempFiles, TmpGoes, Missing, Content

LEMMA FaultType ==
  ASSUME FileTypes, Fault
  PROVE  faults' \in 0..MaxFaults
BY FaultsAssumption DEF FileTypes, Fault

LEMMA FileTypesSystemCall ==
  ASSUME FileTypes, NEW w, SystemCall(w)
  PROVE  FileTypes'
<1> DEFINE States == {"missing", "empty", "torn", "whole"}
<1>0. file.state \in States /\ tmp.state \in States
  BY DEF FileTypes
<1>p. ASSUME NEW c, c.state \in States, Puts(w, c)
      PROVE  file'.state \in States /\ tmp'.state \in States
  BY <1>0, <1>p DEF Puts
<1>i. Interrupted(w) => file'.state \in States /\ tmp'.state \in States
  BY <1>0, <1>p DEF Interrupted, Content
<1>1. CASE OpenTmp(w)
  BY <1>1 DEF OpenTmp, FileTypes, Content
<1>2. CASE WriteTmp(w)
  <2>1. PICK c \in Overwritten(w) : Puts(w, c)
    BY <1>2 DEF WriteTmp
  <2>2. c.state \in States
    BY DEF Overwritten, Whole, Content
  <2>3. QED BY <1>p, <2>1, <2>2, <1>2 DEF WriteTmp, FileTypes
<1>3. CASE Rename(w)
  BY <1>3 DEF Rename, TmpGoes, FileTypes, Missing, Content
<1>4. CASE WriteFails(w)
  BY <1>4, <1>i, FaultType DEF WriteFails, FileTypes
<1>5. CASE RenameFails(w)
  BY <1>5, FaultType DEF RenameFails, FileTypes
<1>6. CASE RemoveTmp(w)
  BY <1>6 DEF RemoveTmp, TmpGoes, FileTypes, Missing, Content
<1>7. CASE Crash(w)
  BY <1>7, <1>i, FaultType DEF Crash, FileTypes
<1>8. QED BY <1>1, <1>2, <1>3, <1>4, <1>5, <1>6, <1>7 DEF SystemCall
-----------------------------------------------------------------------------
\* Whatever the values, the writers and the faults: as long as the writers of a state file
\* take turns, readJson returns what the last writeJsonAtomic that returned ok wrote.
THEOREM FileReadsLastWritten == FileSpec => []ReadsLastWritten
<1>1. FileInit => FileInv
  BY FileInvInit
<1>2. FileInv /\ [FileNext]_fileVars => FileInv'
  <2> SUFFICES ASSUME FileInv, [FileNext]_fileVars PROVE FileInv'
    OBVIOUS
  <2>1. CASE CleanupStaleTempFiles BY <2>1, FileInvCleanup
  <2>2. CASE UNCHANGED fileVars BY <2>2, FileInvStutter
  <2>3. ASSUME NEW w \in Writers, NEW v \in Values, WriteJsonAtomic(w, v) PROVE FileInv'
    BY <2>3, FileInvWriteJson
  <2>4. ASSUME NEW w \in Writers, SystemCall(w) PROVE FileInv'
    BY <2>4, FileInvSystemCall
  <2>5. QED BY <2>1, <2>2, <2>3, <2>4, Zenon DEF FileNext, SystemCall
<1>3. FileInv => ReadsLastWritten
  BY DEF FileInv
<1>4. QED BY <1>1, <1>2, <1>3, PTL DEF FileSpec

-----------------------------------------------------------------------------
(* The queue *)

USE CountsAssumption, ClassesAssumption, FallbackAssumption

Calls == {NoCall, CloseAll} \cup {ResolveOf(t, k) : t \in Tasks, k \in AllClasses}
                            \cup {AppendOf(e) : e \in Entries}

\* The calls are calls, every value in play is a queue.
CallShape ==
  /\ call \in [Writers -> Calls]
  /\ Held \subseteq Queues

OneOpenIn(q) ==
  \A i, j \in DOMAIN q :
    (/\ q[i].task = q[j].task
     /\ ~q[i].resolved /\ ~q[j].resolved
     /\ q[i].id > coldUpTo /\ q[j].id > coldUpTo) => i = j
-----------------------------------------------------------------------------
\* What slice(-Cap) returns.
LEMMA LastOfProperties ==
  ASSUME NEW S, NEW q \in Seq(S)
  PROVE  /\ LastOf(q) \in Seq(S)
         /\ Len(LastOf(q)) = IF Len(q) > Cap THEN Cap ELSE Len(q)
         /\ \A i \in 1..Len(LastOf(q)) : LastOf(q)[i] = q[i + (Len(q) - Len(LastOf(q)))]
<1>1. CASE Len(q) > Cap
  <2> DEFINE r == SubSeq(q, Len(q) - Cap + 1, Len(q))
  <2>1. /\ r \in Seq(S) /\ Len(r) = Cap
        /\ \A i \in 1..Len(r) : r[i] = q[i + (Len(q) - Cap)]
    BY <1>1
  <2>2. LastOf(q) = r
    BY <1>1 DEF LastOf
  <2>3. QED BY <2>1, <2>2, <1>1
<1>2. CASE ~(Len(q) > Cap)
  BY <1>2 DEF LastOf
<1>3. QED BY <1>1, <1>2

\* A call changes an entry's marks only, and never takes one back.
LEMMA UpdatedEntry ==
  ASSUME NEW cl \in Calls, NEW e \in Entries
  PROVE  LET u == Updated(cl, e)
         IN  /\ u \in Entries /\ u.id = e.id /\ u.task = e.task
             /\ e.resolved => u.resolved
<1> DEFINE res == e.resolved \/ Resolves(cl, e)
           rea == e.reassign \/ Reassigns(cl, e)
           u == [e EXCEPT !.resolved = res, !.reassign = rea]
<1>1. res \in BOOLEAN /\ rea \in BOOLEAN
  OBVIOUS
<1>2. u = Updated(cl, e)
  BY DEF Updated
<1>3. u.resolved = res
  BY DEF Entries
<1> HIDE DEF res, rea
<1>4. u \in Entries /\ u.id = e.id /\ u.task = e.task
  BY <1>1 DEF Entries
<1>5. QED BY <1>2, <1>3, <1>4 DEF res

\* A queue is a sequence of entries.
LEMMA QueueElements ==
  ASSUME NEW q \in Queues
  PROVE  /\ DOMAIN q = 1..Len(q) /\ Len(q) \in Nat /\ Len(q) <= Cap
         /\ \A i \in DOMAIN q : q[i] \in Entries
BY DEF Queues

\* What the calls write are queues again.
LEMMA ResultIsQueue ==
  ASSUME NEW cl \in Calls, cl # NoCall, NEW q \in Queues
  PROVE  Result(cl, q) \in Queues
<1>1. CASE cl.op = "append"
  <2>1. cl.entry \in Entries
    BY <1>1 DEF Calls, NoCall, CloseAll, ResolveOf, AppendOf
  <2> DEFINE a == Append(q, cl.entry)
  <2>2. a \in Seq(Entries)
    BY <2>1 DEF Queues
  <2>3. Result(cl, q) = LastOf(a)
    BY <1>1 DEF Result
  <2> HIDE DEF a
  <2>4. /\ LastOf(a) \in Seq(Entries)
        /\ Len(LastOf(a)) <= Cap
    BY <2>2, LastOfProperties
  <2>5. QED BY <2>3, <2>4 DEF Queues
<1>2. CASE cl.op # "append"
  <2> DEFINE r == [i \in DOMAIN q |-> Updated(cl, q[i])]
  <2>1. DOMAIN q = 1..Len(q) /\ Len(q) \in Nat /\ Len(q) <= Cap
    BY DEF Queues
  <2>2. \A i \in 1..Len(q) : Updated(cl, q[i]) \in Entries
    BY UpdatedEntry DEF Queues
  <2>3. r \in [1..Len(q) -> Entries]
    BY <2>1, <2>2
  <2>4. r \in Seq(Entries) /\ Len(r) = Len(q)
    BY <2>1, <2>3
  <2>5. QED BY <1>2, <2>1, <2>4 DEF Result, Queues
<1>3. QED BY <1>1, <1>2

\* An append that finds no duplicate, a resolve and a closure leave one open entry per task.
LEMMA ResultKeepsCooldown ==
  ASSUME NEW cl \in Calls, cl # NoCall, NEW q \in Queues, Changes(cl, q),
         OneOpenIn(q), coldUpTo \in Nat
  PROVE  OneOpenIn(Result(cl, q))
<1> DEFINE r == Result(cl, q)
<1>0. DOMAIN q = 1..Len(q) /\ Len(q) \in Nat /\ \A i \in 1..Len(q) : q[i] \in Entries
  BY DEF Queues
<1>1. CASE cl.op = "append"
  <2> DEFINE e == cl.entry
             a == Append(q, e)
  <2>1. e \in Entries /\ ~IsDuplicate(e, q) /\ r = LastOf(a)
    BY <1>1 DEF Calls, NoCall, CloseAll, ResolveOf, AppendOf, Changes, Result
  <2> HIDE DEF e, r
  <2>2. /\ a \in Seq(Entries) /\ Len(a) = Len(q) + 1
        /\ a[Len(q) + 1] = e /\ \A i \in 1..Len(q) : a[i] = q[i]
    BY <2>1 DEF Queues
  <2>3. OneOpenIn(a)
    BY <1>0, <2>1, <2>2 DEF OneOpenIn, IsDuplicate
  <2> HIDE DEF a
  <2>4. /\ r \in Seq(Entries) /\ Len(r) <= Len(a)
        /\ \A i \in 1..Len(r) : r[i] = a[i + (Len(a) - Len(r))]
    BY <2>1, <2>2, LastOfProperties
  <2>5. DOMAIN r = 1..Len(r) /\ DOMAIN a = 1..Len(a) /\ Len(r) \in Nat /\ Len(a) \in Nat
    BY <2>2, <2>4
  <2> DEFINE shift == Len(a) - Len(r)
  <2>6. \A i \in DOMAIN r : i + shift \in DOMAIN a /\ r[i] = a[i + shift]
    BY <2>4, <2>5
  <2>7. \A i, j \in DOMAIN r : i + shift = j + shift => i = j
    BY <2>5
  <2> HIDE DEF shift
  <2>71. OneOpenIn(r)
    BY <2>3, <2>6, <2>7 DEF OneOpenIn
  <2>8. QED BY <2>71 DEF r
<1>2. CASE cl.op # "append"
  <2>1. r = [i \in DOMAIN q |-> Updated(cl, q[i])]
    BY <1>2 DEF Result
  <2>2. \A i \in DOMAIN q : /\ r[i].id = q[i].id /\ r[i].task = q[i].task
                            /\ q[i].resolved => r[i].resolved
    BY <1>0, <2>1, UpdatedEntry
  <2>3. DOMAIN r = DOMAIN q
    BY <2>1
  <2> HIDE DEF r
  <2>4. OneOpenIn(r)
    BY <2>2, <2>3 DEF OneOpenIn
  <2>5. QED BY <2>4 DEF r
<1>3. QED BY <1>1, <1>2
-----------------------------------------------------------------------------
\* What the proof of the type invariant and of the cooldown carries along.
QueueInv ==
  /\ CallShape /\ FileInv
  /\ coldUpTo \in 0..appends /\ appends \in 0..MaxAppends
  /\ \A q \in Held : OneOpenIn(q)

\* A step of a call on its file.
FileStep(c) == Writing(c) \/ Written(c) \/ Lost(c)

LEMMA FileStepIsSystemCall ==
  ASSUME NEW c, FileStep(c)
  PROVE  SystemCall(c)
BY DEF FileStep, Writing, Written, Lost, SystemCall

\* The queue of a missing or unreadable file has no entries.
LEMMA EmptyQueue == Fallback \in Queues /\ OneOpenIn(Fallback)
<1>1. Fallback \in Seq(Entries) /\ Len(Fallback) = 0 /\ DOMAIN Fallback = {}
  OBVIOUS
<1>2. QED BY <1>1 DEF Queues, OneOpenIn

LEMMA QueueInvInit == Init => QueueInv
<1> SUFFICES ASSUME Init PROVE QueueInv
  OBVIOUS
<1>1. FileInv
  BY FileInvInit DEF Init
<1>2. Held = {Fallback}
  BY DEF Init, FileInit, Held, Missing, Content
<1>3. call \in [Writers -> Calls]
  BY DEF Init, Calls
<1>4. QED BY <1>1, <1>2, <1>3, EmptyQueue DEF QueueInv, CallShape, Init

LEMMA QueueIsHeld == queue \in Held
BY DEF queue, Held, Read

\* A step that leaves the file alone leaves what is held alone.
LEMMA HeldStutter == UNCHANGED fileVars => Held' = Held
BY DEF fileVars, Held

\* The invariant holds over a step that holds no value but cooled-down queues.
LEMMA QueueInvFrom ==
  ASSUME QueueInv, FileInv',
         Held' \subseteq Queues, \A q \in Held' : OneOpenIn(q),
         call' \in [Writers -> Calls],
         coldUpTo' = coldUpTo, appends' = appends
  PROVE  QueueInv'
BY DEF QueueInv, CallShape, OneOpenIn, Queues, Entries

LEMMA QueueInvStep ==
  ASSUME QueueInv, [Next]_vars
  PROVE  QueueInv'
<1> USE DEF QueueInv, CallShape
<1>1. CASE UNCHANGED vars
  <2>1. FileInv' /\ Held' = Held
    BY <1>1, FileInvStutter, HeldStutter DEF vars
  <2>2. QED BY <1>1, <2>1, QueueInvFrom DEF vars, queueVars
<1>2. CASE CooldownElapses
  <2>1. FileInv' /\ Held' = Held
    BY <1>2, FileInvStutter, HeldStutter DEF CooldownElapses
  <2>2. coldUpTo' \in 0..appends' /\ coldUpTo' >= coldUpTo
    BY <1>2 DEF CooldownElapses
  <2>3. \A q \in Held : OneOpenIn(q)'
    <3> SUFFICES ASSUME NEW q \in Held PROVE OneOpenIn(q)'
      OBVIOUS
    <3>1. \A i \in DOMAIN q : q[i] \in Entries
      BY QueueElements
    <3>2. \A i \in DOMAIN q : q[i].id \in Nat
      BY <3>1 DEF Entries
    <3>3. coldUpTo \in Nat /\ coldUpTo' \in Nat
      BY <2>2, <1>2 DEF CooldownElapses
    <3>4. QED BY <2>2, <3>2, <3>3 DEF OneOpenIn
  <2>4. (\A q \in Held : OneOpenIn(q))'
    <3>1. \A q \in Held' : OneOpenIn(q)'
      BY <2>1, <2>3
    <3>2. QED BY <3>1 DEF OneOpenIn
  <2>5. CallShape'
    BY <1>2, <2>1 DEF CooldownElapses
  <2>6. QED BY <1>2, <2>1, <2>2, <2>4, <2>5 DEF CooldownElapses
<1>3. CASE Startup
  <2>1. FileInv'
    BY <1>3, FileInvCleanup DEF Startup
  <2>2. Held' \subseteq Held \cup {Fallback}
    BY <1>3, HeldCleanup DEF Startup
  <2>3. QED BY <1>3, <2>1, <2>2, EmptyQueue, QueueInvFrom DEF Startup, queueVars
<1>4. ASSUME NEW c \in Writers, AppendEscalation(c) PROVE QueueInv'
  <2>1. FileInv' /\ Held' = Held
    BY <1>4, FileInvStutter, HeldStutter DEF AppendEscalation
  <2>2. PICK t \in Tasks, k \in Classes : Starts(c, AppendOf(Entry(appends + 1, t, k)))
    BY <1>4 DEF AppendEscalation
  <2>3. Entry(appends + 1, t, k) \in Entries
    BY <1>4 DEF AppendEscalation, Entry, Entries
  <2>4. call' \in [Writers -> Calls]
    BY <2>2, <2>3 DEF Starts, Calls
  <2>5. coldUpTo' = coldUpTo /\ appends' = appends + 1 /\ appends < MaxAppends
    BY <1>4 DEF AppendEscalation
  <2>6. (\A q \in Held : OneOpenIn(q))'
    BY <2>1, <2>5 DEF OneOpenIn
  <2>7. QED BY <2>1, <2>4, <2>5, <2>6
<1>5. ASSUME NEW c \in Writers, ProcessClosures(c) PROVE QueueInv'
  <2>1. FileInv' /\ Held' = Held
    BY <1>5, FileInvStutter, HeldStutter DEF ProcessClosures
  <2>2. call' \in [Writers -> Calls]
    BY <1>5 DEF ProcessClosures, Starts, Calls
  <2>3. QED BY <1>5, <2>1, <2>2, QueueInvFrom DEF ProcessClosures
<1>6. ASSUME NEW c \in Writers, NEW d \in Writers, RecoverTask(c, d) PROVE QueueInv'
  <2>1. FileInv' /\ Held' = Held
    BY <1>6, FileInvStutter, HeldStutter DEF RecoverTask
  <2>2. call' \in [Writers -> Calls]
    BY <1>6 DEF RecoverTask, Calls, AllClasses
  <2>3. QED BY <1>6, <2>1, <2>2, QueueInvFrom DEF RecoverTask
<1>7. ASSUME NEW c \in Writers, ReadUnchanged(c) PROVE QueueInv'
  <2>1. FileInv' /\ Held' = Held
    BY <1>7, FileInvStutter, HeldStutter DEF ReadUnchanged
  <2>2. call' \in [Writers -> Calls]
    BY <1>7 DEF ReadUnchanged, Ends, Calls
  <2>3. QED BY <1>7, <2>1, <2>2, QueueInvFrom DEF ReadUnchanged
<1>8. ASSUME NEW c \in Writers, ReadQueue(c) PROVE QueueInv'
  <2> DEFINE r == Result(call[c], queue)
  <2>1. call[c] \in Calls /\ call[c] # NoCall /\ queue \in Queues /\ OneOpenIn(queue)
    BY <1>8, QueueIsHeld DEF ReadQueue
  <2>2. r \in Queues
    BY <2>1, ResultIsQueue
  <2>3. OneOpenIn(r)
    BY <1>8, <2>1, ResultKeepsCooldown DEF ReadQueue
  <2>4. FileInv' /\ Held' \subseteq Held \cup {r}
    BY <1>8, FileInvWriteJson, HeldWriteJson DEF ReadQueue, FileInv
  <2> HIDE DEF r
  <2>5. Held' \subseteq Queues /\ \A q \in Held' : OneOpenIn(q)
    BY <2>2, <2>3, <2>4
  <2>6. QED BY <1>8, <2>4, <2>5, QueueInvFrom DEF ReadQueue, queueVars
<1>9. ASSUME NEW c \in Writers, FileStep(c) PROVE QueueInv'
  <2>1. FileInv' /\ Held' \subseteq Held \cup {Fallback}
    BY <1>9, FileStepIsSystemCall, FileInvSystemCall, HeldSystemCall DEF FileInv
  <2>2. Held' \subseteq Queues /\ \A q \in Held' : OneOpenIn(q)
    BY <2>1, EmptyQueue
  <2>3. /\ call' \in [Writers -> Calls]
        /\ coldUpTo' = coldUpTo /\ appends' = appends
    BY <1>9 DEF FileStep, Writing, Written, Lost, Ends, queueVars, Calls
  <2>4. QED BY <2>1, <2>2, <2>3, QueueInvFrom
<1>10. QED
  BY <1>1, <1>2, <1>3, <1>4, <1>5, <1>6, <1>7, <1>8, <1>9, Zenon DEF Next, FileStep

\* The invariant holds in every reachable state.
THEOREM QueueInvHolds == Spec => []QueueInv
BY QueueInvInit, QueueInvStep, PTL DEF Spec

\* However many calls overlap, over any number of tasks, classes, appends and faults: within
\* the cooldown a task has at most one open escalation.
THEOREM CooldownHolds == Spec => []OneOpenPerTask
<1>1. QueueInv => OneOpenPerTask
  BY QueueIsHeld DEF QueueInv, OneOpenPerTask, OneOpenIn
<1>2. QED BY <1>1, QueueInvHolds, PTL

\* As long as the calls take turns the queue file is whole and holds what the last call that
\* returned wrote.
THEOREM QueueFileReadsLastWritten == Spec => []ReadsLastWritten
<1>1. QueueInv => ReadsLastWritten
  BY DEF QueueInv, FileInv
<1>2. QED BY <1>1, QueueInvHolds, PTL
-----------------------------------------------------------------------------
\* The types that QueueInv does not speak of.
BookTypes ==
  FileTypes /\ appended \in Seq(1..MaxAppends) /\ settled \subseteq 1..MaxAppends

LEMMA CallsType ==
  ASSUME NEW cl \in Calls
  PROVE  /\ \/ cl \in {NoCall, CloseAll}
            \/ \E t \in Tasks, k \in AllClasses : cl = ResolveOf(t, k)
            \/ \E e \in Entries : cl = AppendOf(e)
         /\ cl.op = "append" => cl.entry \in Entries
BY DEF Calls, NoCall, CloseAll, ResolveOf, AppendOf

LEMMA BookTypesInit == Init => BookTypes
BY FileTypesInit DEF Init, BookTypes

LEMMA BookTypesStep ==
  ASSUME QueueInv, BookTypes, [Next]_vars
  PROVE  BookTypes'
<1>1. CASE UNCHANGED <<fileVars, appended, settled>>
  BY <1>1 DEF BookTypes, FileTypes, fileVars
<1>2. CASE Startup
  BY <1>2, FileTypesCleanup DEF Startup, BookTypes, queueVars
<1>3. ASSUME NEW c \in Writers, ReadQueue(c) PROVE BookTypes'
  BY <1>3, FileTypesWriteJson DEF ReadQueue, BookTypes, queueVars
<1>4. ASSUME NEW c \in Writers, Writing(c) PROVE BookTypes'
  BY <1>4, FileTypesSystemCall DEF Writing, SystemCall, BookTypes, queueVars
<1>5. ASSUME NEW c \in Writers, Lost(c) PROVE BookTypes'
  BY <1>5, FileTypesSystemCall DEF Lost, SystemCall, BookTypes
<1>6. ASSUME NEW c \in Writers, Written(c) PROVE BookTypes'
  <2>1. FileTypes'
    BY <1>6, FileTypesSystemCall DEF Written, SystemCall, BookTypes
  <2>2. call[c] \in Calls /\ val[c] \in Queues
    BY DEF QueueInv, CallShape, Held
  <2>3. \A i \in DOMAIN val[c] : val[c][i].id \in 1..MaxAppends
    BY <2>2, QueueElements DEF Entries
  <2>a. settled' = settled \cup {e.id : e \in {val[c][i] : i \in {i \in DOMAIN val[c] :
                                                           val[c][i].resolved}}}
    BY <1>6 DEF Written
  <2>4. settled' \subseteq 1..MaxAppends
    BY <2>3, <2>a DEF BookTypes
  <2>5. call[c].op = "append" => call[c].entry.id \in 1..MaxAppends
    BY <2>2, CallsType DEF Entries
  <2>6. appended' \in Seq(1..MaxAppends)
    <3> DEFINE Ids == 1..MaxAppends
    <3>1. appended \in Seq(Ids)
      BY DEF BookTypes
    <3>2. call[c].op = "append" => call[c].entry.id \in Ids
      BY <2>5
    <3>3. appended' = IF call[c].op = "append" THEN Append(appended, call[c].entry.id)
                      ELSE appended
      BY <1>6 DEF Written
    <3> HIDE DEF Ids
    <3>4. appended' \in Seq(Ids)
      BY <3>1, <3>2, <3>3
    <3>5. QED BY <3>4 DEF Ids
  <2>7. QED BY <2>1, <2>4, <2>6 DEF BookTypes
<1>7. QED
  BY <1>1, <1>2, <1>3, <1>4, <1>5, <1>6
     DEF Next, vars, queueVars, CooldownElapses, AppendEscalation, ProcessClosures,
         RecoverTask, ReadUnchanged

\* For every number of calls, tasks, appends and faults the file, the calls and the queues
\* keep their types, the cap included.
THEOREM QueueTypeCorrect == Spec => []TypeOK
<1>1. QueueInv /\ BookTypes => TypeOK
  <2> SUFFICES ASSUME QueueInv, BookTypes PROVE TypeOK
    OBVIOUS
  <2>1. \A q \in {file.value, tmp.value, installed} \cup {val[c] : c \in Writers} : q \in Queues
    BY DEF QueueInv, CallShape, Held
  <2>2. \A c \in Writers :
       \/ call[c] \in {NoCall, CloseAll}
       \/ \E t \in Tasks, k \in AllClasses : call[c] = ResolveOf(t, k)
       \/ \E e \in Entries : call[c] = AppendOf(e)
    BY CallsType DEF QueueInv, CallShape
  <2>3. QED BY <2>1, <2>2
            DEF TypeOK, BookTypes, FileTypes, QueueInv, FileInv, FileShape, Steps, Places
<1>2. Init => QueueInv /\ BookTypes
  BY QueueInvInit, BookTypesInit
<1>3. QueueInv /\ BookTypes /\ [Next]_vars => (QueueInv /\ BookTypes)'
  BY QueueInvStep, BookTypesStep
<1>4. QED BY <1>1, <1>2, <1>3, PTL DEF Spec
-----------------------------------------------------------------------------
IdsOf(q) == [i \in DOMAIN q |-> q[i].id]

\* No two entries have one number, and one that has been settled is resolved.
Tidy(q) ==
  /\ \A i, j \in DOMAIN q : q[i].id = q[j].id => i = j
  /\ \A i \in DOMAIN q : q[i].id \in settled => q[i].resolved
  /\ \A i \in DOMAIN q : q[i].id <= appends

\* The number of an entry that is still to be written.
Fresh(id, q) == id <= appends /\ id \notin settled /\ \A i \in DOMAIN q : q[i].id # id

\* While the calls take turns, the one at work writes what it read with its change, so the
\* queue and the history grow together.
TurnInv ==
  ~overlapped =>
    /\ \A c \in Writers : pc[c] # "idle" => call[c] # NoCall /\ val[c] = Result(call[c], queue)
    /\ IdsOf(queue) = LastOf(appended)
    /\ Tidy(queue)
    /\ \A c \in Writers : call[c].op = "append" => Fresh(call[c].entry.id, queue)
    /\ \A c, d \in Writers :
         (/\ call[c].op = "append" /\ call[d].op = "append"
          /\ call[c].entry.id = call[d].entry.id) => c = d
    /\ \A id \in settled : id <= appends

\* Keeping the last entries after each append keeps the last of all that were appended.
LEMMA LastOfTwice ==
  ASSUME NEW S, NEW s \in Seq(S), NEW x \in S
  PROVE  LastOf(Append(LastOf(s), x)) = LastOf(Append(s, x))
<1> DEFINE a == LastOf(s)
           b == Append(a, x)
           l == LastOf(b)
           c == Append(s, x)
           r == LastOf(c)
<1>1. /\ a \in Seq(S) /\ Len(a) = IF Len(s) > Cap THEN Cap ELSE Len(s)
      /\ \A i \in 1..Len(a) : a[i] = s[i + (Len(s) - Len(a))]
  BY LastOfProperties
<1> HIDE DEF a
<1>2. /\ b \in Seq(S) /\ Len(b) = Len(a) + 1 /\ b[Len(a) + 1] = x
      /\ \A i \in 1..Len(a) : b[i] = a[i]
  BY <1>1
<1>3. /\ c \in Seq(S) /\ Len(c) = Len(s) + 1 /\ c[Len(s) + 1] = x
      /\ \A i \in 1..Len(s) : c[i] = s[i]
  OBVIOUS
<1> HIDE DEF b, c
<1>4. /\ l \in Seq(S) /\ Len(l) = IF Len(b) > Cap THEN Cap ELSE Len(b)
      /\ \A i \in 1..Len(l) : l[i] = b[i + (Len(b) - Len(l))]
  BY <1>2, LastOfProperties
<1>5. /\ r \in Seq(S) /\ Len(r) = IF Len(c) > Cap THEN Cap ELSE Len(c)
      /\ \A i \in 1..Len(r) : r[i] = c[i + (Len(c) - Len(r))]
  BY <1>3, LastOfProperties
<1> HIDE DEF l, r
<1>6. Len(s) \in Nat /\ Len(a) \in Nat /\ Len(b) \in Nat /\ Len(c) \in Nat
  BY <1>1, <1>2, <1>3
<1>7. /\ Len(l) = Len(r) /\ Len(l) \in Nat /\ Len(l) <= Len(b) /\ Len(r) <= Len(c)
      /\ Len(c) - Len(b) = Len(s) - Len(a)
  BY <1>1, <1>2, <1>3, <1>4, <1>5, <1>6
<1>8. ASSUME NEW i \in 1..Len(l) PROVE l[i] = r[i]
  <2> DEFINE j == i + (Len(b) - Len(l))
             k == i + (Len(c) - Len(r))
  <2>0. l[i] = b[j] /\ r[i] = c[k]
    BY <1>4, <1>5, <1>7
  <2>1. l[i] = b[j] /\ r[i] = c[k] /\ k = j + (Len(s) - Len(a))
    BY <2>0, <1>6, <1>7
  <2>2. j \in 1..Len(b)
    BY <1>6, <1>7
  <2> HIDE DEF j, k
  <2>20. j \in 1..Len(a) \/ j = Len(a) + 1
    BY <1>2, <1>6, <2>2
  <2>3. CASE j \in 1..Len(a)
    <3>1. b[j] = s[k]
      BY <1>1, <1>2, <2>1, <2>3
    <3>2. k \in 1..Len(s)
      BY <1>1, <1>6, <2>1, <2>3
    <3>3. QED BY <1>3, <2>1, <3>1, <3>2
  <2>4. CASE j = Len(a) + 1
    <3>1. k = Len(s) + 1
      BY <1>6, <2>1, <2>4
    <3>2. QED BY <1>2, <1>3, <2>1, <2>4, <3>1
  <2>5. QED BY <2>20, <2>3, <2>4
<1>9. l = r
  BY <1>4, <1>5, <1>7, <1>8, SeqEqual
<1>10. QED BY <1>9 DEF a, b, c, l, r

\* The numbers of a trimmed queue are the trimmed numbers.
LEMMA IdsOfQueue ==
  ASSUME NEW q \in Seq(Entries)
  PROVE  /\ IdsOf(q) \in Seq(Nat) /\ Len(IdsOf(q)) = Len(q)
         /\ IdsOf(LastOf(q)) = LastOf(IdsOf(q))
         /\ \A e \in Entries : IdsOf(Append(q, e)) = Append(IdsOf(q), e.id)
<1>0. \A e \in Entries : e.id \in Nat
  BY DEF Entries
<1>1. ASSUME NEW p \in Seq(Entries)
      PROVE  /\ IdsOf(p) \in Seq(Nat) /\ Len(IdsOf(p)) = Len(p)
             /\ \A i \in 1..Len(p) : IdsOf(p)[i] = p[i].id
  <2>1. DOMAIN p = 1..Len(p) /\ Len(p) \in Nat /\ \A i \in 1..Len(p) : p[i] \in Entries
    OBVIOUS
  <2>2. IdsOf(p) \in [1..Len(p) -> Nat]
    BY <1>0, <2>1 DEF IdsOf
  <2>3. QED BY <2>1, <2>2 DEF IdsOf
<1>2. IdsOf(LastOf(q)) = LastOf(IdsOf(q))
  <2> DEFINE m == LastOf(q)
             n == LastOf(IdsOf(q))
  <2>1. /\ m \in Seq(Entries) /\ Len(m) = IF Len(q) > Cap THEN Cap ELSE Len(q)
        /\ \A i \in 1..Len(m) : m[i] = q[i + (Len(q) - Len(m))]
    BY LastOfProperties
  <2> DEFINE w == IdsOf(q)
  <2>w. w \in Seq(Nat) /\ Len(w) = Len(q)
    BY <1>1
  <2>n. n = LastOf(w)
    OBVIOUS
  <2> HIDE DEF m, n, w
  <2>2. /\ n \in Seq(Nat) /\ Len(n) = IF Len(q) > Cap THEN Cap ELSE Len(q)
        /\ \A i \in 1..Len(n) : n[i] = w[i + (Len(q) - Len(n))]
    BY <2>w, <2>n, LastOfProperties
  <2>3. \A i \in 1..Len(m) : i + (Len(q) - Len(m)) \in 1..Len(q)
    BY <2>1
  <2>l. Len(m) = Len(n)
    BY <2>1, <2>2
  <2>4. \A i \in 1..Len(m) : IdsOf(m)[i] = n[i]
    <3> SUFFICES ASSUME NEW i \in 1..Len(m) PROVE IdsOf(m)[i] = n[i]
      OBVIOUS
    <3> DEFINE k == i + (Len(q) - Len(m))
    <3>1. k \in 1..Len(q) /\ m[i] = q[k] /\ n[i] = w[k]
      BY <2>1, <2>2, <2>3, <2>l
    <3> HIDE DEF k
    <3>2. IdsOf(m)[i] = m[i].id /\ w[k] = q[k].id
      BY <1>1, <2>1, <3>1 DEF w
    <3>3. QED BY <3>1, <3>2
  <2>5. IdsOf(m) = n
    BY <1>1, <2>1, <2>2, <2>4, <2>l, SeqEqual
  <2>6. QED BY <2>5 DEF m, n, w
<1>3. ASSUME NEW e \in Entries PROVE IdsOf(Append(q, e)) = Append(IdsOf(q), e.id)
  <2> DEFINE a == Append(q, e)
             n == Append(IdsOf(q), e.id)
  <2>1. /\ a \in Seq(Entries) /\ Len(a) = Len(q) + 1 /\ a[Len(q) + 1] = e
        /\ \A i \in 1..Len(q) : a[i] = q[i]
    OBVIOUS
  <2>2. /\ n \in Seq(Nat) /\ Len(n) = Len(q) + 1 /\ n[Len(q) + 1] = e.id
        /\ \A i \in 1..Len(q) : n[i] = IdsOf(q)[i]
    BY <1>0, <1>1
  <2> HIDE DEF a, n
  <2>3. ASSUME NEW i \in 1..Len(a) PROVE IdsOf(a)[i] = n[i]
    <3>1. IdsOf(a)[i] = a[i].id
      BY <1>1, <2>1
    <3>2. CASE i = Len(q) + 1
      BY <2>1, <2>2, <3>1, <3>2
    <3>3. CASE i \in 1..Len(q)
      <4>1. IdsOf(q)[i] = q[i].id
        BY <1>1, <3>3
      <4>2. QED BY <2>1, <2>2, <3>1, <3>3, <4>1
    <3>4. QED BY <2>1, <3>2, <3>3
  <2>4. IdsOf(a) = n
    BY <1>1, <2>1, <2>2, <2>3, SeqEqual
  <2>5. QED BY <2>4 DEF a, n
<1>4. QED BY <1>1, <1>2, <1>3

\* A call that writes what it read with its change leaves the queue tidy, and adds at most
\* its own entry.
LEMMA ResultTidy ==
  ASSUME NEW cl \in Calls, cl # NoCall, NEW q \in Queues, Tidy(q),
         cl.op = "append" => Fresh(cl.entry.id, q)
  PROVE  LET r == Result(cl, q)
         IN  /\ Tidy(r)
             /\ IdsOf(r) = IF cl.op = "append" THEN LastOf(Append(IdsOf(q), cl.entry.id))
                           ELSE IdsOf(q)
             /\ \A i \in DOMAIN r : \/ cl.op = "append" /\ r[i].id = cl.entry.id
                                    \/ \E j \in DOMAIN q : r[i].id = q[j].id
<1> DEFINE r == Result(cl, q)
<1>0. DOMAIN q = 1..Len(q) /\ Len(q) \in Nat /\ \A i \in 1..Len(q) : q[i] \in Entries
  BY QueueElements
<1>1. CASE cl.op = "append"
  <2> DEFINE e == cl.entry
             a == Append(q, e)
  <2>1. e \in Entries /\ Fresh(e.id, q) /\ r = LastOf(a)
    BY <1>1, CallsType DEF Result
  <2>2. q \in Seq(Entries)
    BY DEF Queues
  <2> HIDE DEF e, r
  <2>3. /\ a \in Seq(Entries) /\ Len(a) = Len(q) + 1
        /\ a[Len(q) + 1] = e /\ \A i \in 1..Len(q) : a[i] = q[i]
    BY <2>1, <2>2
  <2>4. IdsOf(r) = LastOf(Append(IdsOf(q), e.id))
    BY <2>1, <2>2, <2>3, IdsOfQueue
  <2> HIDE DEF a
  <2>5. Tidy(a)
    BY <1>0, <2>1, <2>3 DEF Tidy, Fresh
  <2>6. /\ r \in Seq(Entries) /\ Len(r) <= Len(a)
        /\ \A i \in 1..Len(r) : r[i] = a[i + (Len(a) - Len(r))]
    BY <2>1, <2>3, LastOfProperties
  <2>7. DOMAIN r = 1..Len(r) /\ DOMAIN a = 1..Len(a) /\ Len(r) \in Nat /\ Len(a) \in Nat
    BY <2>3, <2>6
  <2> DEFINE shift == Len(a) - Len(r)
  <2>8. \A i \in DOMAIN r : i + shift \in DOMAIN a /\ r[i] = a[i + shift]
    BY <2>6, <2>7
  <2>9. \A i, j \in DOMAIN r : i + shift = j + shift => i = j
    BY <2>7
  <2> HIDE DEF shift
  <2>10. Tidy(r)
    BY <2>5, <2>8, <2>9 DEF Tidy
  <2>11. \A i \in DOMAIN a : a[i].id = e.id \/ \E j \in DOMAIN q : a[i].id = q[j].id
    BY <1>0, <2>3, <2>7
  <2>12. QED BY <1>1, <2>4, <2>8, <2>10, <2>11 DEF r, e
<1>2. CASE cl.op # "append"
  <2>1. r = [i \in DOMAIN q |-> Updated(cl, q[i])]
    BY <1>2 DEF Result
  <2>2. \A i \in DOMAIN q : r[i].id = q[i].id /\ (q[i].resolved => r[i].resolved)
    BY <1>0, <2>1, UpdatedEntry
  <2>3. DOMAIN r = DOMAIN q
    BY <2>1
  <2> HIDE DEF r
  <2>4. Tidy(r)
    BY <2>2, <2>3 DEF Tidy
  <2>5. IdsOf(r) = IdsOf(q)
    BY <2>2, <2>3 DEF IdsOf
  <2>6. QED BY <1>2, <2>2, <2>3, <2>4, <2>5 DEF r
<1>3. QED BY <1>1, <1>2

LEMMA TurnInvInit == Init => TurnInv
<1> SUFFICES ASSUME Init PROVE TurnInv
  OBVIOUS
<1>1. queue = <<>> /\ appended = <<>> /\ settled = {}
  BY DEF Init, FileInit, queue, Read, Missing, Content
<1>2. IdsOf(queue) = LastOf(appended)
  <2>1. DOMAIN <<>> = {} /\ Len(<<>>) = 0
    OBVIOUS
  <2>2. IdsOf(<<>>) = <<>>
    BY <2>1 DEF IdsOf
  <2>3. LastOf(<<>>) = <<>>
    BY <2>1 DEF LastOf
  <2>4. QED BY <1>1, <2>2, <2>3
<1>3. Tidy(queue)
  BY <1>1 DEF Tidy
<1>4. QED BY <1>1, <1>2, <1>3 DEF TurnInv, Init, FileInit, NoCall

\* A step that neither writes through nor starts an append keeps TurnInv.
LEMMA TurnInvFrom ==
  ASSUME TurnInv, ~overlapped, queue' = queue, UNCHANGED <<appends, appended, settled>>,
         \A c \in Writers : call'[c].op = "append" => call'[c] = call[c],
         \A c \in Writers :
           pc'[c] # "idle" => call'[c] # NoCall /\ val'[c] = Result(call'[c], queue)
  PROVE  TurnInv'
<1>1. Tidy(queue)' /\ (\A id \in settled : id <= appends)'
  BY DEF TurnInv, Tidy
<1>2. (\A c \in Writers : call[c].op = "append" => Fresh(call[c].entry.id, queue))'
  BY DEF TurnInv, Fresh
<1>3. (\A c, d \in Writers :
         (/\ call[c].op = "append" /\ call[d].op = "append"
          /\ call[c].entry.id = call[d].entry.id) => c = d)'
  BY DEF TurnInv
<1>4. (IdsOf(queue) = LastOf(appended))'
  BY DEF TurnInv
<1>5. (\A c \in Writers : pc[c] # "idle" => call[c] # NoCall /\ val[c] = Result(call[c], queue))'
  OBVIOUS
<1>6. QED BY <1>1, <1>2, <1>3, <1>4, <1>5 DEF TurnInv

\* Under FileInv a step that installs nothing leaves the queue as it was.
LEMMA QueueStays ==
  ASSUME FileInv, FileInv', ~overlapped, ~overlapped', installed' = installed
  PROVE  queue' = queue
BY DEF FileInv, ReadsLastWritten, queue

LEMMA TurnInvWritten ==
  ASSUME QueueInv, QueueInv', BookTypes, TurnInv, NEW c \in Writers, Written(c), ~overlapped
  PROVE  TurnInv'
<1> DEFINE q == queue
           cl == call[c]
           r == val[c]
<1>0. /\ call \in [Writers -> Calls] /\ cl \in Calls /\ q \in Queues
      /\ call' = [call EXCEPT ![c] = NoCall] /\ appends' = appends /\ overlapped' = overlapped
  BY QueueIsHeld DEF Written, Rename, Ends, QueueInv, CallShape
<1>1. /\ queue' = r /\ r = Result(cl, q) /\ cl # NoCall
      /\ \A d \in Writers : pc'[d] = "idle"
  <2>1. SystemCall(c)
    BY DEF Written, SystemCall
  <2>2. pc[c] # "idle" /\ \A d \in Writers \ {c} : pc'[d] = pc[d]
    BY <2>1, OthersStay DEF QueueInv, FileInv
  <2>3. pc'[c] = "idle"
    BY DEF Written, Rename, Returns, Goto, QueueInv, FileInv, FileShape
  <2>4. \A d \in Writers \ {c} : pc[d] = "idle"
    BY <2>2 DEF QueueInv, FileInv, TakingTurns, Busy
  <2>5. queue' = installed'
    BY <1>0 DEF QueueInv, FileInv, ReadsLastWritten, queue
  <2>6. installed' = r
    BY DEF Written, Rename
  <2>7. QED BY <2>2, <2>3, <2>4, <2>5, <2>6 DEF TurnInv
<1>2. /\ Tidy(q) /\ (cl.op = "append" => Fresh(cl.entry.id, q))
      /\ IdsOf(q) = LastOf(appended)
      /\ \A id \in settled : id <= appends
  BY DEF TurnInv
<1>3. /\ Tidy(r)
      /\ IdsOf(r) = IF cl.op = "append" THEN LastOf(Append(IdsOf(q), cl.entry.id)) ELSE IdsOf(q)
      /\ \A i \in DOMAIN r : \/ cl.op = "append" /\ r[i].id = cl.entry.id
                             \/ \E j \in DOMAIN q : r[i].id = q[j].id
  BY <1>0, <1>1, <1>2, ResultTidy
<1>4. settled' = settled \cup {r[i].id : i \in {i \in DOMAIN r : r[i].resolved}}
  BY DEF Written
<1>5. appended' = IF cl.op = "append" THEN Append(appended, cl.entry.id) ELSE appended
  BY DEF Written
<1>6. IdsOf(r) = LastOf(appended')
  <2>1. CASE cl.op = "append"
    <3>1. appended \in Seq(1..MaxAppends) /\ cl.entry.id \in 1..MaxAppends
      BY <1>0, <2>1, CallsType DEF BookTypes, Entries
    <3>2. LastOf(Append(LastOf(appended), cl.entry.id)) = LastOf(Append(appended, cl.entry.id))
      BY <3>1, LastOfTwice
    <3>3. QED BY <1>2, <1>3, <1>5, <2>1, <3>2
  <2>2. QED BY <1>2, <1>3, <1>5, <2>1
<1> HIDE DEF q, cl, r
<1>7. Tidy(queue)'
  BY <1>0, <1>1, <1>3, <1>4 DEF Tidy
<1>8. (\A id \in settled : id <= appends)'
  BY <1>0, <1>2, <1>3, <1>4 DEF Tidy
<1>9. \A d \in Writers \ {c} : call'[d] = call[d]
  BY <1>0
<1>10. call'[c].op # "append"
  BY <1>0 DEF NoCall
<1>11. (\A d \in Writers : call[d].op = "append" => Fresh(call[d].entry.id, queue))'
  <2> SUFFICES ASSUME NEW d \in Writers \ {c}, call[d].op = "append"
               PROVE  Fresh(call[d].entry.id, queue)'
    BY <1>9, <1>10
  <2>1. Fresh(call[d].entry.id, q) /\ (cl.op = "append" => cl.entry.id # call[d].entry.id)
    BY DEF TurnInv, q, cl
  <2>2. \A i \in DOMAIN r : r[i].id # call[d].entry.id
    BY <1>3, <2>1 DEF Fresh
  <2>3. QED BY <1>0, <1>1, <1>4, <1>9, <2>1, <2>2 DEF Fresh
<1>12. (\A d, e \in Writers :
          (/\ call[d].op = "append" /\ call[e].op = "append"
           /\ call[d].entry.id = call[e].entry.id) => d = e)'
  BY <1>9, <1>10 DEF TurnInv
<1>13. QED BY <1>1, <1>6, <1>7, <1>8, <1>11, <1>12 DEF TurnInv

LEMMA TurnInvStep ==
  ASSUME QueueInv, QueueInv', BookTypes, TurnInv, [Next]_vars
  PROVE  TurnInv'
<1> SUFFICES ASSUME ~overlapped' PROVE TurnInv'
  BY DEF TurnInv
<1> USE DEF QueueInv, CallShape
<1>1. CASE UNCHANGED vars
  <2>1. ~overlapped /\ queue' = queue
    BY <1>1 DEF vars, fileVars, queue, Read
  <2>2. QED BY <1>1, <2>1, TurnInvFrom DEF vars, queueVars, fileVars, TurnInv
<1>2. CASE CooldownElapses
  <2>1. ~overlapped /\ queue' = queue
    BY <1>2 DEF CooldownElapses, fileVars, queue, Read
  <2>2. QED BY <1>2, <2>1, TurnInvFrom DEF CooldownElapses, fileVars, TurnInv
<1>3. CASE Startup
  <2>1. ~overlapped /\ queue' = queue /\ UNCHANGED <<pc, val, queueVars>>
    BY <1>3 DEF Startup, CleanupStaleTempFiles, queue, Read
  <2>2. QED BY <2>1, TurnInvFrom DEF queueVars, TurnInv
<1>4. ASSUME NEW c \in Writers, AppendEscalation(c) PROVE TurnInv'
  <2> DEFINE id == appends + 1
  <2>1. /\ ~overlapped /\ queue' = queue
        /\ UNCHANGED <<pc, val, appended, settled>> /\ appends' = id
    BY <1>4 DEF AppendEscalation, fileVars, queue, Read
  <2>2. PICK t \in Tasks, k \in Classes : Starts(c, AppendOf(Entry(id, t, k)))
    BY <1>4 DEF AppendEscalation
  <2>3. /\ call'[c].op = "append" /\ call'[c].entry.id = id /\ call'[c] # NoCall
        /\ \A d \in Writers \ {c} : call'[d] = call[d]
        /\ call[c] = NoCall
    BY <2>2 DEF Starts, AppendOf, Entry, NoCall
  <2>4. pc[c] = "idle"
    BY <2>1, <2>3 DEF TurnInv
  <2>5. appends \in Nat /\ \A i \in DOMAIN queue : queue[i].id \in Nat
    <3>1. queue \in Queues
      BY QueueIsHeld
    <3>2. QED BY <3>1, QueueElements DEF Entries
  <2>6. settled \subseteq Nat
    BY DEF BookTypes
  <2>a. id \in Nat /\ appends < id /\ id <= id
    BY <2>5
  <2> HIDE DEF id
  <2>b. /\ \A s \in settled : s <= appends
        /\ Tidy(queue)
    BY <2>1 DEF TurnInv
  <2>c. /\ \A s \in settled : s <= id /\ s # id
        /\ \A i \in DOMAIN queue : queue[i].id <= id /\ queue[i].id # id
    BY <2>5, <2>6, <2>a, <2>b DEF Tidy
  <2>d. Tidy(queue)' /\ (\A s \in settled : s <= appends)'
    BY <2>1, <2>b, <2>c DEF Tidy
  <2>7. Fresh(call[c].entry.id, queue)'
    BY <2>1, <2>3, <2>a, <2>c DEF Fresh
  <2>8. \A d \in Writers \ {c} : call[d].op = "append" =>
          Fresh(call[d].entry.id, queue)' /\ call[d].entry.id # id
    <3> SUFFICES ASSUME NEW d \in Writers \ {c}, call[d].op = "append"
                 PROVE  Fresh(call[d].entry.id, queue)' /\ call[d].entry.id # id
      OBVIOUS
    <3>1. call[d].entry.id \in Nat
      BY CallsType DEF Entries
    <3>2. Fresh(call[d].entry.id, queue)
      BY <2>1 DEF TurnInv
    <3>3. call[d].entry.id <= id /\ call[d].entry.id # id
      BY <2>5, <2>a, <3>1, <3>2 DEF Fresh
    <3>4. call'[d].entry.id = call[d].entry.id
      BY <2>3
    <3>5. QED BY <2>1, <3>2, <3>3, <3>4 DEF Fresh
  <2>9. (\A d \in Writers : call[d].op = "append" => Fresh(call[d].entry.id, queue))'
    BY <2>3, <2>7, <2>8
  <2>10. (\A d, e \in Writers :
            (/\ call[d].op = "append" /\ call[e].op = "append"
             /\ call[d].entry.id = call[e].entry.id) => d = e)'
    BY <2>1, <2>3, <2>8 DEF TurnInv
  <2>11. (\A d \in Writers : pc[d] # "idle" => call[d] # NoCall /\ val[d] = Result(call[d], queue))'
    BY <2>1, <2>3, <2>4 DEF TurnInv
  <2>12. (IdsOf(queue) = LastOf(appended))'
    BY <2>1 DEF TurnInv
  <2>13. QED BY <2>d, <2>9, <2>10, <2>11, <2>12 DEF TurnInv
<1>5. ASSUME NEW c \in Writers, ProcessClosures(c) PROVE TurnInv'
  <2>1. ~overlapped /\ queue' = queue /\ UNCHANGED <<pc, val, appends, appended, settled>>
    BY <1>5 DEF ProcessClosures, fileVars, queue, Read
  <2>2. call' = [call EXCEPT ![c] = CloseAll] /\ pc[c] = "idle"
    BY <1>5, <2>1 DEF ProcessClosures, Starts, TurnInv
  <2>3. CloseAll # NoCall /\ CloseAll.op # "append"
    BY DEF CloseAll, NoCall
  <2>4. QED BY <2>1, <2>2, <2>3, TurnInvFrom DEF TurnInv
<1>6. ASSUME NEW c \in Writers, NEW d \in Writers, RecoverTask(c, d) PROVE TurnInv'
  <2>1. ~overlapped /\ queue' = queue /\ UNCHANGED <<pc, val, appends, appended, settled>>
    BY <1>6 DEF RecoverTask, fileVars, queue, Read
  <2>2. PICK t \in Tasks : call' = [call EXCEPT ![c] = ResolveOf(t, "ACCESS_BLOCKED"),
                                                ![d] = ResolveOf(t, "WORKER_ERROR")]
    BY <1>6 DEF RecoverTask
  <2>3. \A k : ResolveOf(t, k) # NoCall /\ ResolveOf(t, k).op # "append"
    BY DEF ResolveOf, NoCall
  <2>4. pc[c] = "idle" /\ pc[d] = "idle"
    BY <1>6, <2>1 DEF RecoverTask, TurnInv
  <2>5. QED BY <2>1, <2>2, <2>3, <2>4, TurnInvFrom DEF TurnInv
<1>7. ASSUME NEW c \in Writers, ReadUnchanged(c) PROVE TurnInv'
  <2>1. ~overlapped /\ queue' = queue /\ UNCHANGED <<pc, val, appends, appended, settled>>
    BY <1>7 DEF ReadUnchanged, fileVars, queue, Read
  <2>2. call' = [call EXCEPT ![c] = NoCall] /\ pc[c] = "idle"
    BY <1>7 DEF ReadUnchanged, Ends
  <2>3. NoCall.op # "append"
    BY DEF NoCall
  <2>4. QED BY <2>1, <2>2, <2>3, TurnInvFrom DEF TurnInv
<1>8. ASSUME NEW c \in Writers, ReadQueue(c) PROVE TurnInv'
  <2>1. ~overlapped /\ Busy = {} /\ queue' = queue /\ UNCHANGED queueVars
    BY <1>8 DEF ReadQueue, WriteJsonAtomic, queue, Read
  <2>2. val'[c] = Result(call[c], queue) /\ call[c] # NoCall
    BY <1>8 DEF ReadQueue, WriteJsonAtomic, FileInv, FileShape
  <2>3. \A d \in Writers \ {c} : pc'[d] = "idle"
    BY <1>8, <2>1 DEF ReadQueue, WriteJsonAtomic, Goto, Busy, FileInv, FileShape
  <2>4. QED BY <2>1, <2>2, <2>3, TurnInvFrom DEF queueVars, TurnInv
<1>9. ASSUME NEW c \in Writers, Writing(c) PROVE TurnInv'
  <2>1. SystemCall(c) /\ UNCHANGED <<installed, val, queueVars>>
    BY <1>9 DEF Writing, SystemCall, OpenTmp, WriteTmp, WriteFails, RenameFails
  <2>2. /\ ~overlapped /\ pc[c] # "idle"
        /\ \A d \in Writers \ {c} : pc'[d] = pc[d]
    BY <2>1, OthersStay DEF FileInv
  <2>3. queue' = queue
    BY <2>1, <2>2, QueueStays
  <2>4. QED BY <2>1, <2>2, <2>3, TurnInvFrom DEF queueVars, TurnInv
<1>10. ASSUME NEW c \in Writers, Written(c) PROVE TurnInv'
  BY <1>10, TurnInvWritten DEF Written, Rename
<1>11. ASSUME NEW c \in Writers, Lost(c) PROVE TurnInv'
  <2>1. SystemCall(c) /\ UNCHANGED <<installed, appends, appended, settled>>
    BY <1>11 DEF Lost, SystemCall, RemoveTmp, Crash
  <2>2. /\ ~overlapped
        /\ \A d \in Writers \ {c} : pc'[d] = pc[d] /\ val'[d] = val[d]
    BY <2>1, OthersStay DEF FileInv
  <2>3. pc'[c] = "idle"
    BY <1>11 DEF Lost, RemoveTmp, Crash, Returns, Goto, FileInv, FileShape
  <2>4. queue' = queue
    BY <2>1, <2>2, QueueStays
  <2>5. call' = [call EXCEPT ![c] = NoCall] /\ NoCall.op # "append"
    BY <1>11 DEF Lost, Ends, NoCall
  <2>6. QED BY <2>1, <2>2, <2>3, <2>4, <2>5, TurnInvFrom DEF TurnInv
<1>12. QED
  BY <1>1, <1>2, <1>3, <1>4, <1>5, <1>6, <1>7, <1>8, <1>9, <1>10, <1>11 DEF Next

LEMMA TurnInvHolds == Spec => [](QueueInv /\ BookTypes /\ TurnInv)
<1>1. Init => QueueInv /\ BookTypes /\ TurnInv
  BY QueueInvInit, BookTypesInit, TurnInvInit
<1>2. QueueInv /\ BookTypes /\ TurnInv /\ [Next]_vars => (QueueInv /\ BookTypes /\ TurnInv)'
  BY QueueInvStep, BookTypesStep, TurnInvStep
<1>3. QED BY <1>1, <1>2, PTL DEF Spec

\* While the calls take turns the queue is the last entries whose append returned appended,
\* through crashes and failed writes, for any cap.
THEOREM NothingLostInTurn == Spec => []KeepsRecent
<1>1. TurnInv => KeepsRecent
  BY DEF TurnInv, KeepsRecent, IdsOf
<1>2. QED BY <1>1, TurnInvHolds, PTL

\* While the calls take turns a settled escalation is never opened again.
THEOREM SettledInTurnHolds == Spec => []SettledInTurn
<1>1. TurnInv => SettledInTurn
  BY DEF TurnInv, SettledInTurn, SettledStaysResolved, Tidy
<1>2. QED BY <1>1, TurnInvHolds, PTL
=============================================================================
