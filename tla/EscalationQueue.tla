--------------------------- MODULE EscalationQueue ---------------------------
(***************************************************************************)
(* The escalation queue (src/src/core/escalation_queue.ts) in its file.    *)
(* Workers append and resolve without waiting                              *)
(* (src/src/core/worker_runner.ts), the main loop closes; each call reads  *)
(* the whole file, changes its copy and writes the whole file back, with   *)
(* no lock.                                                                *)
(*                                                                         *)
(* A task stands for its fingerprint.  Entries are numbered in the order   *)
(* of createdAt; those up to coldUpTo are older than the cooldown.         *)
(***************************************************************************)
EXTENDS StateFile, Sequences

CONSTANTS
  Tasks,      \* (role, task) fingerprints
  Classes,    \* blocking reason classes met
  Forced,     \* those of ESCALATION_FORCE_RESOLVE_FINGERPRINTS
  Cap,        \* entries kept (500 in the code)
  MaxAppends  \* bound

\* BLOCKING_REASON_CLASS
AllClasses == {"MAX_REWORK_EXHAUSTED", "POLICY_VIOLATION", "ACCESS_BLOCKED",
               "WORKER_ERROR", "VERIFICATION_GATE"}

ASSUME ClassesAssumption == Classes \subseteq AllClasses
ASSUME ForcedAssumption == Forced \subseteq Tasks
ASSUME FallbackAssumption == Fallback = <<>>
ASSUME CountsAssumption == Cap \in Nat \ {0} /\ MaxAppends \in Nat

VARIABLES
  call,      \* call[c]: what the call c does; c is a writer of the file
  coldUpTo,
  appends,   \* entries built so far
  appended,  \* history: entries whose append returned appended, in that order
  settled    \* history: entries that a call has written as resolved

queueVars == <<call, coldUpTo, appends, appended, settled>>
vars == <<fileVars, queueVars>>

queue == Read

Entry(id, t, k) == [id |-> id, task |-> t, class |-> k, resolved |-> FALSE,
                    reassign |-> FALSE]
NoCall == [op |-> "none"]
AppendOf(e) == [op |-> "append", entry |-> e]
ResolveOf(t, k) == [op |-> "resolve", task |-> t, class |-> k]
CloseAll == [op |-> "close"]

\* Mutant: slice takes one entry too many.
LastOfOneMore(q) == IF Len(q) > Cap THEN SubSeq(q, Len(q) - Cap, Len(q)) ELSE q
LastOf(q) == IF Len(q) > Cap THEN SubSeq(q, Len(q) - Cap + 1, Len(q)) ELSE q

Init ==
  /\ FileInit
  /\ call = [c \in Writers |-> NoCall]
  /\ coldUpTo = 0 /\ appends = 0 /\ appended = <<>> /\ settled = {}

Starts(c, op) == call[c] = NoCall /\ call' = [call EXCEPT ![c] = op]

AppendEscalation(c) ==
  /\ appends < MaxAppends
  /\ \E t \in Tasks, k \in Classes : Starts(c, AppendOf(Entry(appends + 1, t, k)))
  /\ appends' = appends + 1
  /\ UNCHANGED <<fileVars, coldUpTo, appended, settled>>

\* A worker's task recovers: two resolves are started together.
RecoverTask(c, d) ==
  /\ c # d /\ call[c] = NoCall /\ call[d] = NoCall
  /\ \E t \in Tasks :
       call' = [call EXCEPT ![c] = ResolveOf(t, "ACCESS_BLOCKED"),
                            ![d] = ResolveOf(t, "WORKER_ERROR")]
  /\ UNCHANGED <<fileVars, coldUpTo, appends, appended, settled>>

\* The main loop waits for it, so there is one at a time.
ProcessClosures(c) ==
  /\ \A d \in Writers : call[d] # CloseAll
  /\ Starts(c, CloseAll)
  /\ UNCHANGED <<fileVars, coldUpTo, appends, appended, settled>>

CooldownElapses ==
  /\ coldUpTo < appends
  /\ coldUpTo' = coldUpTo + 1
  /\ UNCHANGED <<fileVars, call, appends, appended, settled>>

IsDuplicate(e, q) ==
  \E i \in DOMAIN q : ~q[i].resolved /\ q[i].task = e.task /\ q[i].id > coldUpTo

Resolves(cl, e) ==
  /\ ~e.resolved
  /\ \/ cl.op = "resolve" /\ e.task = cl.task /\ e.class = cl.class
     \/ cl.op = "close" /\ e.task \in Forced
Reassigns(cl, e) ==
  cl.op = "close" /\ ~e.resolved /\ e.class = "MAX_REWORK_EXHAUSTED" /\ ~e.reassign

\* Whether the call has something to write.
Changes(cl, q) ==
  IF cl.op = "append" THEN ~IsDuplicate(cl.entry, q)
  ELSE \E i \in DOMAIN q : Resolves(cl, q[i]) \/ Reassigns(cl, q[i])

\* The entry as the call leaves it.
Updated(cl, e) ==
  [e EXCEPT !.resolved = @ \/ Resolves(cl, e), !.reassign = @ \/ Reassigns(cl, e)]

\* Mutant: the cap keeps the oldest entries.
ResultKeepingOldest(cl, q) ==
  IF cl.op = "append"
  THEN LET r == Append(q, cl.entry) IN SubSeq(r, 1, IF Len(r) > Cap THEN Cap ELSE Len(r))
  ELSE [i \in DOMAIN q |-> Updated(cl, q[i])]

\* What the call writes, from what it has read.
Result(cl, q) ==
  IF cl.op = "append" THEN LastOf(Append(q, cl.entry))
  ELSE [i \in DOMAIN q |-> Updated(cl, q[i])]

Ends(c) == call' = [call EXCEPT ![c] = NoCall]

\* Nothing to do: a duplicate within the cooldown, or no matching entry.
ReadUnchanged(c) ==
  /\ call[c] # NoCall /\ pc[c] = "idle"
  /\ ~Changes(call[c], queue)
  /\ Ends(c)
  /\ UNCHANGED <<fileVars, coldUpTo, appends, appended, settled>>

\* The copy is read, changed and handed to writeJson.
ReadQueue(c) ==
  /\ call[c] # NoCall
  /\ Changes(call[c], queue)
  /\ WriteJsonAtomic(c, Result(call[c], queue))
  /\ UNCHANGED queueVars

Writing(c) ==
  /\ OpenTmp(c) \/ WriteTmp(c) \/ WriteFails(c) \/ RenameFails(c)
  /\ UNCHANGED queueVars

\* The write went through: the call returns.
Written(c) ==
  /\ Rename(c)
  /\ appended' = IF call[c].op = "append" THEN Append(appended, call[c].entry.id)
                 ELSE appended
  /\ settled' = settled \cup {e.id : e \in {val[c][i] : i \in {i \in DOMAIN val[c] :
                                                           val[c][i].resolved}}}
  /\ Ends(c)
  /\ UNCHANGED <<coldUpTo, appends>>

\* writeJson throws, which the worker ignores, or the process ends.
Lost(c) ==
  /\ RemoveTmp(c) \/ Crash(c)
  /\ Ends(c)
  /\ UNCHANGED <<coldUpTo, appends, appended, settled>>

Startup == CleanupStaleTempFiles /\ UNCHANGED queueVars

Next ==
  \/ CooldownElapses \/ Startup
  \/ \E c \in Writers :
       \/ AppendEscalation(c) \/ ProcessClosures(c)
       \/ ReadUnchanged(c) \/ ReadQueue(c) \/ Writing(c) \/ Written(c) \/ Lost(c)
       \/ \E d \in Writers : RecoverTask(c, d)

Spec == Init /\ [][Next]_vars
-----------------------------------------------------------------------------
Entries == [id : 1..MaxAppends, task : Tasks, class : Classes, resolved : BOOLEAN,
            reassign : BOOLEAN]

Queues == {q \in Seq(Entries) : Len(q) <= Cap}

\* Values must be Queues.
TypeOK ==
  /\ \A q \in {file.value, tmp.value, installed} \cup {val[c] : c \in Writers} : q \in Queues
  /\ \A f \in {file, tmp} : f.state \in {"missing", "empty", "torn", "whole"}
  /\ pc \in [Writers -> {"idle", "open", "write", "rename", "cleanup"}]
  /\ fd \in [Writers -> {"none", "tmp", "file", "gone"}]
  /\ \A c \in Writers :
       \/ call[c] \in {NoCall, CloseAll}
       \/ \E t \in Tasks, k \in AllClasses : call[c] = ResolveOf(t, k)
       \/ \E e \in Entries : call[c] = AppendOf(e)
  /\ coldUpTo \in 0..appends /\ appends \in 0..MaxAppends
  /\ appended \in Seq(1..MaxAppends) /\ settled \subseteq 1..MaxAppends
  /\ faults \in 0..MaxFaults /\ overlapped \in BOOLEAN

\* Within the cooldown a task has at most one open entry, however appends, resolves and
\* closures overlap and whatever updates they lose.
OneOpenPerTask ==
  \A i, j \in DOMAIN queue :
    (/\ queue[i].task = queue[j].task
     /\ ~queue[i].resolved /\ ~queue[j].resolved
     /\ queue[i].id > coldUpTo /\ queue[j].id > coldUpTo) => i = j

\* While calls take turns the queue holds the last entries whose append returned
\* appended, in order: none is lost but by the cap.
KeepsRecent ==
  ~overlapped => [i \in DOMAIN queue |-> queue[i].id] = LastOf(appended)

\* An escalation that was written as resolved stays resolved.
SettledStaysResolved ==
  \A i \in DOMAIN queue : queue[i].id \in settled => queue[i].resolved

\* While calls take turns it does.
SettledInTurn == ~overlapped => SettledStaysResolved
=============================================================================
