---------------------------- MODULE WorkerAttempts ----------------------------
(***************************************************************************)
(* How a worker batch is tried: the dispatch of one batch with its         *)
(* transient retries (dispatchWorker and the batch loop of                 *)
(* src/src/core/orchestrator.ts), the worker conversation with its checks  *)
(* and reworks (src/src/core/worker_runner.ts, verification_gate.ts), and  *)
(* the escalations that the one leaves and the other reads                 *)
(* (escalation_queue.ts).                                                  *)
(*                                                                         *)
(* A model call is one step with any answer.  A queue call is atomic here; *)
(* EscalationQueue has its reads and writes.  Only unresolved entries are  *)
(* kept, and neither the cap of the queue nor the closures, which concern  *)
(* two fixed tasks, are in it.                                             *)
(***************************************************************************)
EXTENDS Naturals, FiniteSets

CONSTANTS
  Roles,          \* worker roles
  ImplementationWorker,
  ExemptRoles,    \* roles whose verification profile is exempt from everything
  N,              \* batches of a plan set
  RoleOf,         \* RoleOf[b]: the role of batch b
  Merge,          \* batches whose task kind produces a merge
  Named,          \* batches whose verification names a test
  MaxRework,      \* config.runtime.maxReworkAttempts
  MaxTransient,   \* MAX_TRANSIENT_RETRIES
  MaxAlarms       \* bound: entries appended

Batches == 1..N

ASSUME RolesAssumption ==
  ImplementationWorker \in Roles /\ ExemptRoles \subseteq Roles
ASSUME BatchesAssumption ==
  N \in Nat /\ RoleOf \in [Batches -> Roles] /\ Merge \subseteq Batches /\ Named \subseteq Batches
ASSUME LimitsAssumption ==
  MaxRework \in Nat /\ MaxTransient \in Nat /\ MaxAlarms \in Nat

\* What an accepted answer must hold: the closure fields, the artifact of a merge
\* (SHA, test output, clean tree), the test named by the plan, the report.
Evidence == {"closure", "artifact", "proof", "report"}

Classes == {"ACCESS_BLOCKED", "WORKER_ERROR", "POLICY_VIOLATION", "MAX_REWORK_EXHAUSTED"}

\* "denied" is a block whose reason the batch loop fails close on.
Statuses == {"done", "partial", "blocked", "denied", "skipped", "error"}
Answers ==
  {a \in [status : Statuses,
          access : {"open", "api", "denied"},     \* what BOX_ACCESS says is blocked
          lacks : SUBSET Evidence,
          files : {"allowed", "protected", "forbidden"},
          deferral : BOOLEAN] :                   \* a red PR blamed on upstream
     /\ a.status # "done" => a.lacks = {}
     /\ a.status = "denied" => a.access = "open" /\ a.files = "allowed"
     /\ a.deferral => a.status \in {"partial", "blocked"} /\ a.access = "open"}

\* What an escalation is kept under: the role and the beginning of the task's text.
\* That of a rework names the attempt and the first gap.
ReworkTexts == (1..MaxRework) \X Evidence
Bundle == <<0, "bundle">>
Texts == {Bundle} \cup ReworkTexts
Entries == [role : Roles, text : Texts, class : Classes, hot : BOOLEAN]

NoInstruction == [role |-> ImplementationWorker, attempt |-> 0, text |-> Bundle,
                  merge |-> FALSE, named |-> FALSE]

VARIABLES
  contract,     \* config.runtime.requireTaskContract
  done,         \* batches of the plan set that count as completed
  closed,       \* its checkpoint is failed_closed
  pc,           \* "idle", "session": a worker runs, "returned"
  instruction,  \* of the session
  tries,        \* transientRetries
  result,       \* status the conversation returned
  shown,        \* history: evidence that the last answer lacked
  open,         \* unresolved entries of the queue
  alarms        \* entries appended

loop == <<done, closed, tries>>
session == <<instruction, result, shown>>
queue == <<open, alarms>>
vars == <<contract, done, closed, pc, instruction, tries, result, shown, open, alarms>>

TypeOK ==
  /\ contract \in BOOLEAN
  /\ done \in 0..N /\ closed \in BOOLEAN
  /\ pc \in {"idle", "session", "returned"}
  /\ instruction \in [role : Roles, attempt : 0..MaxRework, text : Texts,
                      merge : BOOLEAN, named : BOOLEAN]
  /\ tries \in 0..MaxTransient
  /\ result \in Statuses \cup {"none", "transient_error"}
  /\ shown \subseteq Evidence
  /\ open \subseteq Entries /\ alarms \in 0..MaxAlarms

Init ==
  /\ contract \in BOOLEAN
  /\ done = 0 /\ closed = FALSE /\ pc = "idle"
  /\ instruction = NoInstruction /\ tries = 0
  /\ result = "none" /\ shown = {}
  /\ open = {} /\ alarms = 0

-----------------------------------------------------------------------------
(***************************************************************************)
(* The queue.                                                              *)
(***************************************************************************)

\* Mutant: the fingerprint tells the first batch from the others.
TextOfBatch(b) == IF b = 1 THEN <<0, "first bundle">> ELSE Bundle

\* buildDispatchTaskText puts 268 characters before the first step of a bundle, and
\* computeTaskFingerprint hashes the first 200.
TextOf(b) == Bundle

Known(q, i) == \E e \in q : e.role = i.role /\ e.text = i.text /\ e.hot

\* appendEscalation: not while one of the same fingerprint, of whatever class, is
\* open and younger than the cooldown.
Appended(q, i, class) ==
  IF Known(q, i) THEN q
  ELSE q \cup {[role |-> i.role, text |-> i.text, class |-> class, hot |-> TRUE]}

Raise(q, i, class) ==
  /\ Known(q, i) \/ alarms < MaxAlarms
  /\ open' = Appended(q, i, class)
  /\ alarms' = IF Known(q, i) THEN alarms ELSE alarms + 1

Recoverable == {"ACCESS_BLOCKED", "WORKER_ERROR"}

\* Mutant: a recovery settles the entries of every role.
MatchesAnyRole(q, i, class) == {e \in q : e.text = i.text /\ e.class = class}
Matches(q, i, class) == {e \in q : e.role = i.role /\ e.text = i.text /\ e.class = class}

\* resolveEscalationsForTask is called once per class and neither call is awaited:
\* when both have something to write, one may undo the other.
Recovered(q, i) ==
  LET some == {c \in Recoverable : Matches(q, i, c) # {}}
      lost == IF some = Recoverable THEN {{}, {"ACCESS_BLOCKED"}, {"WORKER_ERROR"}} ELSE {{}}
  IN  {q \ UNION {Matches(q, i, c) : c \in Recoverable \ l} : l \in lost}

CooldownElapses ==
  /\ \E e \in open : e.hot /\ open' = (open \ {e}) \cup {[e EXCEPT !.hot = FALSE]}
  /\ UNCHANGED <<contract, loop, pc, session, alarms>>

-----------------------------------------------------------------------------
(***************************************************************************)
(* The batch loop.                                                         *)
(***************************************************************************)

AccessBlocked(r) == \E e \in open : e.role = r /\ e.class = "ACCESS_BLOCKED"

\* resolveRoleWithAccessFallback
Target(b) ==
  IF RoleOf[b] # ImplementationWorker /\ AccessBlocked(RoleOf[b])
  THEN ImplementationWorker ELSE RoleOf[b]

First(b) == [role |-> Target(b), attempt |-> 0, text |-> TextOf(b),
             merge |-> b \in Merge, named |-> b \in Named]

Dispatch ==
  /\ pc = "idle" /\ ~closed /\ done < N
  /\ pc' = "session" /\ instruction' = First(done + 1)
  /\ tries' = 0
  /\ UNCHANGED <<contract, done, closed, result, shown, queue>>

\* The expected gain of a retry decides; it is never enough beyond the limit. The
\* whole batch is dispatched again, to the role of now, with a new rework budget.
RetryTransient ==
  /\ pc = "returned" /\ result = "transient_error" /\ tries < MaxTransient
  /\ pc' = "session" /\ instruction' = First(done + 1)
  /\ tries' = tries + 1
  /\ result' = "none" /\ shown' = {}
  /\ UNCHANGED <<contract, done, closed, queue>>

Returns ==
  /\ pc = "returned"
  /\ pc' = "idle" /\ instruction' = NoInstruction /\ tries' = 0
  /\ result' = "none" /\ shown' = {}
  /\ UNCHANGED <<contract, queue>>

\* isAnalyticsCompletedWorkerStatus
Completed == {"done", "skipped"}

Advance ==
  /\ Returns
  /\ result \in Completed
  /\ done' = done + 1 /\ UNCHANGED closed

\* The checkpoint is not advanced: the main loop dispatches the batch again.
LeaveForRetry ==
  /\ Returns
  /\ result \notin Completed \cup {"denied"}
  /\ UNCHANGED <<done, closed>>

FailClose ==
  /\ Returns
  /\ result = "denied"
  /\ closed' = TRUE /\ UNCHANGED done

NextPlanSet ==
  /\ pc = "idle" /\ (done = N \/ closed)
  /\ done' = 0 /\ closed' = FALSE
  /\ UNCHANGED <<contract, pc, tries, session, queue>>

\* The process dies; what counts as completed and the queue are on disk.
Crash ==
  /\ pc # "idle"
  /\ pc' = "idle" /\ instruction' = NoInstruction /\ tries' = 0
  /\ result' = "none" /\ shown' = {}
  /\ UNCHANGED <<contract, done, closed, queue>>

-----------------------------------------------------------------------------
(***************************************************************************)
(* One conversation with a worker.                                         *)
(***************************************************************************)

Ends(status, lacks) ==
  /\ pc' = "returned" /\ result' = status /\ shown' = lacks
  /\ UNCHANGED <<contract, loop, instruction>>

\* A capability, a guard or the agent's profile refuses the instruction before a
\* process is started, or the conversation throws, which the batch loop catches.
Refused ==
  /\ pc = "session"
  /\ \E status \in {"blocked", "error"} : Ends(status, {})
  /\ UNCHANGED queue

\* The process exits with an error, on its timeout or by the circuit breaker.
SessionFails ==
  /\ pc = "session"
  /\ \E status \in {"error", "transient_error"} : Ends(status, {})
  /\ Raise(open, instruction, "WORKER_ERROR")

IsBlocked(status) == status \in {"blocked", "denied"}

\* parseWorkerResponse
Parsed(a) ==
  IF a.access # "open" /\ a.status # "skipped" THEN "blocked" ELSE a.status

\* The closure fields, and the block that is only about the API.
Softened(a) ==
  IF \/ Parsed(a) = "done" /\ "closure" \in a.lacks
     \/ IsBlocked(Parsed(a)) /\ a.access = "api"
  THEN "partial" ELSE Parsed(a)

\* Protected paths and the paths of the role.
Guarded(a) ==
  IF a.files = "forbidden" THEN "blocked"
  ELSE IF a.files = "protected" /\ Softened(a) = "done" THEN "partial" ELSE Softened(a)

\* shouldResolveRecoveredWorkerEscalations
Recovers(a) == Guarded(a) \notin {"blocked", "denied", "error"}

\* Mutant: an attempt too many.
PastLastAttempt(i) == i.attempt > MaxRework
LastAttempt(i) == i.attempt >= MaxRework

Owned(a, i) ==
  IF a.deferral THEN IF LastAttempt(i) THEN "blocked" ELSE "partial" ELSE Guarded(a)

\* isArtifactGateRequired
ArtifactDue(i) == i.role \notin ExemptRoles /\ i.merge

\* The artifact gate leaves to the verification gate what can be reworked.
Gated(a, i) ==
  IF /\ Owned(a, i) = "done" /\ ArtifactDue(i) /\ "artifact" \in a.lacks
     /\ LastAttempt(i) \/ ~contract
  THEN "blocked" ELSE Owned(a, i)

\* Mutant: the artifact is left to the artifact gate.
GapsOfReport(a, i) == {e \in a.lacks : i.role \notin ExemptRoles /\ e = "report"}

\* validateWorkerContract
Gaps(a, i) ==
  {e \in a.lacks : /\ i.role \notin ExemptRoles
                  /\ \/ e = "report"
                     \/ e = "artifact" /\ i.merge
                     \/ e = "proof" /\ i.named}

FirstGap(gaps) ==
  IF "artifact" \in gaps THEN "artifact" ELSE IF "proof" \in gaps THEN "proof" ELSE "report"

Fails(a, i) == contract /\ Gated(a, i) = "done" /\ Gaps(a, i) # {}

\* The queue when the gates are reached: what the answer raised or settled.
\* Calls that raise exclude those that settle.
Reported(a, i) ==
  IF IsBlocked(Softened(a)) /\ a.access # "open" THEN Raise(open, i, "ACCESS_BLOCKED")
  ELSE IF a.files = "forbidden" THEN Raise(open, i, "POLICY_VIOLATION")
  ELSE IF Recovers(a) THEN open' \in Recovered(open, i) /\ UNCHANGED alarms
  ELSE UNCHANGED queue

\* The verification gate has nothing to object, or is not asked.
Accepted ==
  /\ pc = "session"
  /\ \E a \in Answers :
       /\ ~Fails(a, instruction)
       /\ Ends(Gated(a, instruction), a.lacks)
       /\ Reported(a, instruction)

\* decideRework and buildReworkInstruction: the new instruction has the original
\* text for reference only, and neither its kind nor its verification.
Reworked(i, gaps) ==
  [role |-> i.role, attempt |-> i.attempt + 1, text |-> <<i.attempt + 1, FirstGap(gaps)>>,
   merge |-> TRUE, named |-> FALSE]

Rework ==
  /\ pc = "session"
  /\ \E a \in Answers :
       /\ Fails(a, instruction) /\ ~LastAttempt(instruction)
       /\ instruction' = Reworked(instruction, Gaps(a, instruction))
       /\ Reported(a, instruction)
  /\ UNCHANGED <<contract, loop, pc, result, shown>>

Exhausted ==
  /\ pc = "session"
  /\ \E a \in Answers :
       /\ Fails(a, instruction) /\ LastAttempt(instruction)
       /\ Ends("blocked", a.lacks)
       /\ \E q \in Recovered(open, instruction) :
            Raise(q, instruction, "MAX_REWORK_EXHAUSTED")

-----------------------------------------------------------------------------

Next ==
  \/ Dispatch \/ RetryTransient \/ Advance \/ LeaveForRetry \/ FailClose
  \/ NextPlanSet \/ Crash \/ CooldownElapses
  \/ Refused \/ SessionFails \/ Accepted \/ Rework \/ Exhausted

Spec == Init /\ [][Next]_vars

-----------------------------------------------------------------------------
(***************************************************************************)
(* Properties.                                                             *)
(***************************************************************************)

\* A conversation that returns "done" has shown, in its last answer, everything its
\* role owes for its kind of task: each gate that lets an answer through relies on
\* another one to refuse it.  The test that the plan names is owed on the first
\* attempt only, and after a rework an artifact is owed whatever the kind.
Owes(i) ==
  {e \in Evidence :
     \/ e = "closure"
     \/ /\ i.role \notin ExemptRoles
        /\ \/ e = "artifact" /\ i.merge
           \/ e = "report" /\ contract
           \/ e = "proof" /\ contract /\ i.named}

DoneIsVerified ==
  pc = "returned" /\ result = "done" => Owes(instruction) \cap shown = {}

\* A role that once reported its access as blocked gets no session again, whatever
\* its substitute finishes: an entry is settled under the role that ran, and that
\* is no longer this one (resolveRoleWithAccessFallback, resolveEscalationsForTask).
Runs(r) == pc = "session" /\ instruction.role = r

RerouteSticks ==
  [][\A r \in Roles \ {ImplementationWorker} :
       AccessBlocked(r) => AccessBlocked(r)' /\ ~Runs(r)']_vars

\* Within the cooldown a role has one open alarm for all its first attempts: the
\* one that comes first, of whatever batch and class, is the only one kept
\* (buildDispatchTaskText, computeTaskFingerprint).
OneAlarmPerRole ==
  \A e, f \in open :
    e.hot /\ f.hot /\ e.role = f.role /\ {e.text, f.text} \cap ReworkTexts = {} => e = f
=============================================================================
