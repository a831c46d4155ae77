-------------------------- MODULE DispatchCheckpoint --------------------------
(***************************************************************************)
(* The orchestrator's main loop, its worker dispatch and the dispatch      *)
(* checkpoint (src/src/core/orchestrator.ts), with crashes, restarts, stop *)
(* requests and the `resume` and `once` commands.                          *)
(*                                                                         *)
(* One orchestrator process runs at a time (DaemonLifecycle is about when  *)
(* that is so).  Its in-memory checkpoint object is written to disk before *)
(* every await that follows an assignment to it, so one variable, ckpt,    *)
(* stands for both; a crash, or an exception, loses what is in memory.     *)
(* One target session stays active throughout.  A plan set is a number, its worker    *)
(* batches the numbers 1..Batches[p].                                      *)
(***************************************************************************)
EXTENDS Integers

CONSTANTS
  MaxPlans,            \* bound: plan sets the planner may produce
  Batches,             \* Batches[p]: worker batches of plan set p
  SpanBatches,         \* runtime.runSegmentBatchSpan
  MaxTransientRetries, \* MAX_TRANSIENT_RETRIES
  MaxCrashes,          \* bound: crashes of the process and exceptions caught
  MaxStops             \* bound: stop requests

Plans == 1..MaxPlans

ASSUME PlansAssumption == MaxPlans \in Nat \ {0}
ASSUME BatchesAssumption == Batches \in [Plans -> Nat \ {0}]
ASSUME SpanAssumption == SpanBatches \in Nat \ {0}
ASSUME BoundsAssumption ==
  MaxTransientRetries \in Nat /\ MaxCrashes \in Nat /\ MaxStops \in Nat

VARIABLES
  \* on disk
  ckpt,       \* dispatch_checkpoint.json
  session,    \* the worker session of worker_cycle_artifacts.json
  stop,       \* daemon.stop.json exists
  escalated,  \* janus_escalation.json holds a request
  latest,     \* plan set of prometheus_analysis.json, 0 when there is none
  review,     \* plan set athena_plan_review.json approves, 0 when none
  \* the process
  proc,       \* which command it runs
  pc,
  inside,     \* the try block of the main loop that its call is in, or what
              \* an exception did: see LoopEscalation and LoopResume
  idx,        \* batch of the dispatch loop
  tries,      \* transientRetries
  result,     \* workerResult, as the dispatch loop classifies it
  \* history
  done,       \* done[p]: batches of p a worker reported successful
  waived,     \* plan sets the stale-artifact fastpath found already closed
  acked,      \* acked[p]: most batches of p a checkpoint ever recorded
  restarted,  \* plan sets whose ledger `resume` restarted from batch 1
  posted,     \* plan sets whose post-completion work ran
  crashes, stops

disk == <<ckpt, session, stop, escalated, latest, review>>
process == <<proc, pc, inside, idx, tries, result>>
history == <<done, waived, acked, restarted, posted>>
bounds == <<crashes, stops>>
vars == <<disk, process, history, bounds>>

NoCkpt == [plan |-> 0, total |-> 0, completed |-> 0, status |-> "none",
           signed |-> "none", segment |-> 0]
\* left says who left a session working: "dead", a process that daemon.pid.json
\* is younger than, or "thrown", this one, by an exception.
Idle == [status |-> "idle", batch |-> 0, left |-> "no"]

Capped(a, b) == IF a < b THEN a ELSE b

(***************************************************************************)
(* Run segments: consecutive groups of SpanBatches batches.                *)
(***************************************************************************)
SegmentFirst(s) == (s - 1) * SpanBatches + 1
SegmentLast(s, total) == Capped(total, s * SpanBatches)

\* Mutant: the segment is that of the last batch done, not of the next.
NextSegmentLagging(s, completed, total) ==
  LET reached == Capped(completed \div SpanBatches,
                        (total + SpanBatches - 1) \div SpanBatches)
  IN  IF reached <= s THEN s ELSE reached

\* applyRunSegmentRollover: the segment never moves back, nor past the last.
NextSegment(s, completed, total) ==
  LET reached == Capped((completed \div SpanBatches) + 1,
                        (total + SpanBatches - 1) \div SpanBatches)
  IN  IF reached <= s THEN s ELSE reached

(***************************************************************************)
(* The checkpoint.                                                         *)
(***************************************************************************)

\* planSetSignature is computed over the array beginDispatchCheckpoint is
\* given: worker batches from a dispatch, plans from the closure fastpath.
\* Only the latter compares equal to the signature of the plan set.
NewCheckpoint(p, signed) ==
  [plan |-> p, total |-> Batches[p], completed |-> 0, status |-> "dispatching",
   signed |-> signed, segment |-> 1]

\* Mutant: counts the batch about to run as well.
AdvancedTooFar(c, completed) ==
  [c EXCEPT !.completed = Capped(completed + 1, c.total),
            !.segment = NextSegment(@, Capped(completed, c.total), c.total)]

Advanced(c, completed) ==
  [c EXCEPT !.completed = Capped(completed, c.total),
            !.segment = NextSegment(@, Capped(completed, c.total), c.total)]

\* Mutant: a status no reader knows.
CompletedMisspelt(c) == [c EXCEPT !.completed = c.total, !.status = "completed"]

Completed(c) == [c EXCEPT !.completed = c.total, !.status = "complete"]

Failed(c) == [c EXCEPT !.status = "failed_closed"]

Resumable(c) ==
  c.status = "dispatching" /\ c.total > 0 /\ c.completed < c.total

MatchesPlanSet(c, p) == c.plan = p /\ c.signed = "plans"

\* countCompletedPlans: without a matching checkpoint the per-role worker files
\* decide, and it looks for worker_<role>.json with the hyphen that every role
\* name of the registry has and roleToWorkerStateFile replaces: no file is found
\* and every plan counts as pending.
Pending == ~(MatchesPlanSet(ckpt, latest) /\ ckpt.status = "complete")

(***************************************************************************)
(* Worker sessions.                                                        *)
(***************************************************************************)

\* recoverStaleWorkerSessions: a working session goes idle when it is older than
\* the daemon, or when its batch is one the interrupted checkpoint completed.
Recovered ==
  IF session.left = "dead" \/ (Resumable(ckpt) /\ session.batch <= ckpt.completed)
  THEN Idle ELSE session

ActiveWorkers == Recovered.status = "working"

(***************************************************************************)
(* Control: a call that returns ends up in the main loop of the daemon, or *)
(* at the end of a one-shot command.                                       *)
(***************************************************************************)
At(l) == pc = l
Goto(l) == pc' = l /\ UNCHANGED <<proc, inside>>
Enter(l, block) ==
  /\ pc' = l /\ inside' = block /\ idx' = 0 /\ tries' = 0 /\ result' = "none"
  /\ UNCHANGED proc
Exit == pc' = "down" /\ proc' = "none" /\ inside' = "none"
Return ==
  \/ proc = "daemon" /\ Goto("loop")
  \/ proc # "daemon" /\ Exit

Init ==
  /\ ckpt = NoCkpt /\ session = Idle /\ stop = FALSE /\ escalated = FALSE
  /\ latest = 0 /\ review = 0
  /\ proc = "none" /\ pc = "down" /\ inside = "none"
  /\ idx = 0 /\ tries = 0 /\ result = "none"
  /\ done = [p \in Plans |-> {}] /\ waived = {}
  /\ acked = [p \in Plans |-> 0] /\ restarted = {} /\ posted = {}
  /\ crashes = 0 /\ stops = 0

(***************************************************************************)
(* Commands.                                                               *)
(***************************************************************************)

\* `start`: clears a stop request, then runDaemon; daemon.pid.json gets a new
\* startedAt, which every session on disk predates.
StartDaemon ==
  /\ At("down")
  /\ pc' = "wait" /\ proc' = "daemon"
  /\ stop' = FALSE
  /\ session' = [session EXCEPT !.left = IF session.status = "working" THEN "dead" ELSE @]
  /\ UNCHANGED <<ckpt, escalated, latest, review, inside, idx, tries, result,
                 history, bounds>>

\* `resume`: runResumeDispatch.
StartResume ==
  /\ At("down")
  /\ pc' = "resume" /\ proc' = "resume"
  /\ UNCHANGED <<disk, inside, idx, tries, result, history, bounds>>

\* `once`: clears a stop request, then one full cycle.
StartOnce ==
  /\ At("down")
  /\ pc' = "plan" /\ proc' = "once"
  /\ stop' = FALSE
  /\ UNCHANGED <<ckpt, session, escalated, latest, review, inside, idx, tries, result,
                 history, bounds>>

RequestStop ==
  /\ stops < MaxStops
  /\ ~At("down")
  /\ stop' = TRUE /\ stops' = stops + 1
  /\ UNCHANGED <<ckpt, session, escalated, latest, review, process, history, crashes>>

\* A worker asks Janus for a new strategy.
RequestEscalation ==
  /\ At("run") /\ ~escalated
  /\ escalated' = TRUE
  /\ UNCHANGED <<ckpt, session, stop, latest, review, process, history, bounds>>

\* The process dies: SIGKILL, an exception out of the main loop, SIGTERM.
Crash ==
  /\ crashes < MaxCrashes
  /\ ~At("down")
  /\ Exit
  /\ idx' = 0 /\ tries' = 0 /\ result' = "none"
  /\ crashes' = crashes + 1
  /\ UNCHANGED <<disk, history, stops>>

(***************************************************************************)
(* The main loop.                                                          *)
(***************************************************************************)

\* Mutant: the recovered session is never written back.
WaitWithoutPersisting ==
  /\ At("wait")
  /\ stop \/ ~ActiveWorkers
  /\ Goto("loop")
  /\ UNCHANGED <<disk, idx, tries, result, history, bounds>>

\* Phase 1: waitForWorkersToFinish, which a stop request cuts short.
WaitForWorkersToFinish ==
  /\ At("wait")
  /\ \/ stop /\ UNCHANGED session
     \/ ~stop /\ ~ActiveWorkers /\ session' = Recovered
  /\ Goto("loop")
  /\ UNCHANGED <<ckpt, stop, escalated, latest, review, idx, tries, result,
                 history, bounds>>

\* The stop request and the escalation come first, and an exception in the cycle
\* of an escalation leads past both.
Passed == inside = "escaped" \/ (~stop /\ ~escalated)

\* It removes daemon.pid.json as well: no session is older than it any more.
LoopStop ==
  /\ At("loop") /\ inside # "escaped" /\ stop
  /\ stop' = FALSE
  /\ session' = [session EXCEPT !.left = IF @ = "dead" THEN "no" ELSE @]
  /\ Exit
  /\ UNCHANGED <<ckpt, escalated, latest, review, idx, tries, result, history, bounds>>

LoopEscalation ==
  /\ At("loop") /\ inside # "escaped" /\ ~stop /\ escalated
  /\ escalated' = FALSE
  /\ Enter("plan", "escalation")
  /\ UNCHANGED <<ckpt, session, stop, latest, review, history, bounds>>

\* Resume first: an interrupted checkpoint is resumed before anything is planned.
LoopResume ==
  /\ At("loop") /\ Passed
  /\ latest # 0 /\ Pending /\ Resumable(ckpt)
  /\ Enter("resume", "resume")
  /\ UNCHANGED <<disk, history, bounds>>

LoopFresh ==
  /\ At("loop") /\ Passed
  /\ latest = 0 \/ (Pending /\ ~Resumable(ckpt))
  /\ Enter("plan", "none")
  /\ UNCHANGED <<disk, history, bounds>>

\* All plans done: postCompletionCleanup, runProjectCompletion, then a new cycle.
LoopPostCompletion ==
  /\ At("loop") /\ Passed
  /\ latest # 0 /\ ~Pending
  /\ posted' = posted \cup {latest}
  /\ Enter("plan", "none")
  /\ UNCHANGED <<disk, done, waived, acked, restarted, bounds>>

\* A batch whose "complete" artifact an exception kept from being written stays
\* a working session, of a process that lives on.
Thrown ==
  IF pc \in {"run", "report"} THEN [session EXCEPT !.left = "thrown"] ELSE session

\* The cycle of an escalation throws, or the request cannot be removed: the catch
\* says nothing and the iteration goes on.  (A call that is back in the loop has
\* done its writes, and may still throw.)
EscalationThrows ==
  /\ crashes < MaxCrashes
  /\ \/ inside = "escalation"
     \/ At("loop") /\ inside # "escaped" /\ ~stop /\ escalated
  /\ session' = Thrown
  /\ Enter("loop", "escaped")
  /\ crashes' = crashes + 1
  /\ UNCHANGED <<ckpt, stop, escalated, latest, review, history, stops>>

\* The resume check or the resume throws: a full cycle follows, whatever the
\* checkpoint.
ResumeThrows ==
  /\ crashes < MaxCrashes
  /\ inside = "resume"
  /\ session' = Thrown
  /\ Enter("plan", "caught")
  /\ crashes' = crashes + 1
  /\ UNCHANGED <<ckpt, stop, escalated, latest, review, history, stops>>

(***************************************************************************)
(* A full cycle, up to its dispatch: planner, reviewer, gates.             *)
(***************************************************************************)

\* Prometheus writes its analysis, or the cycle ends before (Janus waits, a
\* guardrail skips the cycle, the planner fails).
PlanCycle ==
  /\ At("plan")
  /\ \/ Return /\ UNCHANGED latest
     \/ latest < MaxPlans /\ latest' = latest + 1 /\ Goto("review")
  /\ UNCHANGED <<ckpt, session, stop, escalated, review, idx, tries, result,
                 history, bounds>>

\* A gate before the review ends the cycle, or Athena rejects or approves.
ReviewCycle ==
  /\ At("review")
  /\ \/ Return /\ UNCHANGED review
     \/ Return /\ review' = 0
     \/ Goto("admit") /\ review' = latest
  /\ UNCHANGED <<ckpt, session, stop, escalated, latest, idx, tries, result,
                 history, bounds>>

\* A gate after the review ends the cycle.
AdmissionBlocked ==
  /\ At("admit")
  /\ Return
  /\ UNCHANGED <<disk, idx, tries, result, history, bounds>>

\* Stale-artifact fastpath, first write of persistSkippedDispatchCheckpoint.
SkipDispatch ==
  /\ At("admit")
  /\ ckpt' = NewCheckpoint(latest, "plans")
  /\ waived' = waived \cup {latest}
  /\ Goto("skip")
  /\ UNCHANGED <<session, stop, escalated, latest, review, idx, tries, result,
                 done, acked, restarted, posted, bounds>>

\* Its second write.
CompleteSkipped ==
  /\ At("skip")
  /\ ckpt' = Completed(ckpt)
  /\ Return
  /\ UNCHANGED <<session, stop, escalated, latest, review, idx, tries, result,
                 history, bounds>>

BeginDispatch ==
  /\ At("admit")
  /\ ckpt' = NewCheckpoint(latest, "batches")
  /\ idx' = 1
  /\ Goto("check")
  /\ UNCHANGED <<session, stop, escalated, latest, review, tries, result,
                 history, bounds>>

(***************************************************************************)
(* tryResumeDispatchFromCheckpoint.                                        *)
(***************************************************************************)

\* Plan set it would dispatch: the checkpoint's snapshot, or the approved one.
\* The fastpath's checkpoint holds no plan snapshot and needs an approved review.
ResumePlan ==
  IF ckpt.signed = "none" THEN review
  ELSE IF ckpt.signed = "plans" /\ review = 0 THEN 0
  ELSE ckpt.plan

ResumeRefused ==
  /\ At("resume")
  /\ ActiveWorkers \/ ResumePlan = 0
  /\ session' = Recovered
  /\ Return
  /\ UNCHANGED <<ckpt, stop, escalated, latest, review, idx, tries, result,
                 history, bounds>>

\* Mutant: the dispatch resumes at the first batch.
ResumeDispatchFromFirst ==
  /\ At("resume") /\ ~ActiveWorkers /\ ResumePlan # 0
  /\ session' = Recovered
  /\ IF Resumable(ckpt) THEN Goto("check") /\ idx' = 1 ELSE Return /\ UNCHANGED idx
  /\ UNCHANGED <<ckpt, stop, escalated, latest, review, tries, result, history, bounds>>

\* A checkpoint that is not resumable is restarted from batch 1 (only the forced
\* resume gets here with one), before the governance gate is evaluated.
ResumeDispatch ==
  /\ At("resume") /\ ~ActiveWorkers /\ ResumePlan # 0
  /\ session' = Recovered
  /\ \/ Resumable(ckpt) /\ UNCHANGED <<ckpt, restarted>>
     \/ /\ ~Resumable(ckpt)
        /\ ckpt' = NewCheckpoint(ResumePlan,
                     IF ckpt.signed = "none" THEN "batches" ELSE ckpt.signed)
        /\ restarted' = restarted \cup IF ckpt.signed = "none" THEN {} ELSE {ResumePlan}
  /\ \/ Return /\ UNCHANGED idx \* the governance gate blocks
     \/ Goto("check") /\ idx' = Capped(ckpt'.completed, ckpt'.total) + 1
  /\ UNCHANGED <<stop, escalated, latest, review, tries, result,
                 done, waived, acked, posted, bounds>>

(***************************************************************************)
(* The dispatch loop, of a cycle and of a resume.                          *)
(***************************************************************************)

StopDispatch ==
  /\ At("check") /\ idx <= ckpt.total /\ stop
  /\ Return
  /\ UNCHANGED <<disk, idx, tries, result, history, bounds>>

StartBatch ==
  /\ At("check") /\ idx <= ckpt.total /\ ~stop
  /\ session' = [status |-> "working", batch |-> idx, left |-> "no"]
  /\ tries' = 0 /\ result' = "none"
  /\ Goto("run")
  /\ UNCHANGED <<ckpt, stop, escalated, latest, review, idx, history, bounds>>

\* Mutant: the loop ends before its last batch.
CompleteDispatchEarly ==
  /\ At("check") /\ idx >= ckpt.total
  /\ ckpt' = Completed(ckpt)
  /\ Return
  /\ UNCHANGED <<session, stop, escalated, latest, review, idx, tries, result,
                 history, bounds>>

CompleteDispatch ==
  /\ At("check") /\ idx > ckpt.total
  /\ ckpt' = Completed(ckpt)
  /\ Return
  /\ UNCHANGED <<session, stop, escalated, latest, review, idx, tries, result,
                 history, bounds>>

\* A transient API error the retry policy dispatches again.
RetryTransient ==
  /\ At("run") /\ tries < MaxTransientRetries
  /\ tries' = tries + 1
  /\ UNCHANGED <<disk, proc, pc, inside, idx, result, history, bounds>>

\* dispatchWorker returns done/success/skipped ("ok"), a runtime hook denial
\* ("deny"), or any other status ("fail").
WorkerReturns(r) ==
  /\ At("run")
  /\ result' = r
  /\ done' = [done EXCEPT ![ckpt.plan] = IF r = "ok" THEN @ \cup {idx} ELSE @]
  /\ Goto("report")
  /\ UNCHANGED <<disk, idx, tries, waived, acked, restarted, posted, bounds>>

\* Mutant: a success ends the dispatch like a failure, before it is recorded.
ReportBatchUnrecorded ==
  /\ At("report")
  /\ session' = Idle
  /\ \/ result = "deny" /\ Goto("failclose")
     \/ result # "deny" /\ Return
  /\ UNCHANGED <<ckpt, stop, escalated, latest, review, idx, tries, result,
                 history, bounds>>

\* The "complete" artifact; a failed batch leaves the checkpoint as it is.
ReportBatch ==
  /\ At("report")
  /\ session' = Idle
  /\ \/ result = "ok" /\ Goto("record")
     \/ result = "deny" /\ Goto("failclose")
     \/ result = "fail" /\ Return
  /\ UNCHANGED <<ckpt, stop, escalated, latest, review, idx, tries, result,
                 history, bounds>>

RecordProgress ==
  /\ At("record")
  /\ ckpt' = Advanced(ckpt, idx)
  /\ acked' = [acked EXCEPT ![ckpt.plan] = IF idx > @ THEN idx ELSE @]
  /\ idx' = idx + 1
  /\ Goto("check")
  /\ UNCHANGED <<session, stop, escalated, latest, review, tries, result,
                 done, waived, restarted, posted, bounds>>

FailClose ==
  /\ At("failclose")
  /\ ckpt' = Failed(ckpt)
  /\ Return
  /\ UNCHANGED <<session, stop, escalated, latest, review, idx, tries, result,
                 history, bounds>>

Loop == LoopStop \/ LoopEscalation \/ LoopResume \/ LoopFresh \/ LoopPostCompletion

Cycle ==
  \/ PlanCycle \/ ReviewCycle \/ AdmissionBlocked
  \/ SkipDispatch \/ CompleteSkipped \/ BeginDispatch

Resume == ResumeRefused \/ ResumeDispatch

Dispatch ==
  \/ StopDispatch \/ StartBatch \/ CompleteDispatch \/ RetryTransient
  \/ \E r \in {"ok", "fail", "deny"} : WorkerReturns(r)
  \/ ReportBatch \/ RecordProgress \/ FailClose

ProcessStep == WaitForWorkersToFinish \/ Loop \/ Cycle \/ Resume \/ Dispatch

Next ==
  \/ StartDaemon \/ StartResume \/ StartOnce
  \/ RequestStop \/ RequestEscalation \/ Crash
  \/ EscalationThrows \/ ResumeThrows
  \/ ProcessStep

Spec == Init /\ [][Next]_vars

\* The process keeps running while it is up, the daemon is started again and again
\* when nothing runs, and the environment is not against it for ever: the
\* governance gate opens and a worker succeeds if they are asked again and again.
FairSpec ==
  /\ Spec
  /\ WF_vars(ProcessStep)
  /\ SF_vars(StartDaemon)
  /\ SF_vars(At("run") /\ WorkerReturns("ok"))
  /\ SF_vars(ResumeDispatch /\ pc' = "check")
-----------------------------------------------------------------------------
Statuses == {"dispatching", "complete", "failed_closed"}
Locations == {"down", "wait", "loop", "plan", "review", "admit", "skip",
              "resume", "check", "run", "report", "record", "failclose"}

Checkpoints ==
  {NoCkpt} \cup
  [plan : Plans, total : Nat, completed : Nat, status : Statuses,
   signed : {"batches", "plans"}, segment : Nat]

TypeOK ==
  /\ ckpt \in Checkpoints
  /\ session \in [status : {"idle", "working"}, batch : Nat, left : {"no", "dead", "thrown"}]
  /\ stop \in BOOLEAN /\ escalated \in BOOLEAN
  /\ latest \in 0..MaxPlans /\ review \in 0..MaxPlans
  /\ proc \in {"none", "daemon", "resume", "once"}
  /\ pc \in Locations
  /\ inside \in {"none", "escalation", "resume", "escaped", "caught"}
  /\ idx \in Nat /\ tries \in Nat
  /\ result \in {"none", "ok", "fail", "deny"}
  /\ done \in [Plans -> SUBSET Nat]
  /\ waived \in SUBSET Plans /\ restarted \in SUBSET Plans /\ posted \in SUBSET Plans
  /\ acked \in [Plans -> Nat]
  /\ crashes \in Nat /\ stops \in Nat

\* Every batch the checkpoint counts as completed was reported successful by a
\* worker, or belongs to a plan set the fastpath closed: no crash, stop, failure
\* or forced restart lets the ledger run ahead of the work.
NoBatchSkipped ==
  \A b \in 1..ckpt.completed : b \in done[ckpt.plan] \/ ckpt.plan \in waived

\* A batch starts only when every batch before it has succeeded: the sequential
\* barrier the wave boundary log lines rely on, across resumes.
InOrderStart ==
  [][(pc = "check" /\ pc' = "run") =>
       \A b \in 1..(idx - 1) : b \in done[ckpt.plan]]_vars

\* A batch whose success a checkpoint has recorded is never dispatched again,
\* unless the operator forced a resume of a checkpoint that was not resumable.
NoRedoneBatch ==
  [][(pc = "check" /\ pc' = "run") =>
       idx > acked[ckpt.plan] \/ ckpt.plan \in restarted]_vars

\* A cycle of the daemon comes to the point where it would replace an interrupted
\* checkpoint only when an escalation asked for it, or an exception broke off the
\* resume: nothing else is planned over work that is not done.
ResumeFirst ==
  (proc = "daemon" /\ pc \in {"plan", "review", "admit"} /\ Resumable(ckpt))
    => inside \in {"escalation", "caught"}

\* Once the process is up again and has waited, no session of an earlier process
\* is left working: an interrupted batch never blocks the daemon's resume.  (One
\* that an exception left does: only a restart takes it for stale.)
NoOrphanSession ==
  (proc = "daemon" /\ pc \notin {"wait", "run", "report"} /\ ~stop)
    => session.status = "idle" \/ session.left = "thrown"

\* The batch to run next lies in the active run segment.
SegmentCoversNext ==
  Resumable(ckpt) =>
    /\ SegmentFirst(ckpt.segment) <= ckpt.completed + 1
    /\ ckpt.completed + 1 <= SegmentLast(ckpt.segment, ckpt.total)

\* An interrupted dispatch does not stay interrupted for ever, unless an exception
\* left a session working that this daemon then waits for.  (The checkpoint of a
\* half-written closure fastpath can: it holds no plan snapshot, and once the
\* last review is a rejection the daemon neither resumes it nor plans.)
Interrupted == Resumable(ckpt) /\ ckpt.signed = "batches"
InterruptedEventuallySettled ==
  Interrupted ~> (~Interrupted \/ session.left = "thrown")

\* The checkpoint implements the plan ledger.
Ledger == INSTANCE PlanLedger WITH
  plan <- ckpt.plan, recorded <- ckpt.completed, outcome <- ckpt.status,
  worked <- done

LedgerImplemented == Ledger!Spec

\* countCompletedPlans says of a complete checkpoint "Treat that as all plans
\* done": the daemon then runs the post-completion work before it plans again.
CompletionRecognised ==
  [][(pc = "loop" /\ pc' = "plan" /\ ~escalated
       /\ ckpt.status = "complete" /\ ckpt.plan = latest)
      => latest \in posted']_vars

\* The stale-artifact fastpath skips worker dispatch, "no worker work needed": no
\* worker is started for a plan set it closed.
WaivedNeverDispatched ==
  (pc = "run" /\ ckpt.plan \notin restarted) => ckpt.plan \notin waived
=============================================================================
