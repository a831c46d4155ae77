----------------------------- MODULE Governance -----------------------------
(***************************************************************************)
(* What may stop the dispatch of workers, and what a finished cycle feeds  *)
(* back into it: the pre-dispatch gate of orchestrator.ts, the guardrail   *)
(* files (guardrail_executor.ts), the breach streak                        *)
(* (catastrophe_detector.ts), the autonomy band (autonomy_band_monitor.ts),*)
(* the rolling yield (budget_controller.ts) and the carry-forward ledger   *)
(* (carry_forward_ledger.ts).                                              *)
(*                                                                         *)
(* A fresh cycle passes the gate, runs its workers and then, step after    *)
(* step, writes the files the next gate reads.  A resumed dispatch passes  *)
(* the same gate and does none of these steps.  PAUSE_WORKERS is left out: *)
(* its scenarios need blocked tasks or a budget breach, and the detector   *)
(* is always told there is none.                                           *)
(***************************************************************************)
EXTENDS Integers, Sequences, FiniteSets

CONSTANTS
  FollowUps,   \* tasks a postmortem may ask for
  BreachLimit, \* sloCascadingBreachConsecutive
  BandMin,     \* minBootstrapCycles
  YieldWindow, \* ROLLING_YIELD_WINDOW_SIZE
  YieldMin,    \* ROLLING_YIELD_MIN_DISPATCHES
  Sla,         \* slaMaxCycles
  MaxOverdue,  \* maxCriticalOverdue
  MaxCycles,   \* bound: fresh cycles that pass the gate
  MaxFaults,   \* bound: writes that fail and processes that die
  MaxEdits     \* bound: edits of the configuration

ASSUME LimitsAssumption ==
  /\ BreachLimit \in Nat \ {0} /\ YieldWindow \in Nat \ {0} /\ YieldMin \in Nat
  /\ Sla \in Nat /\ MaxOverdue \in Nat \ {0}
ASSUME BandAssumption == BandMin \in Nat /\ BandMin > 1
ASSUME BoundsAssumption ==
  MaxCycles \in Nat /\ MaxFaults \in Nat /\ MaxEdits \in Nat

None == "none"
ASSUME FollowUpsAssumption == None \notin FollowUps

VARIABLES
  config,      \* runtime.autonomyBand.enabled and systemGuardian.enabled
  force, skip, \* the guardrail files FORCE_CHECKPOINT_VALIDATION and SKIP_CYCLE
  slo,         \* slo_metrics.json: its last cycle breached
  streak,      \* catastrophe_state.json: consecutiveSloBreaches
  band,        \* autonomy_band_status.json
  log,         \* premium_usage_log.json: whether the last runs were productive
  reports,     \* athena_postmortems.json: the follow-ups it asks for
  ledger,      \* carry_forward_ledger.json
  counter,     \* its cycle counter
  open,        \* the dispatch checkpoint is interrupted
  pc,          \* where the orchestrator is
  found,       \* the scenarios detected in this cycle
  todo,        \* guardrail actions of this cycle still to apply
  resolved,    \* resolvedPlanItems of this cycle
  enforced,    \* history: what became of the actions of the last saved detection
  cycles, faults, edits

guardrails == <<force, skip>>
slos == <<slo, streak>>
debts == <<reports, ledger, counter>>
local == <<found, todo, resolved>>
bounds == <<cycles, faults, edits>>
vars == <<config, guardrails, slos, band, log, debts, open, pc, local, enforced, bounds>>

Stale == "STALE_CRITICAL_STATE"
Cascade == "SLO_CASCADING_BREACH"
Scenarios == {Stale, Cascade}

\* A guardrail file: the scenario it is enabled for.  Every other guardrail of
\* these scenarios (notifications, escalations) stops nothing.
Off == "off"
Guardrail == Scenarios \cup {Off}
Order == [file : {"force", "skip"}, scenario : Scenarios]

NoBand == [written |-> FALSE, samples |-> 0, ready |-> FALSE]

\* What autoCloseVerifiedDebt is told of a task that a worker has resolved.
Evidence == [task : FollowUps, passed : BOOLEAN, replay : BOOLEAN]
Debt == [task : FollowUps, opened : Nat, due : Nat,
         severity : {"warning", "critical"}, closed : BOOLEAN]

Between == {"idle", "plan", "gate", "regate"}
Working == {"work", "rework"}
After == {"slo", "band", "detect", "enforce", "revert", "debt"}

At(l) == pc = l
Fault == faults < MaxFaults /\ faults' = faults + 1 /\ UNCHANGED <<cycles, edits>>

TypeOK ==
  /\ config \in [band : BOOLEAN, guardian : BOOLEAN]
  /\ force \in Guardrail /\ skip \in Guardrail
  /\ slo \in BOOLEAN /\ streak \in Nat
  /\ band \in [written : BOOLEAN, samples : Nat, ready : BOOLEAN]
  /\ log \in Seq(BOOLEAN) /\ Len(log) <= YieldWindow
  /\ reports \subseteq FollowUps /\ ledger \subseteq Debt /\ counter \in Nat
  /\ open \in BOOLEAN
  /\ pc \in Between \cup Working \cup After
  /\ found \subseteq Scenarios /\ todo \subseteq Order
  /\ resolved \subseteq Evidence
  /\ enforced \in {"no", "failed", "yes"}
  /\ cycles \in Nat /\ faults \in Nat /\ edits \in Nat

Init ==
  /\ config \in [band : BOOLEAN, guardian : BOOLEAN]
  /\ force = Off /\ skip = Off
  /\ slo = FALSE /\ streak = 0
  /\ band = NoBand
  /\ log = <<>>
  /\ reports = {} /\ ledger = {} /\ counter = 1
  /\ open = FALSE
  /\ pc = "idle"
  /\ found = {} /\ todo = {} /\ resolved = {}
  /\ enforced = "yes"
  /\ cycles = 0 /\ faults = 0 /\ edits = 0

-----------------------------------------------------------------------------
(***************************************************************************)
(* The gate.                                                               *)
(***************************************************************************)

SkipShut == config.guardian /\ skip # Off

\* The one gate of a guardrail that does not ask for systemGuardian; only the
\* cascade's scenario stops the dispatch, and nothing writes overrideActive.
ForceShut == force = Cascade

\* Mutant: the band only advises.
BandAdvises == FALSE

\* resolveAutonomyExecutionGateBlockReason: a file that says the band is not ready
\* stops the dispatch, in shadow mode too; without a file there is nothing to say.
BandShut == config.band /\ band.written /\ ~band.ready

Productive == {i \in DOMAIN log : log[i]}

\* At most a fifth of the last runs were productive.
YieldShut == Len(log) >= YieldMin /\ 5 * Cardinality(Productive) <= Len(log)

Overdue == {e \in ledger : ~e.closed /\ counter > e.due}
CriticalOverdue == {e \in Overdue : e.severity = "critical"}
DebtShut == Cardinality(CriticalOverdue) >= MaxOverdue

GateShut == ForceShut \/ BandShut \/ DebtShut \/ YieldShut

\* SKIP_CYCLE is asked for where a fresh cycle starts; an interrupted dispatch is
\* resumed without it.
Shut == GateShut \/ (SkipShut /\ ~open)

-----------------------------------------------------------------------------
(***************************************************************************)
(* A cycle up to its dispatch.                                             *)
(***************************************************************************)

\* The operator edits box.config.json; the main loop or a restart reads it.
EditConfig ==
  /\ At("idle") /\ edits < MaxEdits
  /\ edits' = edits + 1
  /\ config' \in [band : BOOLEAN, guardian : BOOLEAN] \ {config}
  /\ UNCHANGED <<guardrails, slos, band, log, debts, open, pc, local, enforced,
                 cycles, faults>>

\* scripts/recompute_autonomy_band.ts computes the status again from the samples
\* on file, and writes one where there was none.
RecomputeBand ==
  /\ At("idle") /\ edits < MaxEdits
  /\ edits' = edits + 1
  /\ \E ready \in BOOLEAN :
       /\ ready => band.samples >= BandMin
       /\ band' = [written |-> TRUE, samples |-> band.samples, ready |-> ready]
  /\ UNCHANGED <<config, guardrails, slos, log, debts, open, pc, local, enforced,
                 cycles, faults>>

StartCycle ==
  /\ At("idle") /\ ~open /\ ~SkipShut
  /\ pc' = "plan"
  /\ UNCHANGED <<config, guardrails, slos, band, log, debts, open, local, enforced, bounds>>

SkipCycle ==
  /\ At("idle") /\ ~open /\ SkipShut
  /\ UNCHANGED vars

\* Janus waits, a plan fails, is rejected or is waived.
PlanFails ==
  /\ At("plan")
  /\ pc' = "idle"
  /\ UNCHANGED <<config, guardrails, slos, band, log, debts, open, local, enforced, bounds>>

PlanReady ==
  /\ At("plan")
  /\ pc' = "gate"
  /\ UNCHANGED <<config, guardrails, slos, band, log, debts, open, local, enforced, bounds>>

ResumeReady ==
  /\ At("idle") /\ open
  /\ pc' = "regate"
  /\ UNCHANGED <<config, guardrails, slos, band, log, debts, open, local, enforced, bounds>>

\* Budget, freeze, agent contracts, dependency cycles and the checks of the plans
\* themselves block for reasons that are not followed here.
Refused ==
  /\ At("gate") \/ At("regate")
  /\ pc' = "idle"
  /\ UNCHANGED <<config, guardrails, slos, band, log, debts, open, local, enforced, bounds>>

Admitted ==
  /\ At("gate") /\ ~GateShut /\ cycles < MaxCycles
  /\ cycles' = cycles + 1
  /\ open' = TRUE /\ resolved' = {}
  /\ pc' = "work"
  /\ UNCHANGED <<config, guardrails, slos, band, log, debts, found, todo, enforced,
                 faults, edits>>

\* Mutant: a resumed dispatch has passed the gate before.
ReadmittedOnce ==
  /\ At("regate")
  /\ resolved' = {}
  /\ pc' = "rework"
  /\ UNCHANGED <<config, guardrails, slos, band, log, debts, open, found, todo, enforced,
                 bounds>>

Readmitted ==
  /\ At("regate") /\ ~GateShut
  /\ resolved' = {}
  /\ pc' = "rework"
  /\ UNCHANGED <<config, guardrails, slos, band, log, debts, open, found, todo, enforced,
                 bounds>>

-----------------------------------------------------------------------------
(***************************************************************************)
(* The dispatch.                                                           *)
(***************************************************************************)

\* Mutant: the yield is that of every run ever.
LoggedForEver(productive) == log' = Append(log, productive)

\* The window the yield is computed over.
Logged(productive) ==
  LET all == Append(log, productive)
  IN  log' = IF Len(all) <= YieldWindow THEN all ELSE Tail(all)

\* Athena's postmortem of a run.  It also looks for debt to close, with the
\* evidence as a string that autoCloseVerifiedDebt does not accept.
Reported == \E f \in FollowUps \cup {None} : reports' = reports \cup ({f} \ {None})

\* Mutant: the replay contract of the worker reaches the ledger.
EnvelopeWithReplay(f, passed, replay) == [task |-> f, passed |-> passed, replay |-> replay]

\* The replay contract a worker reports stays in its dispatch contract: the cycle
\* hands on replayClosureContract, which is undefined.
Envelope(f, passed, replay) == [task |-> f, passed |-> passed, replay |-> FALSE]

WorkerSucceeds ==
  /\ pc \in Working
  /\ Logged(TRUE) /\ Reported
  /\ \/ resolved' = resolved
     \/ \E f \in FollowUps, passed, replay \in BOOLEAN :
          resolved' = resolved \cup {Envelope(f, passed, replay)}
  /\ UNCHANGED <<config, guardrails, slos, band, ledger, counter, open, pc, found, todo,
                 enforced, bounds>>

\* A run that fails is tried again in its dispatch, ends it for good
\* (failed_closed), or leaves it to be resumed.
WorkerFails ==
  /\ pc \in Working
  /\ Logged(FALSE) /\ Reported
  /\ \/ UNCHANGED <<open, pc>>
     \/ open' \in {open, FALSE} /\ pc' = "idle"
  /\ UNCHANGED <<config, guardrails, slos, band, ledger, counter, local, enforced, bounds>>

DispatchCompletes ==
  /\ pc \in Working
  /\ open' = FALSE
  /\ pc' = IF At("work") THEN "slo" ELSE "idle"
  /\ UNCHANGED <<config, guardrails, slos, band, log, debts, local, enforced, bounds>>

-----------------------------------------------------------------------------
(***************************************************************************)
(* What a fresh cycle does once its dispatch is complete.  A step that     *)
(* throws is logged, and the next one runs.                                *)
(***************************************************************************)

PersistSlo ==
  /\ At("slo")
  /\ slo' \in BOOLEAN
  /\ pc' = "band"
  /\ UNCHANGED <<config, guardrails, streak, band, log, debts, open, local, enforced, bounds>>

\* Scores and thresholds decide whether the band is reached once there are samples
\* enough.
EvaluateBand ==
  /\ At("band")
  /\ IF config.band
     THEN \E ready \in BOOLEAN :
            /\ ready => band.samples + 1 >= BandMin
            /\ band' = [written |-> TRUE, samples |-> band.samples + 1, ready |-> ready]
     ELSE UNCHANGED band
  /\ pc' = "detect"
  /\ UNCHANGED <<config, guardrails, slos, log, debts, open, local, enforced, bounds>>

\* Mutant: the alarm is raised in one cycle only.
CascadingOnce(n) == n = BreachLimit

Cascading(n) == n >= BreachLimit

Orders(s) == {o \in Order : o.scenario \in s /\ (o.file = "skip" => o.scenario = Stale)}

\* Mutant: the cascade is handled first, and stale state takes over its file.
TurnCascadeFirst(o) ==
  (IF o.scenario = Cascade THEN 0 ELSE 2) + (IF o.file = "skip" THEN 0 ELSE 1)

\* SCENARIO_GUARDRAILS, in the order of the detections.
Turn(o) == (IF o.scenario = Stale THEN 0 ELSE 2) + (IF o.file = "skip" THEN 0 ELSE 1)

\* runCatastropheDetection: the streak is saved before anything is done about it.
Detect ==
  /\ At("detect")
  /\ streak' = IF slo THEN streak + 1 ELSE 0
  /\ \E stale \in SUBSET {Stale} :
       found' = stale \cup {s \in {Cascade} : Cascading(streak')}
  /\ todo' = IF config.guardian THEN Orders(found') ELSE {}
  /\ enforced' = "no"
  /\ pc' = "enforce"
  /\ UNCHANGED <<config, guardrails, slo, band, log, debts, open, resolved, bounds>>

Due == {o \in todo : \A q \in todo : Turn(o) <= Turn(q)}

\* executeGuardrailAction, one at a time.
ApplyGuardrail ==
  /\ At("enforce")
  /\ \E o \in Due :
       /\ IF o.file = "force"
          THEN force' = o.scenario /\ UNCHANGED skip
          ELSE skip' = o.scenario /\ UNCHANGED force
       /\ todo' = todo \ {o}
  /\ UNCHANGED <<config, slos, band, log, debts, open, pc, found, resolved, enforced, bounds>>

EndEnforcement ==
  /\ At("enforce") /\ todo = {}
  /\ enforced' = IF config.guardian /\ enforced = "no" THEN "yes" ELSE enforced
  /\ pc' = "revert"
  /\ UNCHANGED <<config, guardrails, slos, band, log, debts, open, local, bounds>>

\* autoRevertSloGuardrailIfResolved
AutoRevert ==
  /\ At("revert")
  /\ force' = IF config.guardian /\ Cascade \notin found /\ force = Cascade THEN Off ELSE force
  /\ pc' = "debt"
  /\ UNCHANGED <<config, skip, slos, band, log, debts, open, local, enforced, bounds>>

\* Follow-ups without an open entry: one that was closed is owed again.
NewlyOwed(entries) == {f \in reports : \A e \in entries : e.task = f => e.closed}

\* Mutant: without a severity it is taken to be critical.
SeverityCritical == "critical"

\* A postmortem carries no severity.
Severity == "warning"

NewDebt(f) == [task |-> f, opened |-> counter, due |-> counter + Sla,
               severity |-> Severity, closed |-> FALSE]

AddDebtEntries(entries) == entries \cup {NewDebt(f) : f \in NewlyOwed(entries)}

\* buildClosureEvidence: no closure without the replay contract.
Verified(f) == \E r \in resolved : r.task = f /\ r.passed /\ r.replay

AutoCloseVerifiedDebt(entries) ==
  {IF Verified(e.task) THEN [e EXCEPT !.closed = TRUE] ELSE e : e \in entries}

Forget == found' = {} /\ todo' = {} /\ resolved' = {}

RegisterDebt ==
  /\ At("debt")
  /\ ledger' = AutoCloseVerifiedDebt(AddDebtEntries(ledger))
  /\ counter' = counter + 1
  /\ Forget
  /\ pc' = "idle"
  /\ UNCHANGED <<config, guardrails, slos, band, log, reports, open, enforced, bounds>>

-----------------------------------------------------------------------------
(***************************************************************************)
(* Faults.                                                                 *)
(***************************************************************************)

NextStep == [slo |-> "band", band |-> "detect", detect |-> "revert",
             revert |-> "debt", debt |-> "idle"]

\* A step throws before it has written: the others run all the same.
StepFails ==
  /\ pc \in DOMAIN NextStep /\ Fault
  /\ pc' = NextStep[pc]
  /\ IF At("debt") THEN Forget ELSE UNCHANGED local
  /\ UNCHANGED <<config, guardrails, slos, band, log, debts, open, enforced>>

\* A guardrail file cannot be written: the executor reports it and goes on.
GuardrailFails ==
  /\ At("enforce") /\ Fault
  /\ \E o \in Due : todo' = todo \ {o}
  /\ enforced' = "failed"
  /\ UNCHANGED <<config, guardrails, slos, band, log, debts, open, pc, found, resolved>>

Crash ==
  /\ ~At("idle") /\ Fault
  /\ pc' = "idle"
  /\ Forget
  /\ UNCHANGED <<config, guardrails, slos, band, log, debts, open, enforced>>

Cycle == StartCycle \/ SkipCycle \/ PlanFails \/ PlanReady \/ ResumeReady
           \/ Refused \/ Admitted \/ Readmitted
Dispatch == WorkerSucceeds \/ WorkerFails \/ DispatchCompletes
CloseCycle == PersistSlo \/ EvaluateBand \/ Detect \/ ApplyGuardrail \/ EndEnforcement
                \/ AutoRevert \/ RegisterDebt
Next ==
  \/ EditConfig \/ RecomputeBand
  \/ Cycle \/ Dispatch \/ CloseCycle
  \/ StepFails \/ GuardrailFails \/ Crash

Spec == Init /\ [][Next]_vars

-----------------------------------------------------------------------------
(***************************************************************************)
(* Properties.                                                             *)
(***************************************************************************)

\* While a gate is shut no workers run, fresh or resumed, and as long as the
\* configuration is left alone nothing the program does opens it again: every
\* step that could comes after the dispatch the gate prevents.  A cascade's alarm
\* stays for good, whatever the configuration
\* (evaluatePreDispatchGovernanceGate and the close of runSingleCycle).
ShutsForGood ==
  [][/\ (pc \in Between /\ Shut /\ config' = config) => (pc' \in Between /\ Shut')
     /\ ForceShut => ForceShut']_vars

\* A streak of breaches that has reached its limit, and whose guardrails were
\* applied without a fault, stops the dispatch: no other scenario of the cycle
\* takes over the file the gate reads, and an alarm that a crash has lost is
\* raised by the next breach (executeGuardrailsForDetections).
AlarmRaised ==
  pc \in Between /\ streak >= BreachLimit /\ enforced = "yes" => ForceShut

\* The band never has the samples to be reached: the gate stops the dispatch, and
\* with it the samples, from the first one on (evaluateAutonomyBand, and the
\* autonomy gate before the dispatch).
BandNeverReached == band.samples <= 1 /\ ~band.ready

\* The ledger holds one entry per follow-up, however often postmortems ask for it
\* (addDebtEntries).
OneDebtPerFollowUp == \A d, e \in ledger : d.task = e.task => d = e

\* No work closes a debt, whatever evidence its worker brings
\* (resolvedPlanItems and autoCloseVerifiedDebt).
DebtStaysOpen == [][\A e \in ledger : (~e.closed => e \in ledger')]_vars

\* However much debt is overdue, the debt gate lets every dispatch pass
\* (addDebtEntries and shouldBlockOnDebt).
DebtNeverStopsWork == ~DebtShut

=============================================================================
