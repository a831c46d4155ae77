# A verification project for the ATLAS single-target module

ATLAS is an autonomous delivery daemon: a planner (Prometheus) proposes plans, a
reviewer (Athena) approves them, and the orchestrator dispatches worker sessions for
them one batch after the other, with all its state in JSON files under `state/`.
Everything below refers to the TypeScript under `src/src`.

## 1. The system

### Parts, the state they keep and what they do

| Part | State | Operations | Hard behaviour |
|---|---|---|---|
| Main loop and dispatch (`core/orchestrator.ts`) | `dispatch_checkpoint.json`, `worker_cycle_artifacts.json`, `prometheus_analysis.json`, `athena_plan_review.json`, `janus_escalation.json` | main loop, full cycle, resume, batch loop, session recovery | crash between any two writes, stop requests, forced resume, transient retries |
| Checkpoint engine (`core/checkpoint_engine.ts`) | the envelope and run segments inside the checkpoint | segment initialisation and rollover, versioned write, integrity check | boundary arithmetic, versions over restarts |
| Daemon control and command line (`core/daemon_control.ts`, `cli.ts`) | `daemon.pid.json`, `daemon.stop.json`, `daemon.reload.json` | start, stop, reload, resume, once, on, off | check-then-act between processes, stale pid files |
| Files (`core/fs_utils.ts`) | every state file and its `.tmp` | atomic write, stale temporary clean-up, read, spawn | two writers, a crash between write and rename, timeout against exit |
| Escalation queue (`core/escalation_queue.ts`) | `escalation_queue.json` | append with cooldown and cap, resolve, closure | read-modify-write without a lock |
| Dependency graph (`core/dependency_graph_resolver.ts`) | none | cycle search, conflicts, wave assignment, gates | a relaxation that undoes its own steps |
| Batching (`core/worker_batch_planner.ts`, `plan_contract_validator.ts`, the batching of `orchestrator.ts`) | none | packet gate, chains, packing, caps, splits | many stages that each rewrite the list, waves against roles |
| Target session (`core/target_session_state.ts`, `core/mode_state.ts`, onboarding, clarification, success contract) | `active_target_session.json`, the archive, the platform mode, handoff and report | create, stage transitions, questions and answers, archive | several files per transition, two processes |
| Governance (the pre-dispatch gate, `guardrail_executor.ts`, `catastrophe_detector.ts`, `governance_freeze.ts`, `governance_canary.ts`, `rollback_engine.ts`) | guardrail, canary and incident files | detect, apply, revert, gate | partial failure, gates that shut themselves |
| Worker runner (`core/worker_runner.ts`, `core/verification_gate.ts`, `core/retry_strategy.ts`) | `worker_<role>.json`, the escalations | run, verify, rework, raise, settle | gates that rely on each other, fingerprints and cooldowns |
| Ledgers and monitors (`core/carry_forward_ledger.ts`, `autonomy_band_monitor.ts`, `budget_controller.ts`, `lineage_graph.ts`) | one JSON file each | open, close, measure, gate | counters at their limits, history over cycles |
| Planner, reviewer, supervisor, researchers | their answer files | a model call and the parsing of its answer | outside a state machine |
| Dashboard, prompts, policies, reports | none that feeds a decision | rendering, text, scoring | outside a state machine |

`PROJECT.json` lists every source file under one of these components with its status.

### How they interact

The daemon is one Node process that the command line starts; commands talk to it through
files (`daemon.stop.json`, `daemon.reload.json`) and `resume` and `once` run the same code
in a process of their own. Inside the process everything is sequential: the main loop awaits
a cycle or a resume, which awaits each worker. What makes the behaviour hard is that every
await is a place where the process may die or a file may change, and that a new process
decides what to do from the files alone.

### What makes the parts correct

* Dispatch: the checkpoint never runs ahead of the work; batches start in order; nothing
  recorded is redone; an interrupted dispatch is found and finished; sessions of dead
  processes do not block.
* Daemon control: at most one daemon; a stop request reaches it; its pid file is its own.
* Files: a reader sees an old or a new content, never a torn one; no update is lost.
* Queues and ledgers: no entry is lost or counted twice; limits hold.
* Scheduling: every plan is in exactly one batch, and waves start in turn.
* Worker attempts: what counts as done was verified; an alarm is raised once and settled by
  who raised it.
* Target session: no session is lost or taken back from the archive; workers run for the open
  session, after its intent was clarified; what is closed is archived.
* Governance: a gate that should shut, shuts; what it shut, opens when its cause is gone.

## 2. Modules

| Module | What it is |
|---|---|
| `DispatchCheckpoint` | the main loop, the worker dispatch and its checkpoint, with crashes and commands |
| `PlanLedger` | what the checkpoint promises: the abstract specification `DispatchCheckpoint` implements |
| `DaemonLifecycle` | the command line's processes and the pid, stop and reload files |
| `StateFile` | one JSON file and its writers, system call by system call |
| `EscalationQueue` | the escalation queue; it extends `StateFile`, so each of its writes is the file's writes |
| `DependencyWaves` | the dependency graph resolver as a state machine over its loops |
| `WorkerBatches` | from the plans of a cycle to the order in which batches start |
| `WorkerAttempts` | one batch: transient retries, the worker conversation with its gates and reworks, its alarms |
| `TargetSession` | the session file, the archive, the mode and what a session owns, under the daemon and the operator |
| `SessionLife` | what the session files promise: the abstract specification `TargetSession` implements |
| `Governance` | what may stop a dispatch, and what a finished cycle feeds back into it |
| `...Proofs` | the theorems about the module they are named after; those about `StateFile` are in `EscalationQueueProofs` |
| `MC...` | constants that a `.cfg` cannot write, and symmetry sets |

The modules meet at the loop over the batches. `DispatchCheckpoint` has its crashes and its
record, and knows a batch as a number; `WorkerBatches` says which plans the batches hold and
in which order they come; `WorkerAttempts` refines the one step in which a batch is done;
`Governance` refines the gate before it, which `DispatchCheckpoint` leaves to chance.

### DispatchCheckpoint

`ckpt` is `dispatch_checkpoint.json`, reduced to the plan set it is for, how many batches it
has and has completed, its status, what its signature was computed over, and its run
segment. `session` is the worker session in `worker_cycle_artifacts.json`; its `left` tells
one that a dead process left working ("dead", which the start-up and the loop recover) from
one that an exception left ("thrown"). `latest` and `review` are the plan sets in
`prometheus_analysis.json` and `athena_plan_review.json`. A plan set is a number and its
worker batches are numbers, since the code only counts them. `proc` and `pc` say which
command runs and where it is; a crash loses both, and `idx`, `tries` and `result` with them.
`inside` is the try block of the main loop that the present call is in, or what was last
caught there: the loop swallows what the cycle of an escalation throws
(`orchestrator.ts:8142`) and goes on below it ("escaped"), and swallows what a resume throws
(`orchestrator.ts:8244`) and runs a full cycle after it ("caught"). Such an exception may come at
any step of the call.

| Action | Code |
|---|---|
| `StartDaemon`, `StartResume`, `StartOnce`, `WaitForWorkersToFinish` | `runDaemon`, `runResumeDispatch`, `runOnce`, session recovery and the wait at start-up |
| `LoopStop` .. `LoopPostCompletion` | the branches of the main loop, in the order the code tries them |
| `PlanCycle`, `ReviewCycle`, `AdmissionBlocked` | the stages of `runSingleCycle`; each may end the cycle |
| `SkipDispatch`, `CompleteSkipped` | the two writes of the stale-artifact fastpath |
| `BeginDispatch`, `ResumeRefused`, `ResumeDispatch` | the ways into the batch loop |
| `StopDispatch` .. `FailClose` | the batch loop: check, start, transient retry, result, report, record |
| `EscalationThrows`, `ResumeThrows` | the two catches of the main loop; an exception anywhere else ends the process and is a `Crash` |
| `RequestStop`, `RequestEscalation`, `Crash` | the environment |

The history variables (`done`, `waived`, `acked`, `restarted`, `posted`) exist for the
properties only: no guard reads them.

### DaemonLifecycle

Every process of the command line is a pid with a command and a program counter; each
`await` of `cli.ts` and `daemon_control.ts` is a step. A pid may be reused, by this program
or by another (`other`). Pid files have three states (missing, created but empty, written)
since `O_EXCL` creation and the write are two system calls. `killAllDaemonProcesses` reads
the list of processes in one step and terminates them one by one in later ones.
`ProcessTools` says whether `pgrep` and `ps` are installed, as several decisions fail open
without them.

### StateFile and EscalationQueue

`writeJsonAtomicSafe` is four steps: open the temporary file with truncation, write, rename,
and, after a failure, remove. What a writer holds is an open file and no name (`fd`): after
another writer's rename it writes into the state file itself. `EscalationQueue` gives each
call (append, resolve, closure) its read of the whole queue and the file's steps for its
write. An entry keeps its task, class, `resolved` flag and the mark of a closure;
`coldUpTo` tells which entries are older than the cooldown.

### DependencyWaves

One state machine step per turn of a loop: a task started, one dependency scanned, a task
left, one task swept, one conflict bumped. The resolver runs without interruption, so the
steps interleave with nothing; they are there because the loops are what can go wrong. The
list of tasks and their dependencies are chosen in the initial state, the pairs that share a
file where the code first reads the files. `rounds` counts the rounds of the relaxation.

### WorkerBatches

A plan is its place in the list and what the batching reads of it. Each stage of a cycle is
one action on the list of plans or of batches: `GateBlocks` and `GateAdmits` (the packet gate
and its repacking), `ExpandChains` (the handoff chain of a risky plan), then one of
`UsePrebatched` (Athena's indexes), `PackTokenFirst` (the default) and `PackByRole`,
`ApplyHardCap`, `Tighten`, `BlockOverStepped` or `SplitOverStepped`, and the loop: `StartBatch`,
`BatchSucceeds`, `BatchFails`, `Resume`. The packing is pure code without interleaving; it is
written as folds and maps over sequences.

### WorkerAttempts

`pc` is "idle", "session" while a worker runs, "returned" once the conversation has a status.
An answer is what a model may send as far as the gates look at it: a status, what it says of
access, which files it touched, and which evidence it lacks. The gates are applied in the
order of the code: `Parsed`, `Softened`, `Guarded`, `Owned`, `Gated` each turn one status into
the next, `Gaps` is the verification gate. `open` holds the unresolved escalations; `hot` is
the cooldown of an hour. What an escalation is kept under is a role and a text; the text is the
one the fingerprint sees, so all bundles have the same.

### TargetSession

Two actors, the daemon and the operator's command line, do jobs that are built alike: load
the session, write it back normalised, apply a change to the copy, write. Each await that
reads or writes a file is a step, and `Crash` ends either of them anywhere. A job that throws
ends the command, or the daemon (`Fails`): the main loop awaits `prepareTargetSessionForCycle`
and a full cycle outside any try (`orchestrator.ts:8124`, `cli.ts:1173`), so that it ends where
an archive or an onboarding throws. What is caught is the delivery inside that function, the
conclusion of a completed project, after which a new plan is made in the same cycle, and
the call of an escalation or a resume. An exception of an onboarding or of a file call, which
may come anywhere, is a `Crash`. `held` and `bound`
are the copies, everything above them in the list of variables is on disk. A session is its
id, its stage and whether its required inputs are given. `plan` is whom the plan set, the
review and the checkpoint are stamped with. The evaluation of the success contract gives any
of its statuses. The operator opens, points to, moves, archives and shows a session, answers a
question, and goes idle; the daemon onboards, plans, completes, promotes and archives.

`SessionLife` knows neither actors nor copies nor files, only the session that is open, its
stage and what is on record of it. It says when a session may be opened (there is none, or the
last was closed), by which rules its stage changes (a readiness evaluated, a question asked, an
answer that clarifies, a first clean wave, a completion after workers have run, or any stage by
the operator's hand), when workers may run, and that a session ends only once it is recorded as
archived, or when one is opened over it after it was closed. A load is a move to the same stage
there, since it takes back the record of an archive that a crash cut short; a step that writes
none of this is a stutter.

### Governance

A fresh cycle passes the gate (`Admitted`), runs its workers, and closes with seven steps in
the order of `runSingleCycle`: `PersistSlo`, `EvaluateBand`, `Detect`, `ApplyGuardrail` per
guardrail, `AutoRevert`, `RegisterDebt`. Each writes a file that the next gate reads; each may
throw and is then skipped, as the code does, or be the last before a crash. A resumed dispatch
passes the same gate (`Readmitted`) and does none of the seven. `Shut` is the disjunction of
the gates that depend on earlier cycles: the cascade's guardrail, the band, the debt, the
rolling yield and, before a fresh cycle, the guardrail that skips cycles. Refusals for any other reason are `Refused`.

## 3. What is checked

| Run | Question | Result |
|---|---|---|
| `dispatch` | Does any interleaving of commands, worker outcomes, a stop and a crash break the checkpoint? | `TypeOK`, `NoBatchSkipped`, `NoOrphanSession`, `SegmentCoversNext`, `NoRedoneBatch` hold; it implements `PlanLedger`; an interrupted dispatch is settled in the end |
| `dispatch_completion` | Is a completed plan set recognised? | violated, see below |
| `daemon` | Can two daemons run, a pid file name a wrong process, a request be lost? | all hold where the process tools are installed |
| `escalation_queue` | What survives overlapping calls, a crash and failing system calls? | the file and its content while calls take turns |
| `escalation_recovery` | Does a resolved escalation stay resolved? | violated, see below |
| `dependency_waves` | Are the verdict on cycles and the waves right, and does the relaxation end? | all hold |
| `worker_batches` | Does every plan end up in one batch, and which order of waves holds on which way? | all hold |
| `batch_waves` | Is a wave boundary a barrier? | violated, see below |
| `worker_attempts` | Is "done" verified, and what do alarms do to later batches? | all hold, two of them against comments, see below |
| `target_session` | Do two actors that take turns, and a crash, lose a session, run workers for a wrong one, or leave a closed one open? | all hold; it implements `SessionLife` |
| `target_overlap` | And a command given while the daemon is in a cycle? | `ArchivedStaysGone` violated, see below |
| `governance` | Does a gate shut when it should, and does it open again? | it shuts; it does not open, see below |

### Where code and comments disagree

* `dispatch_completion`: the dispatch signs the checkpoint over worker batches, the reader
  compares it with the plans, so a completed plan set is planned over and its
  post-completion step never runs.
* `daemon`: a second `stop` after two minutes takes the first back, clears the pid file and
  says that no daemon runs while it does. `StopTellsTruth`, added to `MCDaemonLifecycle.cfg` as
  a property, shows it.
* `escalation_recovery`: a resolve is undone by a call that read the queue before it.
* `batch_waves`: token-first batches, the default, are never sorted by wave: the batches of a
  role come one after the other, and a wave-2 batch of one role starts before the wave-1 batch
  of the next. Within a role waves are in turn, which `WavesInTurn` checks.
* `worker_batches` (`PrebatchedNeverSplit`): the split by ordered steps, and the block for a
  plan above the threshold, never apply to Athena's batches, which carry no count.
* `worker_attempts` (`OneAlarmPerRole`): the fingerprint of an escalation is that of the first
  200 characters of the task, which all bundles have in common: one alarm per role and hour,
  and a success of one batch settles the alarms of another.
* `worker_attempts` (`RerouteSticks`): a role once blocked on access never gets a session
  again, since only a session of that role would settle the entry.
* `worker_attempts` (`DoneIsVerified`): after a rework, the test the plan names is not owed.
* `target_overlap`: loading the session writes it back, so that the daemon, which loads it
  each cycle and holds it across an onboarding, undoes what a command wrote in between: an
  archived session comes back, a quarantine is lifted. With `Overlap` and enough commands
  every safety property of `target_session` but `TypeOK` fails in this way, `SessionLife`
  included.
* `target_session` (`ClarifiedBeforeWork`): a session may wait for an answer that no question
  asks for, and then no worker ever starts. `ClarificationAnswerable`, added to
  `MCTargetSession.cfg` as an invariant, shows it.
* `governance` (`ShutsForGood`, `BandNeverReached`): detection and the automatic revert run
  after a completed fresh dispatch, and the gates stop every dispatch: the cascade's guardrail
  never reverts by itself, and the autonomy band, which gets its samples from dispatches, is
  never reached once it is enabled.
* `governance` (`DebtStaysOpen`, `DebtNeverStopsWork`): debt is never closed by replay
  evidence, as no evidence with a replay contract reaches the ledger, and never blocks, as no
  entry gets the severity that blocks.

A property that a comment contradicts and the code keeps is a passing run: it says what the
code really does, for every bounded execution or, with its theorem, for all.

Observations without a run, most of them because no comment excludes them:

* An exception in a resumed batch, caught at `orchestrator.ts:8244`, leaves its session working.
  The process lives on, so no rule takes the session for stale, `hasActiveWorkersAsync` counts
  it, and every later resume is refused until a restart. `NoOrphanSession` and
  `InterruptedEventuallySettled` therefore except a session that was left so, and are violated
  if they do not.
* A chunk of dependent plans is said to cost its share, by number of plans, of what its pack
  costs (`worker_batch_planner.ts:1406`), and the tightening believes it. With a context of 10,
  one plan to a dependent batch and plans of 1 (dependent), 9 and 4 tokens, the second is said to
  cost 5 and is merged with the third: a batch of 13, said to be 9. `WithinContext` without its
  exception for the role split fails in that way. No comment promises that batches fit.
* A crash between the two writes of the closure fastpath makes the next daemon dispatch
  workers for a plan set that was closed: `WaivedNeverDispatched`, added to
  `MCDispatchCheckpoint.cfg` as an invariant, shows it.
* Without process tools (`ProcessTools = FALSE`, `Commands = {"start"}`) two starts both run:
  creation of the pid file is exclusive, but an empty file reads as stale.
* `assignWaves` may leave a wave empty. With tasks listed as 3, 1, 2, where 1 depends on 2, 2
  on 3, and 1 and 2 share a file, the first sweep puts 1 and 2 into one wave for a moment, 2
  is bumped, and the waves are 1, 3 and 4. The order is right, but the number of waves is one
  more than the dependencies need.
* Athena's indexes need not follow the waves: a batch may mix waves and have the lowest, and
  the stages of a chain may then run out of order.
* The tightening merges batches first-fit: it can join two that the packer kept apart because
  they touch one file. With `tightRoleWavePackingMaxMergedPlans` above 3 it exceeds the hard cap
  that holds "regardless of config state" (`orchestrator.ts:6374`).
* The repacking of the packet gate gives indexes to plans that had none, so that the rest of
  the cycle takes them for batches made by Athena.
* `dispatchWorker` copies neither the retry class nor the reason code of a result, so that the
  branches of `shouldFailCloseDispatchOutcome` that ask for them are never taken.
* An artifact missing on the last attempt blocks the batch without the alarm that other gaps
  raise, and the blocked batch, which a comment says is escalated "instead of looping"
  (`worker_runner.ts:4332`), is dispatched again by the main loop with a new budget.

### Bounds

* `dispatch`: two plan sets (of different length), segments of two batches, one transient
  retry, one crash or caught exception (`MaxCrashes` bounds both together), one stop. Two plan sets let one ledger replace another; a plan set longer
  than a segment makes the segment roll over; after the crash the system must still get there.
  The proofs need none of these bounds.
* `daemon`: four commands over two pids, so a pid is reused and two starts overlap; one
  process dies anywhere; one edit of the configuration falls on either side of a reload.
* `escalation_queue`: two calls at a time, three appends, a cap of two (so the cap drops an
  entry), one task whose entries the cooldown tells apart, and two classes: one that a
  recovery resolves, and one that a closure reassigns. Faults come only while calls take
  turns, a bound the proofs share: an overlap tears and loses files without them, and what is
  claimed of overlapping calls is the cooldown only, by its theorem.
* `dependency_waves`: four tasks, four dependencies and four conflicts, lists in rising,
  falling and mixed order, a name outside the list, a duplicate and the empty list. Four
  tasks make room for a cycle that the search enters from outside, for a task that two paths
  reach, and for a bump that a later sweep makes unnecessary.
* `worker_batches`: every list of up to three plans of two roles and two waves, with indexes or
  without; caps and token budgets are scaled down so that three plans reach and pass each of
  them. Waves go to four, as a chain adds two.
* `worker_attempts`: three batches, two of one role and one of a role exempt from verification,
  and the substitute's role; one rework, one transient retry, two alarms. Two batches of a role let an alarm
  of the first meet the second; the last attempt and one before it differ.
* `target_session`: two sessions, so one can be opened over another; four commands, one crash;
  the operator sets a stage by hand to `quarantined` or `completed` only. `Overlap = FALSE`: a
  command falls between the daemon's cycles, not inside one; either actor may still die
  anywhere and the other then meets what it left. That commands take turns with cycles is an
  assumption the code does not enforce; `target_overlap` drops it, with one session and two
  commands.
* `governance`: one follow-up, a breach limit, a band minimum and a yield minimum of two, a
  window of three, four cycles, one fault, one edit: each counter passes its limit with a cycle
  to spare. The proofs have any of them.

### Fairness

* `dispatch`: weak fairness of the process (Node runs what is ready); strong fairness of the
  daemon's start (a supervisor or an operator starts it again, though a stop may intervene);
  strong fairness of a worker's success and of the governance gate letting a resume pass: a
  worker that always fails, or a gate that never opens, does leave a dispatch interrupted, as
  the code intends. That a gate may in fact never open is what `governance` shows.
* `daemon`: weak fairness of each process's own steps. Nothing is assumed of the operator or
  of crashes.
* `target_session`: weak fairness of a command's steps and of the daemon's cycle, which sleeps
  and goes on, and is started again after a crash.
* Other runs check safety only. `dependency_waves` needs no fairness: the loop's rounds are
  bounded (`RelaxationLimited` for every plan set, `RoundsBounded` more tightly on the run's),
  and deadlock is checked, so the resolver ends.

Deadlock is not checked in `daemon`, where the bound on commands lets everything end, nor in
`worker_batches` and `batch_waves`, which end with the dispatch or with a gate that blocks.

## 4. What is proved

Each theorem holds for every value of the constants allowed by the named assumptions of its
module: the types and lower limits of the constants, that a queue that cannot be read is empty, and
that a risky plan has two waves to come. Two hypotheses are in the statements of theorems: for `DaemonLifecycle` that the process
tools are installed, and for `TargetSession` that commands and cycles take turns (`~Overlap`).
The code sees to neither; what happens without them is under "Where code and comments disagree"
and in the observations after it.

* `DispatchCheckpointProofs`. The inductive invariant `IInv` is `TypeOK`, `NoBatchSkipped`
  and three parts the runs do not mention: `LedgerShape` (the total is that of the plan set,
  the completed count never exceeds it, and what a dispatching ledger counts is done),
  `LoopPosition` (the batch loop works on the first batch that is not recorded, and between a
  worker's success and the record that batch is done) and `RecordKept` (a plan set not yet
  planned has no recorded batches, and no ledger falls behind what it recorded unless it was
  restarted). `NoBatchSkipped` alone is not inductive: between a worker's success and
  the record, only the loop position says that the batch recorded is the one that succeeded.
  `InOrderStart` and `NoRedoneBatch` are facts about one step from `IInv`;
  `ResumeFirst` (a cycle of the daemon gets to replace an interrupted checkpoint only if an
  escalation asked for it or an exception broke off the resume), `NoOrphanSession` and
  `SegmentCoversNext` are inductive relative to it, the latter by
  arithmetic about segments; the refinement of `PlanLedger` maps each action to a ledger
  action or a stutter.
* `DaemonLifecycleProofs`. Of two `start` processes that are both past their sweep, the one
  that swept last still has the other to kill (`Sweeping`): this, and not the exclusive creation
  of the pid file, is what keeps daemons apart. A daemon that has done its killing is therefore
  alone with the pid file (`PidFileOwned`) and with the reload request (`ReloadPending`). It
  holds for any number of pids, commands, crashes and edits.
* `EscalationQueueProofs`, on the file. `FileInv` says which shapes the two files have, that at
  most one writer is busy while writers take turns, and which of its steps it is at;
  `ReadsLastWritten` follows for any writers, values and number of faults.
* `EscalationQueueProofs`, on the queue. `QueueInv` asks of every content a file or a call holds that it is
  a queue and keeps the cooldown; that each held content does is what makes the cooldown
  survive lost updates. `TurnInv` ties, while calls take turns, the content being written to
  the call's result on the present queue, and the ids in the queue to the appends returned.
* `DependencyWavesProofs`. The search: the gray tasks are the stack, which is a path; what a
  task has not scanned is black, above it on the stack, or left to scan; and no closed set
  lies among black tasks while no cycle was reported. The last is kept since a task turning
  black leads to black tasks only, and it needs no induction over the graph. A back edge
  closes the path from its end. The relaxation: a round that has changed nothing yet has
  satisfied the tasks it swept, so a round that changed nothing satisfies all. The end of the
  relaxation (`RelaxInv`): a task is *due* in the wave it would get from the sweeps alone, so
  only a bump changes what is due. A bump of a task that is due later anyway changes nothing;
  another pushes on the task and what hangs on it, and may leave its wave empty. A gap of `g`
  such waves took `g` rounds to grow, and meanwhile the tasks of `g` ranks in the order of
  dependencies, one more rank in each round, have caught up beyond it (`CaughtUp`). A gap grows
  only where a task that has not caught up collides with one beyond, so none grows wider than
  there are ranks (`GapsBounded`). Since the due waves of `n` tasks with such gaps lie below
  `n * (n + 1)`, so do the waves (`WavesLimited`), and every round that changes something moves
  a task past a wave it never returns to (`RoundsPaid`), which bounds the rounds
  (`RelaxationLimited`).
* `GovernanceProofs`. A dispatch that runs has passed the gate, so the files that shut it say
  nothing while it runs (`GateWasOpen`); the band has then no sample on file (`BandInv`), and
  the cascade's alarm is not raised before the guardrails of that very cycle, so the step that
  would lift it finds the cascade it was raised for (`AlarmKept`). The order in which the
  executor takes its guardrails is used: the cascade's comes last and has the last word on the
  file.
* `WorkerAttemptsProofs`. What returns as "done" is verified because the gates leave no hole
  between them: the artifact gate passes a missing artifact only where the verification gate is
  asked and a rework is left (`DoneFacts`). A blocked role stays blocked because an entry is
  settled only by a session of its role, and a blocked role has none (`NoneRuns`).
* `TargetSessionProofs`. `TypeOK` is proved without a hypothesis, together with `InPlace` (which
  actor passes a point on which jobs). The other theorems suppose that a command falls between
  the daemon's cycles. Then an actor that has loaded the session is alone until it has written
  its change (`TakeTurns`), so that the copy it holds is what is on disk, and the mode it has
  read is the one on disk (`Holding`, `Pointing`); a crash cannot break this, as it loses the
  copy. The actor got to its change from a stage that allows it (`Serving`, `Saving`). On top of
  these stand the parts about the files: `Accounted` and `Logged` for the archive (only between
  its record and its removal may a session that is active have a line more than there were
  crashes), `OwnedByActive`, `Clarified` (a session once worked on is never onboarded again,
  which would open its contract) and `Delivered` (what is reported, handed over or completed was
  worked on). None of the run's invariants but `TypeOK` is inductive without the first group:
  what a save, a removal or a dispatch does is known only of the copy. The refinement of
  `SessionLife` maps each write to one of its actions. That each opened session is the active
  one or over, and never both, is then proved of `SessionLife` and carried over.
* `WorkerBatchesProofs`. A list of lists deals out a set when each member of the set is in one
  place of it and nothing else is (`Deals`). Chunks, packs, merges, splits and regrouping by
  role, wave or index each keep this, whatever their limits and costs are; so the batches hold
  (`Hold`, `Dealt`) the plans they were made from, under the same names, and no batch is empty.
  The order of the batches (`Turns`: by wave; for token-first batches by wave within a role) is
  kept where a batch gives way to others of its role and wave. `LoopFit` says that what is done
  is what the batches before the next one hold. `EveryPlanOnce` is the first part, `WavesInTurn`
  the second and the third together. The folds of the packers cannot be handled by induction
  over lists (see below); the module's first sections show instead that a fold is a function
  over the parts of a finite set of places, by well-founded choice, and give its value place
  by place, from which each packer is followed with a set of places closed under "one more".
  That a risky plan has two waves to come is assumed for its handoff chain, which takes them.
  That batches fit their model's context (`WithinContext`) is a second invariant (`RoomFit`) on
  top of the first. A batch's count of tokens goes stale: a chunk of the hard cap or a split pack
  keeps that of the batch it was cut from, and a merge adds such counts up. Where tokens come
  first, what is cut out of a list of plans costs no more than the list (`Pieces`), so a batch says
  at least what its plans cost (`Roomy`), and the tightening,
  which trusts what batches say, errs on the safe side. The role split gives a chunk of
  dependent plans a share of its pack's count (`Estimated`), which may be too low: there batches
  fit as they are packed and capped, and after the tightening only the cap on batches with
  dependencies is claimed. Each packer's packs fit when they are made (`Fine`: `FirstFitFine`,
  `PackedFine`, `CutFine`, `CompactedFine`). A single plan is let through whatever it costs, as
  in the code; batches of
  Athena's carry no counts, and nothing is claimed of them.

Proved but in no run, for they would repeat what the runs' properties ask: `InOrderStart`,
`ResumeFirst`, `OneOpenPerTask`, `SettledInTurn`, `OneDebtPerFollowUp`, `ReportedCyclesReal`,
`QuarantineHolds` and `OneAtATime`; `WavesBounded` and `RelaxationEnds`, which are too far
from what a small instance reaches for a run to tell anything; and `WithinContext`, which was
stated with its proof.

Only model-checked:

* The liveness properties (`InterruptedEventuallySettled`, `StopSettles`,
  `ClosedSessionArchived`): temporal properties under fairness and `ENABLED` are outside what
  the prover handles.
* `RoundsBounded`, the comment's O(n^2) taken as `n^2`. What is proved is cubic
  (`RelaxationEnds`): it counts one round for every wave a task can pass, though a round of
  sweeps moves many. A search for bad plan sets of up to 30 tasks found waves of about
  `(n + 1)^2 / 4`, so a bound linear in `n` fails for them, and rounds of about `n (n + 1) / 2`,
  never `n^2`; a measure of a state that gives such a bound was not found.
* Nothing else that a run checks. Of the folds of the packers it is proved where they put each
  plan and that packs stay within the context and the cap on dependent plans; that they leave no
  more batches than they need is not stated, and not promised by the code.

## 5. Plan

Done, in this order: dispatch and its ledger, daemon control, files and the escalation queue,
the dependency graph, the target session and its promise, governance, batching, worker attempts,
and the proofs about all of them. Left:

1. `DispatchCheckpoint` under two processes (`resume` beside the daemon), and the integrity
   envelope of the checkpoint engine.
2. The events of a child process in `spawnAsync` (timeout, abort, error, close) with the
   promise settled once, as a module that `WorkerAttempts` uses for its session.
3. The rollback engine, should its triggers ever be fed: its lock, levels and health check.

The project is kept to a dozen runs, so a new module gets one safety run, with its liveness in
it where the state space allows, and older runs are merged to make room.

## 6. What is not modelled, and why

Model calls (planner, reviewer, supervisor, researchers) are steps with any answer; prompt
construction, the parsing of answers, scoring, dashboards, reports and telemetry decide no
control state that another part depends on. They are also most of the source: the planner's,
the reviewer's and the dashboard's files alone are a fifth of it, and are prompts, parsing,
scores and HTML. Hashes and signatures are compared by what they are computed over. Time is
present only where the code compares ages: a session older than its process, a stop request
older than two minutes, an entry older than the cooldown.

Inside the modelled parts:

* `DependencyWaves`: path normalisation, field validation, critical-path scores and the
  readiness gate.
* `WorkerBatches`: microwaves, nucleus and frontier, compaction of single waves, conflict
  sub-groups, adaptive packet caps and waves taken from the graph, all off unless configured;
  the choice of model and role; telemetry.
* `WorkerAttempts`: the cap of the queue and closures (both in `EscalationQueue`), the spawn
  without an agent that follows a failed one, gaps of the generic verification, normalised
  globs on Windows, a `denied` answer that another guard would turn as well. The decision that
  `retry_strategy.ts` computes is recorded and followed by nothing.
* `TargetSession`: cloning and moving workspaces, the checks of an intake, the purge of
  archived artifacts, the boundary check over a worker's output.
* `Governance`: `PAUSE_WORKERS`, whose scenarios need blocked tasks or a budget breach that the
  caller never reports; guardrails for runaway retries, which stop nothing; a failed save of the
  breach streak; the cap of fifty postmortems; gates that throw and fail open; the manual
  override and revert, which nothing calls; the cap of a hundred history entries.

Left out as a whole, for they are reached by no dispatch: `evolution_executor.ts`,
`canary_engine.ts`, `medic_agent.ts` and `task_batcher.ts` are imported by no source file; the
governance canary is advanced with an empty list of outcomes; the rollback engine runs after a
canary breach, which has no samples to breach with, and after a verdict that is off by default.
`PROJECT.json` gives the reason for each component, and lists the hazards with the properties
that cover them.
