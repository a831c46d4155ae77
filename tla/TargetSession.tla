--------------------------- MODULE TargetSession ---------------------------
(***************************************************************************)
(* The life of a target session: the session file, the archive, the        *)
(* platform mode and the files a session owns, as the daemon's cycle and   *)
(* the operator's commands read and write them                             *)
(* (src/src/core/target_session_state.ts, mode_state.ts,                   *)
(* onboarding_runner.ts, clarification_runtime.ts, and                     *)
(* prepareTargetSessionForCycle of orchestrator.ts).                       *)
(*                                                                         *)
(* Both actors work alike: a job loads the session, which writes it back,  *)
(* and then applies a change to the copy it loaded.  A crash between any   *)
(* two steps loses the actor's copy and keeps the files.                   *)
(***************************************************************************)
EXTENDS Integers

CONSTANTS
  MaxSessions, \* bound: sessions opened
  MaxCommands, \* bound: commands the operator gives
  MaxCrashes,  \* bound: processes that die
  HandStages,  \* stages the operator gives to `target stage` and `target close`
  Overlap      \* commands are given while the daemon is in a cycle

Ids == 1..MaxSessions
NoId == 0

Open == {"onboarding", "awaiting_credentials", "awaiting_manual_step",
         "awaiting_intent_clarification", "shadow", "active", "quarantined"}
Closed == {"completed", "completed_with_handoff"}
Stages == Open \cup Closed
Executable == {"shadow", "active"}

ASSUME CountsAssumption ==
  MaxSessions \in Nat /\ MaxCommands \in Nat /\ MaxCrashes \in Nat
ASSUME HandStagesAssumption == HandStages \subseteq Stages
ASSUME OverlapAssumption == Overlap \in BOOLEAN

VARIABLES
  active,   \* active_target_session.json
  mode,     \* mode_state.json: the mode and the pointer to the session
  archived, \* sessions whose session_state.json says they are archived
  last,     \* last_archived_target_session.json
  lines,    \* lines[s]: entries of s in the archive logs
  handoff,  \* last_target_delivery_handoff.json: the session it is for
  report,   \* last_target_project_readiness.json
  contract, \* contract[s]: the intent contract file of s
  plan,     \* whom plan set, review and dispatch checkpoint are stamped with
  ledger,   \* completed_projects.json lists the repository
  opened,   \* sessions opened so far
  pc, job,  \* of each actor: where it is, and its job
  held,     \* held[a]: the session a has loaded
  modeRead, \* modeRead[a]: the mode a has loaded (the daemon's config.platformModeState)
  bound,    \* the daemon's config.activeTargetSession
  worked,   \* sessions whose workers have run
  gone,     \* history: sessions whose session file an archive has removed
  replaced, \* history: sessions that a new session was opened over
  moved,    \* history: sessions the operator has set a stage of
  commands, crashes

files == <<active, mode, archived, last, lines, handoff, report, contract, plan, ledger>>
local == <<pc, job, held, modeRead, bound>>
history == <<worked, gone, replaced, moved>>
bounds == <<opened, commands, crashes>>
vars == <<files, local, history, bounds>>

\* The gates of a session are those of its stage (buildDefaultStageGates): a save
\* that changes the one sets the other.
NoSession == [id |-> NoId, stage |-> "none", inputs |-> "none"]
Inputs == {"none", "respond", "question", "needed"}
Session == [id : Ids, stage : Stages, inputs : Inputs]

Idle == [current |-> "idle", ptr |-> NoId]
Target(s) == [current |-> "single_target_delivery", ptr |-> s]
TargetMode(m) == m.current = "single_target_delivery"

NoPlan == -1
Untargeted == 0

Daemon == "daemon"
Operator == "operator"
Actors == {Daemon, Operator}

NoJob == [op |-> "none", stage |-> "none", inputs |-> "none"]
Job(op, stage, inputs) == [op |-> op, stage |-> stage, inputs |-> inputs]

Init ==
  /\ active = NoSession /\ mode = Idle
  /\ archived = {} /\ last = NoSession /\ lines = [s \in Ids |-> 0]
  /\ handoff = NoId /\ report = [id |-> NoId, status |-> "open"]
  /\ contract = [s \in Ids |-> "none"]
  /\ plan = NoPlan /\ ledger = FALSE /\ opened = 0
  /\ pc = [a \in Actors |-> "down"] /\ job = [a \in Actors |-> NoJob]
  /\ held = [a \in Actors |-> NoSession]
  /\ modeRead = [a \in Actors |-> Idle] /\ bound = NoSession
  /\ worked = {} /\ gone = {} /\ replaced = {} /\ moved = {}
  /\ commands = 0 /\ crashes = 0

At(a, l) == pc[a] = l
Goto(a, l) == pc' = [pc EXCEPT ![a] = l]
Doing(a, op) == job[a].op = op

\* The daemon archives the session too when it concludes the project.
Archiving(a) == Doing(a, "archive") \/ Doing(a, "conclude")

(***************************************************************************)
(* The platform mode.                                                      *)
(***************************************************************************)
\* normalizePlatformModeState: the session file is trusted over the pointer.
Normalised(m, session) ==
  LET ptr == IF session = NoSession THEN m.ptr ELSE session.id
  IN  IF TargetMode(m) /\ ptr # NoId THEN Target(ptr) ELSE Idle

\* loadPlatformModeState reads both files and writes the mode back.
ReadMode(a) ==
  /\ At(a, "mode")
  /\ modeRead' = [modeRead EXCEPT ![a] = Normalised(mode, active)]
  /\ Goto(a, "modewrite")
  /\ UNCHANGED <<files, job, held, bound, history, bounds>>

\* It is the first step of a cycle, and the last of an archive and of a command.
WriteMode(a) ==
  /\ At(a, "modewrite")
  /\ mode' = modeRead[a]
  /\ Goto(a, IF a = Operator THEN "down"
             ELSE IF Doing(a, "archive") THEN "sleep"
             ELSE IF Doing(a, "conclude") THEN "work" ELSE "load")
  /\ bound' = IF a = Daemon /\ Archiving(a) THEN NoSession ELSE bound
  /\ UNCHANGED <<active, archived, last, lines, handoff, report, contract, plan, ledger,
                 job, held, modeRead, history, bounds>>

(***************************************************************************)
(* loadActiveTargetSession, with which every job begins: a read, and a     *)
(* write of what was read.                                                 *)
(***************************************************************************)
Begins(a, j) ==
  /\ pc' = [pc EXCEPT ![a] = "load"]
  /\ job' = [job EXCEPT ![a] = j]

Load(a) ==
  /\ At(a, "load")
  /\ held' = [held EXCEPT ![a] = active]
  /\ Goto(a, IF active = NoSession THEN "apply" ELSE "rewrite")
  /\ UNCHANGED <<files, job, modeRead, bound, history, bounds>>

\* The session file and session_state.json get what was read.
Rewrite(a) ==
  /\ At(a, "rewrite")
  /\ active' = held[a]
  /\ archived' = archived \ {held[a].id}
  /\ Goto(a, "apply")
  /\ UNCHANGED <<mode, last, lines, handoff, report, contract, plan, ledger,
                 job, held, modeRead, bound, history, bounds>>

\* saveActiveTargetSession: a session that replaces another removes the files the
\* other owned.
Save(s) ==
  /\ active' = s
  /\ archived' = archived \ {s.id}
  /\ plan' = IF active.id = s.id THEN plan ELSE NoPlan
  /\ handoff' = IF active.id = s.id THEN handoff ELSE NoId
  /\ UNCHANGED <<mode, last, lines, report, ledger>>

\* A command that went well prints the status, which loads the mode.
Finishes(a) == Goto(a, IF a = Operator THEN "mode" ELSE "sleep")

\* A process ends, and what it had in memory is lost.
Ends(a) ==
  /\ Goto(a, "down")
  /\ job' = [job EXCEPT ![a] = NoJob]
  /\ held' = [held EXCEPT ![a] = NoSession]
  /\ modeRead' = [modeRead EXCEPT ![a] = Idle]
  /\ bound' = IF a = Daemon THEN NoSession ELSE bound

\* A job that throws ends the command, or the daemon: the loop awaits
\* prepareTargetSessionForCycle and a cycle outside any try.  It catches what the
\* delivery, the conclusion of a project and a cycle for an escalation throw, and
\* goes on.
Fails(a) ==
  /\ \/ a = Daemon /\ Doing(a, "complete") /\ Goto(a, "stage")
        /\ UNCHANGED <<job, held, modeRead, bound>>
     \/ a = Daemon /\ job[a].op \in {"conclude", "promote"} /\ Goto(a, "work")
        /\ UNCHANGED <<job, held, modeRead, bound>>
     \/ job[a].op \notin {"complete", "conclude"} /\ Ends(a)
  /\ UNCHANGED <<files, history, bounds>>

NoSessionThrows(a) ==
  /\ At(a, "apply") /\ held[a] = NoSession
  /\ job[a].op \in {"move", "complete", "promote", "archive", "conclude", "answer"}
  /\ Fails(a)

(***************************************************************************)
(* transitionActiveTargetSession: any stage follows any other.             *)
(***************************************************************************)
Transition(a) ==
  /\ At(a, "apply") /\ held[a] # NoSession
  /\ job[a].op \in {"move", "complete", "promote"}
  /\ LET s == [held[a] EXCEPT !.stage = job[a].stage,
                              !.inputs = IF Doing(a, "complete") THEN job[a].inputs ELSE @]
     IN  /\ Save(s)
         /\ bound' = IF a = Daemon THEN s ELSE bound
         /\ moved' = IF a = Operator THEN moved \cup {s.id} ELSE moved
  /\ IF Doing(a, "complete") THEN Goto(a, "stage") ELSE Finishes(a)
  /\ UNCHANGED <<contract, job, held, modeRead, worked, gone, replaced, bounds>>

(***************************************************************************)
(* archiveTargetSession.                                                   *)
(***************************************************************************)
\* The completion record, session_state.json, the last archived session and a line
\* in the log are written together.
Record(a) ==
  /\ At(a, "apply") /\ Archiving(a) /\ held[a] # NoSession
  /\ archived' = archived \cup {held[a].id}
  /\ last' = [held[a] EXCEPT !.stage = job[a].stage]
  /\ lines' = [lines EXCEPT ![held[a].id] = @ + 1]
  /\ Goto(a, "remove")
  /\ UNCHANGED <<active, mode, handoff, report, contract, plan, ledger,
                 job, held, modeRead, bound, history, bounds>>

Remove(a) ==
  /\ At(a, "remove")
  /\ active' = NoSession
  /\ gone' = gone \cup {held[a].id}
  /\ Goto(a, "setidle")
  /\ UNCHANGED <<mode, archived, last, lines, handoff, report, contract, plan, ledger,
                 job, held, modeRead, bound, worked, replaced, moved, bounds>>

\* Mutant: the pointer outlives the session.
SetIdleKeepsPointer(a) ==
  /\ At(a, "setidle")
  /\ mode' = [Idle EXCEPT !.ptr = held[a].id]
  /\ Goto(a, "mode")
  /\ UNCHANGED <<active, archived, last, lines, handoff, report, contract, plan, ledger,
                 job, held, modeRead, bound, history, bounds>>

SetIdle(a) ==
  /\ At(a, "setidle")
  /\ mode' = Idle
  /\ Goto(a, "mode")
  /\ UNCHANGED <<active, archived, last, lines, handoff, report, contract, plan, ledger,
                 job, held, modeRead, bound, history, bounds>>

(***************************************************************************)
(* createTargetSession, and the onboarding that `activate` adds.           *)
(***************************************************************************)
OpenRefused(a) ==
  /\ At(a, "apply") /\ Doing(a, "open") /\ held[a].stage \in Open
  /\ Fails(a)

New == [id |-> opened + 1, stage |-> "onboarding", inputs |-> "none"]

\* Mutant: a session may be opened over an open one.
ClearOwnedAnyway(a) ==
  /\ At(a, "apply") /\ Doing(a, "open") /\ opened < MaxSessions
  /\ held' = [held EXCEPT ![a] = New]
  /\ plan' = NoPlan /\ handoff' = NoId
  /\ Goto(a, "create")
  /\ UNCHANGED <<active, mode, archived, last, lines, report, contract, ledger,
                 job, modeRead, bound, history, bounds>>

\* Mutant: the delivery handoff is not among the files of a session.
ClearOwnedPlan(a) ==
  /\ At(a, "apply") /\ Doing(a, "open") /\ held[a].stage \notin Open
  /\ opened < MaxSessions
  /\ held' = [held EXCEPT ![a] = New]
  /\ plan' = NoPlan
  /\ Goto(a, "create")
  /\ UNCHANGED <<active, mode, archived, last, lines, handoff, report, contract, ledger,
                 job, modeRead, bound, history, bounds>>

ClearOwned(a) ==
  /\ At(a, "apply") /\ Doing(a, "open") /\ held[a].stage \notin Open
  /\ opened < MaxSessions
  /\ held' = [held EXCEPT ![a] = New]
  /\ plan' = NoPlan /\ handoff' = NoId
  /\ Goto(a, "create")
  /\ UNCHANGED <<active, mode, archived, last, lines, report, contract, ledger,
                 job, modeRead, bound, history, bounds>>

Create(a) ==
  /\ At(a, "create")
  /\ active' = held[a]
  /\ opened' = held[a].id
  /\ replaced' = IF active.stage \in Closed THEN replaced \cup {active.id} ELSE replaced
  /\ Goto(a, "point")
  /\ UNCHANGED <<mode, archived, last, lines, handoff, report, contract, plan, ledger,
                 job, held, modeRead, bound, worked, gone, moved, commands, crashes>>

\* Also `mode single_target_delivery`, which asks for a session.
Point(a) ==
  /\ \/ At(a, "point")
     \/ At(a, "apply") /\ Doing(a, "point") /\ held[a] # NoSession
  /\ mode' = Target(held[a].id)
  /\ Finishes(a) \/ (Doing(a, "open") /\ Goto(a, "onboard"))
  /\ UNCHANGED <<active, archived, last, lines, handoff, report, contract, plan, ledger,
                 job, held, modeRead, bound, history, bounds>>

\* Mutant: a ready workspace goes straight to planning.
ReadinessUnasked == {"awaiting_credentials", "awaiting_manual_step", "shadow"}

\* evaluateTargetReadiness.  Its risk is never high, so it never quarantines.
Readiness == {"awaiting_credentials", "awaiting_manual_step", "awaiting_intent_clarification"}

Evaluated(s, stage) ==
  [s EXCEPT !.stage = stage,
            !.inputs = IF stage = "awaiting_intent_clarification" THEN "respond" ELSE "needed"]

\* The contract with its questions is on disk before the session asks for answers.
Onboard(a) ==
  /\ At(a, "onboard")
  /\ LET s == IF a = Daemon THEN bound ELSE held[a]
     IN  \E stage \in Readiness :
           /\ held' = [held EXCEPT ![a] = Evaluated(s, stage)]
           /\ contract' = IF stage = "awaiting_intent_clarification"
                          THEN [contract EXCEPT ![s.id] = "open"] ELSE contract
  /\ Goto(a, "save")
  /\ UNCHANGED <<active, mode, archived, last, lines, handoff, report, plan, ledger,
                 job, modeRead, bound, history, bounds>>

\* Saves what Onboard or Answer has made of the session.
SaveHeld(a) ==
  /\ At(a, "save")
  /\ Save(held[a])
  /\ bound' = IF a = Daemon THEN held[a] ELSE bound
  /\ Finishes(a)
  /\ UNCHANGED <<contract, job, held, modeRead, history, bounds>>

(***************************************************************************)
(* submitTargetClarificationAnswer.                                        *)
(***************************************************************************)
Answerable(s) ==
  /\ s.stage \in {"awaiting_intent_clarification", "shadow"}
  /\ contract[s.id] = "open"

AnswerRefused(a) ==
  /\ At(a, "apply") /\ Doing(a, "answer") /\ held[a] # NoSession
  /\ ~Answerable(held[a])
  /\ Fails(a)

\* The session after an answer: ready, or asked the next question.
Answered(s, stage) ==
  [s EXCEPT !.stage = stage,
            !.inputs = IF stage \notin Executable THEN "question"
                       ELSE IF @ = "respond" THEN "none" ELSE @]

\* Every question is answered and a field is missing still: "stuck".
Answer(a) ==
  /\ At(a, "apply") /\ Doing(a, "answer") /\ held[a] # NoSession
  /\ Answerable(held[a])
  /\ \/ \E state \in {"open", "stuck"} :
          /\ contract' = [contract EXCEPT ![held[a].id] = state]
          /\ held' = [held EXCEPT ![a] = Answered(@, "awaiting_intent_clarification")]
     \/ \E stage \in Executable :
          /\ contract' = [contract EXCEPT ![held[a].id] = "ready"]
          /\ held' = [held EXCEPT ![a] = Answered(@, stage)]
  /\ Goto(a, "save")
  /\ UNCHANGED <<active, mode, archived, last, lines, handoff, report, plan, ledger,
                 job, modeRead, bound, history, bounds>>

(***************************************************************************)
(* The daemon: prepareTargetSessionForCycle.                               *)
(***************************************************************************)
Turn(a) == Overlap \/ \A b \in Actors \ {a} : pc[b] \in {"down", "sleep"}

StartDaemon ==
  /\ At(Daemon, "down") /\ Turn(Daemon)
  /\ Goto(Daemon, "mode")
  /\ job' = [job EXCEPT ![Daemon] = Job("start", "none", "none")]
  /\ UNCHANGED <<files, held, modeRead, bound, history, bounds>>

Wake ==
  /\ At(Daemon, "sleep") /\ Turn(Daemon)
  /\ Goto(Daemon, "mode")
  /\ job' = [job EXCEPT ![Daemon] = Job("cycle", "none", "none")]
  /\ UNCHANGED <<files, held, modeRead, bound, history, bounds>>

\* bindRuntimeTargetContext.  The start-up onboards before its first cycle.
Bind ==
  /\ At(Daemon, "apply") /\ job[Daemon].op \in {"start", "cycle"}
  /\ bound' = held[Daemon]
  /\ Goto(Daemon, IF Doing(Daemon, "cycle") THEN "freeze"
                  ELSE IF TargetMode(modeRead[Daemon]) /\ bound'.stage = "onboarding"
                       THEN "onboard" ELSE "sleep")
  /\ UNCHANGED <<files, job, held, modeRead, history, bounds>>

\* prepareTerminalTargetCompletionFreeze archives a closed session that was handed
\* over, whatever the mode, and rests once there is nothing but that archive.
HandedOver(s) == s.stage \in Closed /\ handoff = s.id
Rests == ~TargetMode(modeRead[Daemon]) /\ bound = NoSession /\ HandedOver(last)

FreezeArchives ==
  /\ At(Daemon, "freeze") /\ HandedOver(bound)
  /\ Begins(Daemon, Job("archive", bound.stage, "none"))
  /\ UNCHANGED <<files, held, modeRead, bound, history, bounds>>

Freeze ==
  /\ At(Daemon, "freeze") /\ ~HandedOver(bound)
  /\ Goto(Daemon, IF Rests THEN "sleep"
                  ELSE IF ~TargetMode(modeRead[Daemon]) THEN "work"
                  ELSE IF bound = NoSession THEN "sleep" ELSE "guard")
  /\ UNCHANGED <<files, job, held, modeRead, bound, history, bounds>>

\* A delivery that was presented before completes the session.
HandoffGuard ==
  /\ At(Daemon, "guard") /\ handoff = bound.id
  /\ Begins(Daemon, Job("complete", "completed", "none"))
  /\ UNCHANGED <<files, held, modeRead, bound, history, bounds>>

\* evaluateTargetSuccessContract: a fulfilled contract has evidence of workers, and
\* inputs that are pending make it one with a handoff.
Statuses(s) ==
  IF s.id \notin worked THEN {"open"}
  ELSE {"open", IF s.inputs = "none" THEN "fulfilled" ELSE "fulfilled_with_handoff"}

\* A terminal report on disk outweighs the one computed, which replaces it.
Evaluate ==
  /\ At(Daemon, "guard") /\ handoff # bound.id
  /\ \E status \in Statuses(bound) :
       LET found == IF report.id = bound.id /\ report.status # "open"
                    THEN report.status ELSE status
       IN  /\ report' = [id |-> bound.id, status |-> status]
           /\ IF found = "open" THEN Goto(Daemon, "stage") /\ UNCHANGED job
              ELSE /\ Goto(Daemon, "present")
                   /\ job' = [job EXCEPT ![Daemon] =
                        IF found = "fulfilled" THEN Job("complete", "completed", "none")
                        ELSE Job("complete", "completed_with_handoff", "needed")]
  /\ UNCHANGED <<active, mode, archived, last, lines, handoff, contract, plan, ledger,
                 held, modeRead, bound, history, bounds>>

\* performTargetDeliveryHandoff, before the transition.
Present ==
  /\ At(Daemon, "present")
  /\ handoff' = bound.id
  /\ Begins(Daemon, job[Daemon])
  /\ UNCHANGED <<active, mode, archived, last, lines, report, contract, plan, ledger,
                 held, modeRead, bound, history, bounds>>

\* Mutant: a quarantined session is worked on.
StageIgnoresQuarantine ==
  /\ At(Daemon, "stage") /\ bound.stage \in Open
  /\ Goto(Daemon, CASE bound.stage \in {"onboarding", "awaiting_credentials",
                                        "awaiting_manual_step"} -> "onboard"
                    [] bound.stage = "awaiting_intent_clarification" -> "sleep"
                    [] bound.stage \in Executable \cup {"quarantined"} -> "work")
  /\ UNCHANGED <<files, job, held, modeRead, bound, history, bounds>>

\* Mutant: the readiness of a quarantined session is evaluated anew.
StageRefreshesQuarantine ==
  /\ At(Daemon, "stage") /\ bound.stage \in Open
  /\ Goto(Daemon, CASE bound.stage \in {"onboarding", "awaiting_credentials",
                                        "awaiting_manual_step", "quarantined"} -> "onboard"
                    [] bound.stage = "awaiting_intent_clarification" -> "sleep"
                    [] bound.stage \in Executable -> "work")
  /\ UNCHANGED <<files, job, held, modeRead, bound, history, bounds>>

Stage ==
  /\ At(Daemon, "stage") /\ bound.stage \in Open
  /\ Goto(Daemon, CASE bound.stage \in {"onboarding", "awaiting_credentials",
                                        "awaiting_manual_step"} -> "onboard"
                    [] bound.stage \in {"awaiting_intent_clarification",
                                        "quarantined"} -> "sleep"
                    [] bound.stage \in Executable -> "work")
  /\ UNCHANGED <<files, job, held, modeRead, bound, history, bounds>>

\* Mutant: a closed session waits, as a quarantined one does.
StageArchivesNever ==
  /\ At(Daemon, "stage") /\ bound.stage \in Closed
  /\ Goto(Daemon, "sleep")
  /\ UNCHANGED <<files, job, held, modeRead, bound, history, bounds>>

StageArchives ==
  /\ At(Daemon, "stage") /\ bound.stage \in Closed
  /\ Begins(Daemon, Job("archive", bound.stage, "none"))
  /\ UNCHANGED <<files, held, modeRead, bound, history, bounds>>

(***************************************************************************)
(* The daemon's cycle, as far as it is about the session.                  *)
(***************************************************************************)
\* resolveRuntimeTargetSessionStamp; a file stamped for another is not there.
Stamp == IF TargetMode(modeRead[Daemon]) /\ bound # NoSession THEN bound.id ELSE Untargeted
AllPlansDone == plan = Stamp /\ Stamp \in worked

\* The repository enters the ledger of completed projects once.  A new plan is made
\* in the same cycle, whatever becomes of the archive.
CompleteProject ==
  /\ At(Daemon, "work") /\ AllPlansDone /\ ~ledger
  /\ ledger' = TRUE
  /\ Begins(Daemon, Job("conclude", IF bound.inputs = "none" THEN "completed"
                                    ELSE "completed_with_handoff", "none"))
  /\ UNCHANGED <<active, mode, archived, last, lines, handoff, report, contract, plan,
                 held, modeRead, bound, history, bounds>>

PlanCycle ==
  /\ At(Daemon, "work")
  /\ plan' = Stamp
  /\ Goto(Daemon, "review")
  /\ UNCHANGED <<active, mode, archived, last, lines, handoff, report, contract, ledger,
                 job, held, modeRead, bound, history, bounds>>

Resume ==
  /\ At(Daemon, "work") /\ ~Doing(Daemon, "conclude") /\ plan = Stamp
  /\ Goto(Daemon, "dispatch")
  /\ UNCHANGED <<files, job, held, modeRead, bound, history, bounds>>

\* The verdict is put into the session file in target mode: a rejection over the
\* intent, another one, or the approval, after which the dispatch follows.
Review ==
  /\ At(Daemon, "review")
  /\ IF TargetMode(modeRead[Daemon])
     THEN \E op \in {"intent", "rejected", "approved"} :
            Begins(Daemon, Job(op, "none", "none"))
     ELSE /\ Goto(Daemon, "dispatch") \/ Goto(Daemon, "sleep")
          /\ UNCHANGED job
  /\ UNCHANGED <<files, held, modeRead, bound, history, bounds>>

\* persistSingleTargetAthenaFeedback and clearSingleTargetFeedbackFlags.
Feedback ==
  /\ At(Daemon, "apply") /\ job[Daemon].op \in {"intent", "rejected", "approved"}
  /\ IF held[Daemon] = NoSession
     THEN UNCHANGED <<active, mode, archived, last, lines, handoff, report, plan, ledger>>
     ELSE \E i \in {"none", "needed"} :
            Save(CASE Doing(Daemon, "intent") ->
                        [held[Daemon] EXCEPT !.stage = "awaiting_intent_clarification",
                                             !.inputs = "needed"]
                   [] Doing(Daemon, "rejected") -> [held[Daemon] EXCEPT !.inputs = i]
                   [] Doing(Daemon, "approved") -> held[Daemon])
  /\ Goto(Daemon, IF Doing(Daemon, "approved") THEN "dispatch" ELSE "sleep")
  /\ UNCHANGED <<contract, job, held, modeRead, bound, history, bounds>>

\* Workers run in the bound session's workspace, or in the root without one; the
\* first clean wave of a shadow session promotes it.
Dispatch ==
  /\ At(Daemon, "dispatch")
  /\ worked' = worked \cup ({Stamp} \ {Untargeted})
  /\ \/ Goto(Daemon, "sleep") /\ UNCHANGED job
     \/ /\ TargetMode(modeRead[Daemon]) /\ bound.stage = "shadow"
        /\ Begins(Daemon, Job("promote", "active", "none"))
  /\ UNCHANGED <<files, held, modeRead, bound, gone, replaced, moved, bounds>>

(***************************************************************************)
(* The operator, and crashes.                                              *)
(***************************************************************************)
OperatorJobs ==
  {Job(op, "none", "none") : op \in {"open", "answer", "point", "status"}}
  \cup {Job("move", stage, "none") : stage \in HandStages}
  \cup {Job("archive", stage, "none") : stage \in HandStages \cup {"completed"}}

Command ==
  /\ At(Operator, "down") /\ Turn(Operator) /\ commands < MaxCommands
  /\ \E j \in OperatorJobs : Begins(Operator, j)
  /\ Doing(Operator, "open")' => opened < MaxSessions
  /\ commands' = commands + 1
  /\ UNCHANGED <<files, held, modeRead, bound, history, opened, crashes>>

\* `mode idle` does not load the session.
GoIdle ==
  /\ At(Operator, "down") /\ Turn(Operator) /\ commands < MaxCommands
  /\ mode' = Idle
  /\ commands' = commands + 1
  /\ UNCHANGED <<active, archived, last, lines, handoff, report, contract, plan, ledger,
                 local, history, opened, crashes>>

\* `target status`, and `mode single_target_delivery` without a session.
Status(a) ==
  /\ At(a, "apply")
  /\ Doing(a, "status") \/ (Doing(a, "point") /\ held[a] = NoSession)
  /\ Finishes(a)
  /\ UNCHANGED <<files, job, held, modeRead, bound, history, bounds>>

Crash(a) ==
  /\ ~At(a, "down") /\ crashes < MaxCrashes
  /\ Ends(a)
  /\ crashes' = crashes + 1
  /\ UNCHANGED <<files, history, opened, commands>>

SessionStep(a) ==
  \/ ReadMode(a) \/ WriteMode(a) \/ Load(a) \/ Rewrite(a) \/ NoSessionThrows(a)
  \/ Transition(a) \/ Record(a) \/ Remove(a) \/ SetIdle(a) \/ Onboard(a) \/ SaveHeld(a)

CommandStep ==
  \/ SessionStep(Operator) \/ OpenRefused(Operator) \/ ClearOwned(Operator)
  \/ Create(Operator) \/ Point(Operator) \/ AnswerRefused(Operator) \/ Answer(Operator)
  \/ Status(Operator)

CycleStep ==
  \/ SessionStep(Daemon) \/ StartDaemon \/ Wake \/ Bind \/ FreezeArchives \/ Freeze
  \/ HandoffGuard \/ Evaluate \/ Present \/ Stage \/ StageArchives
  \/ CompleteProject \/ PlanCycle \/ Resume \/ Review \/ Feedback \/ Dispatch

Next ==
  \/ Command \/ GoIdle \/ CommandStep \/ CycleStep
  \/ \E a \in Actors : Crash(a)

Spec == Init /\ [][Next]_vars

\* A command runs to its end, and the daemon is started again and goes on.
FairSpec == Spec /\ WF_vars(CommandStep) /\ WF_vars(CycleStep)
-----------------------------------------------------------------------------
Points == {"down", "sleep", "mode", "modewrite", "load", "rewrite", "apply", "remove",
           "setidle", "create", "point", "onboard", "save", "freeze", "guard", "present",
           "stage", "work", "review", "dispatch"}
Modes == {Idle} \cup {Target(s) : s \in Ids}
Jobs == [op : {"none", "start", "cycle", "status", "move", "complete", "promote",
               "archive", "conclude", "open", "point", "answer", "intent", "rejected", "approved"},
         stage : Stages \cup {"none"}, inputs : Inputs]

TypeOK ==
  /\ active \in Session \cup {NoSession} /\ last \in Session \cup {NoSession}
  /\ mode \in Modes /\ modeRead \in [Actors -> Modes]
  /\ archived \subseteq Ids /\ lines \in [Ids -> Nat]
  /\ handoff \in Ids \cup {NoId}
  /\ report \in [id : Ids \cup {NoId},
                 status : {"open", "fulfilled", "fulfilled_with_handoff"}]
  /\ contract \in [Ids -> {"none", "open", "stuck", "ready"}]
  /\ plan \in Ids \cup {NoPlan, Untargeted} /\ ledger \in BOOLEAN
  /\ pc \in [Actors -> Points] /\ job \in [Actors -> Jobs]
  /\ held \in [Actors -> Session \cup {NoSession}]
  /\ bound \in Session \cup {NoSession}
  /\ worked \subseteq Ids /\ gone \subseteq Ids /\ replaced \subseteq Ids
  /\ moved \subseteq Ids
  /\ opened \in 0..MaxSessions /\ commands \in 0..MaxCommands /\ crashes \in 0..MaxCrashes

\* A session that an archive has removed is never the active one again, so that no
\* worker starts for it: "returns cleanly to self_dev after target archive"
\* (src/tests/core/target_session_state.test.ts:297).
ArchivedStaysGone == active.id \notin gone

\* While commands and cycles take turns, a session that was opened is the active
\* one, or is archived, or was closed when a new one was opened over it: none is
\* lost and none comes back. The archive logs a session once, and again only after
\* a crash.
EverySessionAccounted ==
  /\ ArchivedStaysGone
  /\ \A s \in 1..opened :
       active.id = s \/ s \in archived \/ s \in replaced
  /\ \A s \in Ids : lines[s] <= 1 + crashes

\* Workers that run for a target run for the session that is open, at a stage that
\* allows it, under a mode that points to it.
WorkersServeOpenSession ==
  (At(Daemon, "dispatch") /\ TargetMode(modeRead[Daemon])) =>
    /\ active.id = bound.id /\ active.stage \in Executable
    /\ mode = Target(active.id) /\ plan = active.id

\* No worker runs for a session before its intent was clarified, unless the
\* operator set its stage by hand.
ClarifiedBeforeWork == \A s \in worked \ moved : contract[s] = "ready"

\* What is on disk of a delivery, and of a plan for a target, is the active session's.
OwnedByActive ==
  active # NoSession => handoff \in {NoId, active.id} /\ plan \in {NoPlan, Untargeted, active.id}

\* Only the operator moves a session out of quarantine, but for its completion.
QuarantineHolds ==
  [][\A s \in Ids :
       (active.id = s /\ active.stage = "quarantined" /\ active'.id = s)
         => active'.stage \in Closed \cup {"quarantined"} \/ pc'[Operator] # pc[Operator]]_vars

\* A closed session is archived, while the daemon delivers for a target.
ClosedSessionArchived ==
  (active.stage \in Closed /\ TargetMode(mode)) ~> (active.stage \notin Closed \/ ~TargetMode(mode))

\* A session that awaits clarification has a question that the operator can answer.
ClarificationAnswerable ==
  (active.stage = "awaiting_intent_clarification" /\ At(Daemon, "sleep") /\ At(Operator, "down"))
    => Answerable(active)

Life == INSTANCE SessionLife WITH
  current <- active.id, stage <- active.stage, recorded <- archived,
  ended <- gone \cup replaced, ready <- {s \in Ids : contract[s] = "ready"}

\* While commands and cycles take turns, the session files keep the promises of
\* SessionLife, on every way a crash, a command or a cycle may take.
LifeImplemented == Life!Spec
=============================================================================
