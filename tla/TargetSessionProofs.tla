------------------------- MODULE TargetSessionProofs -------------------------
(***************************************************************************)
(* Proofs about TargetSession for every number of sessions, commands and   *)
(* crashes, and every set of stages that the operator may give by hand.    *)
(*                                                                         *)
(* The types are kept in any case.  The other theorems suppose ~Overlap:   *)
(* no command is given while the daemon is in a cycle.  The code does not  *)
(* see to that, and MCTargetOverlap.cfg shows what becomes of them         *)
(* without it.                                                             *)
(*                                                                         *)
(* The argument: an actor that has loaded the session is alone until it    *)
(* has written its change (TakeTurns), so that what it holds is what is on *)
(* disk (Holding, Pointing), and it got to its change from a stage that    *)
(* allows it (Serving, Saving).  What the session is worth then follows    *)
(* from the files alone: Accounted and Logged of the archive, Clarified of *)
(* the contract, Delivered of the report and the handoff.                  *)
(***************************************************************************)
EXTENDS TargetSession, TLAPS

\* The stages from which the readiness of a session is evaluated.
Unready == {"onboarding", "awaiting_credentials", "awaiting_manual_step"}
\* Where an actor is on its way from a job to the change it makes.
Changing == {"load", "rewrite", "apply"}

\* Which actor passes a point, on which jobs, and with which session.
InPlace ==
  /\ pc[Operator] \notin {"sleep", "freeze", "guard", "present", "stage", "work", "review",
                          "dispatch"}
  /\ pc[Daemon] \notin {"create", "point"}
  /\ job[Operator].op \in {"none", "open", "answer", "point", "status", "move", "archive"}
  /\ job[Daemon].op \in {"none", "start", "cycle", "complete", "promote", "archive",
                         "conclude", "intent", "rejected", "approved"}
  /\ pc[Daemon] \in {"mode", "modewrite"} =>
       job[Daemon].op \in {"start", "cycle", "archive", "conclude"}
  /\ pc[Daemon] = "present" => Doing(Daemon, "complete")
  /\ \A a \in Actors :
       /\ job[a].op \in {"move", "archive", "conclude", "complete", "promote"} =>
            job[a].stage \in Stages
       /\ Doing(a, "complete") => job[a].stage \in Closed
       /\ Doing(a, "promote") => job[a].stage = "active"
       /\ pc[a] \in {"remove", "setidle"} => Archiving(a)
       /\ pc[a] \in {"rewrite", "remove", "setidle", "create", "point", "save"}
            => held[a] # NoSession
  /\ pc[Operator] = "onboard" => held[Operator] # NoSession
  /\ \/ pc[Daemon] \in {"guard", "present", "stage", "onboard"}
     \/ pc[Daemon] \in Changing /\ job[Daemon].op \in {"complete", "conclude"}
     => bound # NoSession

\* One of the two rests.
TakeTurns == pc[Operator] = "down" \/ pc[Daemon] \in {"down", "sleep"}

\* What an actor has loaded is what is on disk.
Holding ==
  /\ \A a \in Actors :
       /\ pc[a] \in {"rewrite", "apply", "remove"} => held[a] = active
       /\ pc[a] = "save" => held[a].id = active.id
       /\ pc[a] = "remove" => held[a].id \in archived
  /\ pc[Operator] \in {"point", "onboard"} =>
       held[Operator] = active /\ active.stage = "onboarding"
  /\ pc[Operator] = "create" =>
       /\ held[Operator] = New /\ active.stage \notin Open
       /\ plan = NoPlan /\ handoff = NoId
  /\ \/ pc[Daemon] \in {"freeze", "guard", "present", "stage", "work", "review", "dispatch",
                        "onboard"}
     \/ pc[Daemon] \in Changing /\ job[Daemon].op \notin {"start", "cycle"}
     => bound = active
  /\ pc[Daemon] \in {"setidle", "mode", "modewrite"} /\ Doing(Daemon, "conclude")
       => active = NoSession

\* A cycle goes on under the mode it has read, which points to its session, or is idle
\* once the cycle has archived it.
Pointing ==
  /\ pc[Daemon] \notin {"down", "sleep", "mode"} =>
       /\ active # NoSession /\ TargetMode(modeRead[Daemon]) => modeRead[Daemon] = Target(active.id)
       /\ pc[Daemon] # "modewrite" => mode = modeRead[Daemon]
  /\ pc[Daemon] = "mode" /\ Doing(Daemon, "conclude") => mode = Idle
  /\ pc[Daemon] = "modewrite" /\ Doing(Daemon, "conclude") => modeRead[Daemon] = Idle

\* The stages from which a cycle gets to work and to each of its changes.
Serving ==
  /\ pc[Daemon] \in {"work", "review", "dispatch"} /\ TargetMode(modeRead[Daemon])
       => bound.stage \in Executable
  /\ pc[Daemon] \in Changing /\ job[Daemon].op \in {"intent", "rejected", "approved"}
       => TargetMode(modeRead[Daemon]) /\ bound.stage \in Executable
  /\ pc[Daemon] \in Changing /\ Doing(Daemon, "promote") => bound.stage = "shadow"
  /\ pc[Daemon] = "onboard" => bound.stage \in Unready
  /\ pc[Daemon] = "save" => active.stage \in Unready
  /\ \/ pc[Daemon] \in {"review", "dispatch"} /\ TargetMode(modeRead[Daemon])
     \/ pc[Daemon] \in Changing /\ Doing(Daemon, "approved")
     => plan = bound.id

\* The active session is not one that was removed, and none is missing.
Accounted ==
  /\ gone \subseteq 1..opened /\ worked \subseteq 1..opened /\ active.id <= opened
  /\ active.id \notin gone
  /\ \A s \in 1..opened : active.id = s \/ s \in archived \/ s \in replaced

\* A session has a line in the log for each crash at most, until it is recorded.
Logged ==
  \A s \in Ids :
    /\ lines[s] <= 1 + crashes
    /\ s > opened => lines[s] = 0
    /\ (active.id = s /\ \A a \in Actors : pc[a] # "remove") => lines[s] <= crashes

\* An executable session has its contract ready, and one that was worked on is never
\* asked again.
Clarified ==
  /\ \A s \in worked \ moved :
       /\ contract[s] = "ready"
       /\ active.id = s => active.stage \notin Unready
  /\ (active.id \notin moved /\ active.stage \in Executable) => contract[active.id] = "ready"
  /\ \A a \in Actors : pc[a] = "save" =>
       /\ held[a].id \notin worked \ moved
       /\ held[a].stage \in Executable => contract[held[a].id] = "ready"

\* A save is of a readiness that was evaluated, or of an answer.
Saving ==
  \A a \in Actors : pc[a] = "save" =>
    \/ active.stage \in Unready /\ held[a].stage \in Readiness
    \/ /\ active.stage \in {"awaiting_intent_clarification", "shadow"}
       /\ held[a].stage \in {"awaiting_intent_clarification"} \cup Executable

\* What is reported, handed over and completed is a session that was worked on.
Delivered ==
  /\ report.status # "open" => report.id \in worked
  /\ handoff # NoId => handoff \in worked
  /\ \/ pc[Daemon] = "present"
     \/ pc[Daemon] \in Changing /\ Doing(Daemon, "complete")
     => bound.id \in worked

USE CountsAssumption, HandStagesAssumption, OverlapAssumption

\* The values of the sessions, the modes and the jobs.
LEMMA Values ==
  /\ NoSession \notin Session
  /\ \A s \in Session : s.id \in Ids /\ s.stage \in Stages /\ s.inputs \in Inputs
  /\ Idle \in Modes /\ \A i \in Ids : Target(i) \in Modes
  /\ \A m \in Modes : m.ptr = NoId \/ m.ptr \in Ids
  /\ NoJob \in Jobs /\ OperatorJobs \subseteq Jobs
<1>1. NoSession \notin Session
  BY DEF Session, NoSession, NoId, Ids
<1>2. \A s \in Session : s.id \in Ids /\ s.stage \in Stages /\ s.inputs \in Inputs
  BY DEF Session
<1>3. Idle \in Modes /\ \A i \in Ids : Target(i) \in Modes
  BY DEF Modes
<1>4. ASSUME NEW m \in Modes PROVE m.ptr = NoId \/ m.ptr \in Ids
  <2>1. m = Idle \/ \E s \in Ids : m = Target(s)
    BY DEF Modes
  <2> QED BY <2>1 DEF Idle, Target
<1>5. NoJob \in Jobs
  BY DEF NoJob, Jobs, Inputs
<1>6. OperatorJobs \subseteq Jobs
  BY DEF OperatorJobs, Job, Jobs, Stages, Closed, Inputs
<1> QED BY <1>1, <1>2, <1>3, <1>4, <1>5, <1>6

\* What an actor has at the points where it uses it.
LEMMA Carried ==
  ASSUME TypeOK, InPlace
  PROVE  /\ \A a \in Actors :
              (held[a] # NoSession \/ pc[a] \in {"rewrite", "remove", "create", "point", "save"})
                => held[a] \in Session /\ held[a].id \in Ids /\ held[a].stage \in Stages
         /\ pc[Operator] = "onboard" => held[Operator] \in Session /\ held[Operator].id \in Ids
         /\ pc[Daemon] \in {"guard", "present", "stage", "onboard"}
              => bound \in Session /\ bound.id \in Ids /\ bound.stage \in Stages
<1>1. \A a \in Actors : held[a] \in Session \cup {NoSession}
  BY DEF TypeOK
<1>2. bound \in Session \cup {NoSession}
  BY DEF TypeOK
<1> QED BY <1>1, <1>2, Values DEF InPlace, Doing, Archiving, Actors, Operator

\* What a readiness evaluation, an answer and a transition make of a session.
LEMMA Restaged ==
  ASSUME NEW s \in Session, NEW stage \in Stages, NEW i \in Inputs
  PROVE  /\ [s EXCEPT !.stage = stage] \in Session
         /\ [s EXCEPT !.inputs = i] \in Session
         /\ [s EXCEPT !.stage = stage, !.inputs = i] \in Session
BY DEF Session

\* Where a cycle goes from the stage of its session.
LEMMA StageGoes ==
  ASSUME Stage, TypeOK
  PROVE  /\ UNCHANGED <<files, job, held, modeRead, bound, history, bounds>>
         /\ \/ bound.stage \in Unready /\ Goto(Daemon, "onboard")
            \/ Goto(Daemon, "sleep")
            \/ bound.stage \in Executable /\ Goto(Daemon, "work")
BY DEF Stage, TypeOK, Open, Executable, Unready

\* A transition changes the stage of the session it found.
LEMMA Transitions ==
  ASSUME TypeOK, InPlace, Holding, NEW a \in Actors, Transition(a)
  PROVE  /\ active \in Session /\ held[a] = active
         /\ active' \in Session /\ active'.id = active.id /\ active'.stage = job[a].stage
         /\ archived' = archived \ {active.id} /\ plan' = plan /\ handoff' = handoff
         /\ bound' = IF a = Daemon THEN active' ELSE bound
         /\ moved' = IF a = Operator THEN moved \cup {active.id} ELSE moved
<1> DEFINE s == [held[a] EXCEPT !.stage = job[a].stage,
                                !.inputs = IF Doing(a, "complete") THEN job[a].inputs ELSE @]
<1>1. active \in Session /\ held[a] = active /\ job[a].stage \in Stages /\ job[a].inputs \in Inputs
  BY Carried DEF Transition, At, Holding, InPlace, Doing, Archiving, TypeOK, Jobs
<1>2. s \in Session /\ s.id = active.id /\ s.stage = job[a].stage
  BY <1>1, Restaged DEF Session
<1>3. /\ Save(s) /\ bound' = IF a = Daemon THEN s ELSE bound
      /\ moved' = IF a = Operator THEN moved \cup {s.id} ELSE moved
  BY DEF Transition
<1> QED BY <1>1, <1>2, <1>3 DEF Save

\* A review's feedback keeps the session, and an approval all of it.
LEMMA FeedbackKeeps ==
  ASSUME TypeOK, InPlace, Holding, Feedback
  PROVE  /\ held[Daemon] = active /\ active' \in Session \cup {NoSession}
         /\ active'.id = active.id
         /\ active'.stage \in {active.stage, "awaiting_intent_clarification"}
         /\ Doing(Daemon, "approved") => active' = active
         /\ archived' = IF active = NoSession THEN archived ELSE archived \ {active.id}
         /\ plan' = plan /\ handoff' = handoff
         /\ UNCHANGED <<mode, last, lines, report, ledger>>
<1>1. held[Daemon] = active
  BY DEF Feedback, At, Holding, Actors
<1>2. CASE held[Daemon] = NoSession
  BY <1>1, <1>2 DEF Feedback, TypeOK
<1>3. CASE held[Daemon] # NoSession
  <2>1. active \in Session
    BY <1>1, <1>3 DEF TypeOK
  <2>2. PICK s : /\ Save(s)
                 /\ \/ s = [active EXCEPT !.stage = "awaiting_intent_clarification",
                                          !.inputs = "needed"]
                       /\ ~Doing(Daemon, "approved")
                    \/ (\E i \in {"none", "needed"} : s = [active EXCEPT !.inputs = i])
                       /\ ~Doing(Daemon, "approved")
                    \/ s = active
    BY <1>1, <1>3 DEF Feedback, Doing
  <2>3. "awaiting_intent_clarification" \in Stages /\ {"needed", "none"} \subseteq Inputs
    BY DEF Stages, Open, Inputs
  <2>4. /\ [active EXCEPT !.stage = "awaiting_intent_clarification", !.inputs = "needed"]
             \in Session
        /\ \A i \in {"none", "needed"} : [active EXCEPT !.inputs = i] \in Session
    BY <2>1, <2>3, Restaged
  <2>5. /\ s \in Session /\ s.id = active.id
        /\ s.stage \in {active.stage, "awaiting_intent_clarification"}
        /\ Doing(Daemon, "approved") => s = active
    BY <2>1, <2>2, <2>4 DEF Session
  <2> QED BY <1>1, <1>3, <2>2, <2>5 DEF Save
<1> QED BY <1>2, <1>3

\* A readiness evaluation is of a session that no worker has run for, and never makes
\* it executable.
LEMMA Onboards ==
  ASSUME TypeOK, InPlace, Holding, Serving, NEW a \in Actors, Onboard(a)
  PROVE  /\ active \in Session /\ active.stage \in Unready
         /\ held'[a] \in Session /\ held'[a].id = active.id
         /\ held'[a].stage \in Readiness /\ held'[a].stage \notin Executable
         /\ \A b \in Actors \ {a} : held'[b] = held[b]
         /\ contract' \in [Ids -> {"none", "open", "stuck", "ready"}]
         /\ \A s \in Ids \ {active.id} : contract'[s] = contract[s]
<1> DEFINE s == IF a = Daemon THEN bound ELSE held[a]
<1>1. s \in Session /\ s = active /\ active.stage \in Unready
  BY Carried DEF Onboard, At, Actors, Holding, Serving, Unready
<1>2. \A stage \in Readiness :
        /\ Evaluated(s, stage) \in Session /\ Evaluated(s, stage).id = s.id
        /\ Evaluated(s, stage).stage \in Readiness /\ Evaluated(s, stage).stage \notin Executable
  <2>1. Readiness \subseteq Stages /\ {"respond", "needed"} \subseteq Inputs
    BY DEF Readiness, Stages, Open, Inputs
  <2>2. Readiness \cap Executable = {}
    BY DEF Readiness, Executable
  <2> QED BY <1>1, <2>1, <2>2, Restaged DEF Evaluated, Session
<1>3. PICK stage \in Readiness :
        /\ held' = [held EXCEPT ![a] = Evaluated(s, stage)]
        /\ contract' = IF stage = "awaiting_intent_clarification"
                       THEN [contract EXCEPT ![s.id] = "open"] ELSE contract
  BY DEF Onboard
<1> QED BY <1>1, <1>2, <1>3 DEF TypeOK

\* An answer goes to a contract that is open, and makes the session executable only
\* with the contract ready.
LEMMA Answers ==
  ASSUME TypeOK, InPlace, Holding, NEW a \in Actors, Answer(a)
  PROVE  /\ active \in Session /\ contract[active.id] = "open"
         /\ active.stage \in {"awaiting_intent_clarification", "shadow"}
         /\ held'[a].stage \in {"awaiting_intent_clarification"} \cup Executable
         /\ held'[a] \in Session /\ held'[a].id = active.id
         /\ \A b \in Actors \ {a} : held'[b] = held[b]
         /\ contract' \in [Ids -> {"none", "open", "stuck", "ready"}]
         /\ \A s \in Ids \ {active.id} : contract'[s] = contract[s]
         /\ held'[a].stage \in Executable => contract'[active.id] = "ready"
<1>1. held[a] = active /\ active \in Session /\ active.id \in Ids
  BY Carried DEF Answer, At, Holding
<1>2. \A stage \in {"awaiting_intent_clarification"} \cup Executable :
        /\ Answered(active, stage) \in Session /\ Answered(active, stage).id = active.id
        /\ Answered(active, stage).stage = stage
  <2>1. /\ {"awaiting_intent_clarification"} \cup Executable \subseteq Stages
        /\ {"question", "none"} \subseteq Inputs
    BY DEF Stages, Open, Inputs, Executable
  <2> QED BY <1>1, <2>1, Restaged, Values DEF Answered, Session
<1>3. PICK stage \in {"awaiting_intent_clarification"} \cup Executable,
           state \in {"open", "stuck", "ready"} :
        /\ held' = [held EXCEPT ![a] = Answered(active, stage)]
        /\ contract' = [contract EXCEPT ![active.id] = state]
        /\ stage \in Executable => state = "ready"
  BY <1>1 DEF Answer, TypeOK, Executable
<1> QED BY <1>1, <1>2, <1>3 DEF TypeOK, Answer, Answerable

\* A command that throws ends; the daemon ends too, or goes on with its cycle.
LEMMA FailsWhere ==
  ASSUME NEW a \in Actors, Fails(a)
  PROVE  /\ UNCHANGED <<files, history, bounds>>
         /\ \/ Ends(a)
            \/ /\ a = Daemon /\ UNCHANGED <<job, held, modeRead, bound>>
               /\ \/ Doing(Daemon, "complete") /\ Goto(Daemon, "stage")
                  \/ job[Daemon].op \in {"conclude", "promote"} /\ Goto(Daemon, "work")
BY DEF Fails

\* The types are kept, given where each actor can be.
LEMMA TypeStep ==
  ASSUME TypeOK, InPlace, [Next]_vars PROVE TypeOK'
<1>1. CASE UNCHANGED vars
  BY <1>1 DEF vars, files, local, history, bounds, TypeOK, Actors, Daemon, Operator, NoId,
     NoPlan, Untargeted, Points
<1>2. CASE Command
  BY <1>2, Values DEF Command, Actors, Begins, files, history, TypeOK, Points
<1>3. CASE GoIdle
  BY <1>3, Values DEF GoIdle, local, history, TypeOK
<1>4. ASSUME NEW a \in Actors, Crash(a) PROVE TypeOK'
  BY <1>4, Values DEF Crash, Goto, Ends, files, history, TypeOK, Points
<1>5. ASSUME NEW a \in Actors, SessionStep(a) PROVE TypeOK'
  <2>1. CASE ReadMode(a) \/ WriteMode(a) \/ Load(a) \/ Rewrite(a)
    BY <2>1, Values DEF ReadMode, Normalised, NoId, Goto, files, history, bounds, WriteMode,
       Archiving, Doing, Load, Rewrite, TypeOK, Points
  <2>2. CASE NoSessionThrows(a) \/ SetIdle(a) \/ SaveHeld(a)
    BY <2>2, Values DEF NoSessionThrows, Fails, Ends, Goto, Doing, files, history, bounds,
       SetIdle, SaveHeld, Save, Finishes, TypeOK, Points
  <2>3. CASE Transition(a)
    <3> DEFINE s == [held[a] EXCEPT !.stage = job[a].stage,
                              !.inputs = IF Doing(a, "complete") THEN job[a].inputs ELSE @]
    <3>1. held[a] \in Session /\ job[a].stage \in Stages /\ job[a].inputs \in Inputs
      BY <2>3, Carried DEF Transition, InPlace, Doing, Archiving, TypeOK, Jobs
    <3>2. s \in Session
      BY <3>1, Restaged, Values
    <3>3. active' = s /\ plan' \in {plan, NoPlan} /\ handoff' \in {handoff, NoId}
      BY <2>3 DEF Transition, Save
    <3>4. moved' \subseteq Ids /\ (bound' = s \/ bound' = bound)
      BY <2>3, <3>2, Values DEF Transition, TypeOK
    <3>5. archived' \subseteq Ids
      BY <2>3 DEF Transition, Save, TypeOK
    <3> QED BY <2>3, <3>2, <3>3, <3>4, <3>5 DEF Transition, Save, Finishes, Goto, bounds, TypeOK,
       Points
  <2>4. CASE Record(a)
    <3>1. held[a] \in Session /\ held[a].id \in Ids /\ job[a].stage \in Stages
      BY <2>4, Carried DEF Record, Archiving, InPlace, Doing
    <3>2. last' \in Session
      BY <2>4, <3>1, Restaged, Values DEF Record, Doing, Archiving
    <3>3. archived' \subseteq Ids /\ lines' \in [Ids -> Nat]
      BY <2>4, <3>1 DEF Record, Doing, Archiving, TypeOK
    <3> QED BY <2>4, <3>2, <3>3 DEF Record, Doing, Archiving, Goto, history, bounds, TypeOK,
       Points
  <2>5. CASE Remove(a)
    BY <2>5, Carried DEF Remove, At, Goto, bounds, TypeOK, Points
  <2>6. CASE Onboard(a)
    <3> DEFINE s == IF a = Daemon THEN bound ELSE held[a]
    <3>1. s \in Session
      BY <2>6, Carried DEF Onboard, At, Actors
    <3>2. \A stage \in Readiness : Evaluated(s, stage) \in Session
      <4>1. Readiness \subseteq Stages /\ {"respond", "needed"} \subseteq Inputs
        BY DEF Readiness, Stages, Open, Inputs
      <4> QED BY <3>1, <4>1, Restaged DEF Evaluated
    <3>3. held' \in [Actors -> Session \cup {NoSession}]
      BY <2>6, <3>2 DEF Onboard, TypeOK
    <3>4. contract' \in [Ids -> {"none", "open", "stuck", "ready"}]
      BY <2>6 DEF Onboard, TypeOK
    <3> QED BY <2>6, <3>3, <3>4 DEF Onboard, Goto, history, bounds, TypeOK, Points
  <2> QED BY <1>5, <2>1, <2>2, <2>3, <2>4, <2>5, <2>6 DEF SessionStep
<1>6. CASE CommandStep
  <2>1. CASE OpenRefused(Operator) \/ AnswerRefused(Operator) \/ Status(Operator)
    BY <2>1, Values DEF OpenRefused, Fails, Doing, Ends, Goto, files, history, bounds,
       AnswerRefused, Status, Finishes, TypeOK, Points
  <2>2. CASE ClearOwned(Operator)
    <3>1. New \in Session
      BY <2>2 DEF ClearOwned, New, Session, TypeOK, Ids, Stages, Open, Inputs
    <3> QED BY <2>2, <3>1 DEF ClearOwned, Goto, history, bounds, TypeOK, Points
  <2>3. CASE Create(Operator)
    <3>1. held[Operator] \in Session /\ held[Operator].id \in Ids
      BY <2>3, Carried DEF Create, At, Actors
    <3>2. opened' \in 0..MaxSessions
      BY <2>3, <3>1 DEF Create, Ids
    <3>3. replaced' \subseteq Ids
      <4>1. active.stage \in Closed => active \in Session
        BY DEF TypeOK, NoSession, Closed
      <4> QED BY <2>3, <4>1, Values DEF Create, TypeOK
    <3> QED BY <2>3, <3>1, <3>2, <3>3 DEF Create, Goto, TypeOK, Points
  <2>4. CASE Point(Operator)
    BY <2>4, Values, Carried DEF Point, At, Finishes, Goto, history, bounds, TypeOK, Actors,
       Points
  <2>5. CASE Answer(Operator)
    <3>1. held[Operator] \in Session
      BY <2>5, Carried DEF Answer, Actors
    <3>2. \A stage \in {"awaiting_intent_clarification", "shadow", "active"} :
            Answered(held[Operator], stage) \in Session
      <4>1. /\ {"awaiting_intent_clarification", "shadow", "active"} \subseteq Stages
            /\ {"question", "none"} \subseteq Inputs
        BY DEF Stages, Open, Inputs
      <4> QED BY <3>1, <4>1, Restaged, Values DEF Answered
    <3>3. held' \in [Actors -> Session \cup {NoSession}]
      BY <2>5, <3>2 DEF Answer, TypeOK, Executable
    <3>4. contract' \in [Ids -> {"none", "open", "stuck", "ready"}]
      BY <2>5 DEF Answer, TypeOK
    <3> QED BY <2>5, <3>3, <3>4 DEF Answer, Goto, history, bounds, TypeOK, Points
  <2> QED BY <1>5, <1>6, <2>1, <2>2, <2>3, <2>4, <2>5 DEF CommandStep, Actors
<1>7. CASE CycleStep
  <2>1. CASE Bind \/ Freeze \/ PlanCycle \/ Resume
    BY <2>1, Values DEF Bind, Goto, files, history, bounds, Freeze, PlanCycle, Stamp, Resume,
       TypeOK, Actors, Points
  <2>2. CASE StartDaemon
    BY <2>2 DEF StartDaemon, Actors, Goto, Job, files, history, bounds, TypeOK, Points, Jobs,
       Inputs
  <2>3. CASE Wake
    BY <2>3 DEF Wake, Actors, Goto, Job, files, history, bounds, TypeOK, Points, Jobs, Inputs
  <2>4. CASE FreezeArchives
    BY <2>4 DEF FreezeArchives, HandedOver, Begins, Job, files, history, bounds, TypeOK, Actors,
       Points, Jobs, Stages, Inputs
  <2>5. CASE HandoffGuard
    BY <2>5 DEF HandoffGuard, Begins, Job, files, history, bounds, TypeOK, Actors, Points, Jobs,
       Stages, Closed, Inputs
  <2>6. CASE Evaluate
    BY <2>6, Carried DEF Evaluate, At, Statuses, Goto, Job, history, bounds, TypeOK, Actors,
       Operator, Points, Jobs, Stages, Closed, Inputs
  <2>7. CASE Present
    BY <2>7, Carried DEF Present, At, Begins, history, bounds, TypeOK, Actors, Points
  <2>8. CASE Stage
    <3>1. pc' \in [Actors -> Points]
      BY <2>8 DEF Stage, TypeOK, Points, Goto, Open, Executable
    <3> QED BY <2>8, <3>1 DEF Stage, files, history, bounds, TypeOK
  <2>9. CASE StageArchives
    BY <2>9, Carried DEF StageArchives, At, Begins, Job, files, history, bounds, TypeOK, Actors,
       Points, Jobs, Inputs
  <2>10. CASE CompleteProject
    BY <2>10 DEF CompleteProject, Begins, Job, history, bounds, TypeOK, Actors, Points, Jobs,
       Stages, Closed, Inputs
  <2>11. CASE Review
    BY <2>11 DEF Review, Begins, Job, Goto, files, history, bounds, TypeOK, Actors, Operator,
       Points, Jobs, Inputs
  <2>12. CASE Feedback
    <3>1. active' \in Session \cup {NoSession}
      <4>1. CASE held[Daemon] = NoSession
        BY <2>12, <4>1 DEF Feedback, TypeOK
      <4>2. CASE held[Daemon] # NoSession
        <5>1. held[Daemon] \in Session
          BY <4>2, Carried DEF Actors
        <5>2. /\ "awaiting_intent_clarification" \in Stages
              /\ {"needed", "none"} \subseteq Inputs
          BY DEF Stages, Open, Inputs
        <5>3. \/ active' = [held[Daemon] EXCEPT !.stage = "awaiting_intent_clarification",
                                               !.inputs = "needed"]
              \/ \E i \in {"none", "needed"} : active' = [held[Daemon] EXCEPT !.inputs = i]
              \/ active' = held[Daemon]
          BY <2>12, <4>2 DEF Feedback, Save, Doing
        <5>4. \A i \in {"none", "needed"} : [held[Daemon] EXCEPT !.inputs = i] \in Session
          BY <5>1, <5>2, Restaged
        <5>5. [held[Daemon] EXCEPT !.stage = "awaiting_intent_clarification",
                                   !.inputs = "needed"] \in Session
          BY <5>1, <5>2, Restaged
        <5> QED BY <5>1, <5>3, <5>4, <5>5
      <4> QED BY <4>1, <4>2
    <3>2. /\ archived' \subseteq archived
          /\ plan' = plan \/ plan' = NoPlan
          /\ handoff' = handoff \/ handoff' = NoId
          /\ UNCHANGED <<mode, last, lines, report, ledger>>
      BY <2>12 DEF Feedback, Save
    <3> QED BY <2>12, <3>1, <3>2 DEF Feedback, Goto, history, bounds, TypeOK, Points
  <2>13. CASE Dispatch
    <3>1. worked' \subseteq Ids
      BY <2>13, Values DEF Dispatch, Stamp, Untargeted, TypeOK
    <3>2. job' \in [Actors -> Jobs]
      BY <2>13 DEF Dispatch, Begins, Job, Jobs, Stages, Open, Inputs, TypeOK
    <3> QED BY <2>13, <3>1, <3>2 DEF Dispatch, Begins, Goto, files, bounds, TypeOK, Points
  <2> QED BY <1>5, <1>7, <2>1, <2>2, <2>3, <2>4, <2>5, <2>6, <2>7, <2>8, <2>9, <2>10, <2>11,
     <2>12, <2>13 DEF CycleStep, Actors
<1> QED BY <1>1, <1>2, <1>3, <1>4, <1>6, <1>7 DEF Next

\* An actor gets to a point only on a job of that point, and with the session it uses
\* there.
LEMMA InPlaceStep ==
  ASSUME TypeOK, InPlace, [Next]_vars PROVE InPlace'
<1>1. CASE UNCHANGED vars
  BY <1>1 DEF vars, files, local, history, bounds, InPlace, Archiving, Operator, Daemon, Doing,
     Actors, Changing, TypeOK
<1>2. CASE Command
  BY <1>2 DEF Command, At, Operator, Daemon, OperatorJobs, Job, Begins, Doing, InPlace,
     Archiving, Stages, Closed
<1>3. CASE GoIdle
  BY <1>3 DEF GoIdle, local, InPlace, Archiving, Doing
<1>4. ASSUME NEW a \in Actors, Crash(a) PROVE InPlace'
  BY <1>4 DEF Crash, Goto, Ends, NoJob, InPlace, Archiving, Doing, TypeOK
<1>5. ASSUME NEW a \in Actors, SessionStep(a) PROVE InPlace'
  <2>1. CASE ReadMode(a) \/ WriteMode(a) \/ Load(a) \/ Rewrite(a)
    BY <2>1 DEF ReadMode, At, Goto, WriteMode, Archiving, Doing, Load, Rewrite, InPlace, Actors,
       Changing, TypeOK
  <2>2. CASE Record(a) \/ Remove(a) \/ SetIdle(a)
    BY <2>2 DEF At, Goto, Doing, Record, Archiving, Remove, SetIdle, InPlace, Actors, Changing,
       TypeOK
  <2>3. CASE SaveHeld(a)
    BY <2>3 DEF SaveHeld, At, Daemon, Finishes, Goto, Operator, InPlace, Archiving, Doing
  <2>4. CASE Transition(a)
    <3>1. held[a].id # NoId
      BY <2>4, Carried DEF Transition, Ids, NoId
    <3>2. bound' = bound \/ bound'.id = held[a].id
      <4>1. held[a] \in Session
        BY <2>4, Carried DEF Transition
      <4> QED BY <2>4, <4>1 DEF Transition, Session
    <3>3. bound' # NoSession \/ bound' = bound
      BY <3>1, <3>2 DEF NoSession
    <3> QED BY <2>4, <3>3 DEF Transition, Finishes, Goto, At, InPlace, Archiving, Changing,
       Doing, TypeOK, Actors, Daemon, Operator
  <2>5. CASE Onboard(a)
    <3> DEFINE s == IF a = Daemon THEN bound ELSE held[a]
    <3>1. s \in Session /\ s.id \in Ids
      BY <2>5, Carried DEF Onboard, At, Actors
    <3>2. \A stage \in Readiness : Evaluated(s, stage).id = s.id
      BY <3>1 DEF Evaluated, Session
    <3>3. held'[a] # NoSession
      BY <2>5, <3>1, <3>2 DEF Onboard, NoSession, NoId, Ids, TypeOK
    <3> QED BY <2>5, <3>3 DEF Onboard, Goto, At, InPlace, Archiving, Changing, Doing, TypeOK,
       Actors, Daemon, Operator
  <2>6. CASE NoSessionThrows(a)
    BY <2>6, FailsWhere DEF NoSessionThrows, At, Ends, NoJob, Goto, Doing, Archiving, InPlace,
       Actors, Daemon, Operator, Changing, TypeOK
  <2> QED BY <1>5, <2>1, <2>2, <2>3, <2>4, <2>5, <2>6 DEF SessionStep
<1>6. CASE CommandStep
  <2>1. CASE Create(Operator) \/ Point(Operator)
    BY <2>1 DEF At, Doing, Goto, Create, Point, Finishes, InPlace, Archiving, Actors, TypeOK
  <2>2. CASE Status(Operator)
    BY <2>2 DEF Status, Doing, Finishes, Goto, InPlace, Archiving
  <2>3. CASE ClearOwned(Operator)
    <3>1. New # NoSession
      BY DEF New, NoSession, NoId, TypeOK
    <3> QED BY <2>3, <3>1 DEF ClearOwned, Goto, At, InPlace, Archiving, Changing, Doing, TypeOK,
       Actors, Daemon, Operator
  <2>4. CASE Answer(Operator)
    <3>1. held[Operator] \in Session /\ held[Operator].id \in Ids
      BY <2>4, Carried DEF Answer, Actors
    <3>2. \A stage \in Stages : Answered(held[Operator], stage).id = held[Operator].id
      BY <3>1 DEF Answered, Session
    <3>3. held'[Operator] # NoSession
      BY <2>4, <3>1, <3>2 DEF Answer, NoSession, NoId, Ids, TypeOK, Actors, Stages, Open,
         Executable
    <3> QED BY <2>4, <3>3 DEF Answer, Goto, At, InPlace, Archiving, Changing, Doing, TypeOK,
       Actors, Daemon, Operator
  <2>5. CASE OpenRefused(Operator) \/ AnswerRefused(Operator)
    BY <2>5, FailsWhere DEF OpenRefused, AnswerRefused, At, Ends, NoJob, Goto, Doing, Archiving,
       InPlace, Actors, Daemon, Operator, Changing, TypeOK
  <2> QED BY <1>5, <1>6, <2>1, <2>2, <2>3, <2>4, <2>5 DEF CommandStep, Actors
<1>7. CASE CycleStep
  <2>1. CASE StartDaemon \/ Wake \/ Freeze \/ Present
    BY <2>1 DEF StartDaemon, At, Daemon, Actors, Operator, Goto, Job, Wake, Freeze, Present,
       Begins, InPlace, Archiving, Doing, Changing, TypeOK
  <2>2. CASE PlanCycle \/ Resume \/ Review \/ Feedback
    BY <2>2 DEF PlanCycle, At, Goto, Resume, Review, Begins, Job, Feedback, Doing, InPlace,
       Archiving, Actors, Changing, TypeOK
  <2>3. CASE Bind
    <3>1. bound'.stage = "onboarding" => bound' # NoSession
      BY DEF NoSession
    <3> QED BY <2>3, <3>1 DEF Bind, Goto, At, InPlace, Archiving, Changing, Doing, TypeOK,
       Actors, Daemon, Operator
  <2>4. CASE FreezeArchives
    <3>1. bound.stage \in Stages
      BY <2>4 DEF FreezeArchives, HandedOver, Stages
    <3> QED BY <2>4, <3>1 DEF FreezeArchives, Begins, Job, At, InPlace, Archiving, Changing,
       Doing, TypeOK, Actors, Daemon, Operator
  <2>5. CASE HandoffGuard
    BY <2>5 DEF HandoffGuard, At, Begins, Job, InPlace, Archiving, Doing, Stages, Closed
  <2>6. CASE Evaluate
    BY <2>6 DEF Evaluate, At, Goto, Job, InPlace, Archiving, Operator, Doing, Actors, Stages,
       Closed, TypeOK
  <2>7. CASE Stage
    <3>1. pc'[Daemon] \in {"onboard", "sleep", "work"} /\ pc'[Operator] = pc[Operator]
      BY <2>7 DEF Stage, TypeOK, Goto, Open, Executable, Actors, Daemon, Operator
    <3> QED BY <2>7, <3>1 DEF Stage, At, InPlace, Archiving, Changing, Doing, TypeOK, Actors,
       Daemon, Operator
  <2>8. CASE StageArchives
    BY <2>8, Values DEF StageArchives, At, Begins, Job, InPlace, Archiving, Doing, TypeOK
  <2>9. CASE CompleteProject
    <3>1. bound # NoSession
      BY <2>9 DEF CompleteProject, AllPlansDone, Stamp, Untargeted, TypeOK, Ids
    <3> QED BY <2>9, <3>1 DEF CompleteProject, Begins, Job, At, InPlace, Archiving, Changing,
       Doing, Stages, Closed, TypeOK, Actors, Daemon, Operator
  <2>10. CASE Dispatch
    BY <2>10 DEF Dispatch, At, Goto, Begins, Job, InPlace, Archiving, Operator, Doing, Actors,
       Stages, Open, Changing, TypeOK
  <2> QED BY <1>5, <1>7, <2>1, <2>2, <2>3, <2>4, <2>5, <2>6, <2>7, <2>8, <2>9, <2>10 DEF
     CycleStep, Actors
<1> QED BY <1>1, <1>2, <1>3, <1>4, <1>6, <1>7 DEF Next

\* A command starts while the daemon rests, and a cycle while no command runs.
LEMMA TurnStep ==
  ASSUME ~Overlap, TypeOK, InPlace, TakeTurns, [Next]_vars PROVE TakeTurns'
<1>1. CASE UNCHANGED vars
  BY <1>1 DEF vars, files, local, history, bounds, TakeTurns, Operator, Daemon, Actors, TypeOK
<1>2. CASE Command
  BY <1>2 DEF Command, Operator, Turn, Actors, Daemon, Begins, TakeTurns
<1>3. CASE GoIdle
  BY <1>3 DEF GoIdle, local, TakeTurns
<1>4. ASSUME NEW a \in Actors, Crash(a) PROVE TakeTurns'
  BY <1>4 DEF Crash, Goto, Ends, TakeTurns
<1>5. ASSUME NEW a \in Actors, SessionStep(a) PROVE TakeTurns'
  <2>1. CASE ReadMode(a) \/ WriteMode(a) \/ Load(a) \/ Rewrite(a)
    BY <2>1 DEF ReadMode, At, Goto, WriteMode, Doing, Archiving, Load, Rewrite, TakeTurns,
       Actors, TypeOK
  <2>2. CASE NoSessionThrows(a) \/ Transition(a) \/ Record(a) \/ Remove(a)
    BY <2>2 DEF NoSessionThrows, At, Fails, Doing, Ends, Goto, Transition, Finishes, Record,
       Archiving, Remove, TakeTurns, Actors, TypeOK
  <2>3. CASE SetIdle(a) \/ Onboard(a) \/ SaveHeld(a)
    BY <2>3 DEF SetIdle, At, Goto, Onboard, SaveHeld, Finishes, TakeTurns, Actors, TypeOK
  <2> QED BY <1>5, <2>1, <2>2, <2>3 DEF SessionStep
<1>6. CASE CommandStep
  <2>1. CASE OpenRefused(Operator) \/ ClearOwned(Operator) \/ Create(Operator) \/ Point(Operator)
    BY <2>1 DEF OpenRefused, At, Fails, Doing, Ends, Goto, ClearOwned, Create, Point, Finishes,
       TakeTurns, Actors, TypeOK
  <2>2. CASE AnswerRefused(Operator) \/ Answer(Operator) \/ Status(Operator)
    BY <2>2 DEF AnswerRefused, At, Fails, Doing, Ends, Goto, Answer, Status, Finishes, TakeTurns,
       Actors, TypeOK
  <2> QED BY <1>5, <1>6, <2>1, <2>2 DEF CommandStep, Actors
<1>7. CASE CycleStep
  <2>1. CASE Bind \/ FreezeArchives \/ Freeze \/ HandoffGuard
    BY <2>1 DEF Bind, At, Goto, FreezeArchives, Begins, Freeze, HandoffGuard, TakeTurns, Actors,
       TypeOK
  <2>2. CASE Evaluate \/ Present \/ Stage \/ StageArchives
    BY <2>2 DEF Evaluate, At, Goto, Present, Begins, Stage, StageArchives, TakeTurns, Actors,
       TypeOK
  <2>3. CASE CompleteProject \/ PlanCycle \/ Resume \/ Review
    BY <2>3 DEF CompleteProject, At, Begins, PlanCycle, Goto, Resume, Review, TakeTurns, Actors,
       TypeOK
  <2>4. CASE Feedback \/ Dispatch
    BY <2>4 DEF Feedback, At, Goto, Dispatch, Begins, TakeTurns, Actors, TypeOK
  <2>5. CASE StartDaemon
    BY <2>5 DEF StartDaemon, Daemon, Turn, Actors, Operator, Goto, TakeTurns, InPlace, Doing,
       Archiving
  <2>6. CASE Wake
    BY <2>6 DEF Wake, At, Turn, Actors, Operator, Goto, TakeTurns, InPlace, Doing, Archiving
  <2> QED BY <1>5, <1>7, <2>1, <2>2, <2>3, <2>4, <2>5, <2>6 DEF CycleStep, Actors
<1> QED BY <1>1, <1>2, <1>3, <1>4, <1>6, <1>7 DEF Next

\* What an actor has loaded stays what is on disk until it has written its change.
LEMMA HoldStep ==
  ASSUME TypeOK, InPlace, TakeTurns, Holding, Serving, [Next]_vars PROVE Holding'
<1>1. CASE UNCHANGED vars
  BY <1>1 DEF vars, files, local, history, bounds, Holding, Doing, Actors, Daemon, Operator,
     New, NoPlan, NoId, Changing, TakeTurns, TypeOK
<1>2. CASE Command
  BY <1>2 DEF Command, At, Operator, Daemon, Begins, Doing, files, Holding, Actors, TypeOK
<1>3. CASE GoIdle
  BY <1>3 DEF GoIdle, At, local, Holding, Doing
<1>4. ASSUME NEW a \in Actors, Crash(a) PROVE Holding'
  BY <1>4 DEF Crash, Goto, Ends, NoJob, Doing, files, Holding, New, Changing, Actors, Daemon,
     Operator, TypeOK
<1>5. ASSUME NEW a \in Actors, SessionStep(a) PROVE Holding'
  <2>1. CASE ReadMode(a) \/ Load(a) \/ Rewrite(a) \/ NoSessionThrows(a)
    BY <2>1 DEF ReadMode, At, Goto, files, Load, Rewrite, NoSessionThrows, Fails, Doing, Ends,
       Holding, Actors, Changing, TakeTurns, TypeOK
  <2>2. CASE Record(a) \/ Remove(a) \/ SetIdle(a) \/ SaveHeld(a)
    BY <2>2 DEF Record, Doing, Archiving, At, Goto, Remove, SetIdle, SaveHeld, Finishes, Holding,
       Actors, Changing, TakeTurns, TypeOK
  <2>3. CASE WriteMode(a)
    BY <2>3 DEF WriteMode, Archiving, At, Goto, Doing, bounds, Holding, New, Changing, InPlace
  <2>4. CASE Transition(a)
    <3>1. /\ pc[a] = "apply"
          /\ \/ a = Operator /\ pc'[a] = "mode"
             \/ a = Daemon /\ pc'[a] \in {"sleep", "stage"}
          /\ \A b \in Actors \ {a} : pc'[b] = pc[b]
          /\ UNCHANGED <<job, held>>
      BY <2>4 DEF Transition, Finishes, Goto, At, TypeOK, InPlace, Archiving, Doing, Actors
    <3>2. pc'[Operator] \notin {"point", "onboard", "create"}
      BY <3>1 DEF TakeTurns, Actors, Daemon, Operator
    <3> QED BY <2>4, <3>1, <3>2, Transitions DEF TakeTurns, Holding, Changing, Doing, Actors,
       Daemon, Operator
  <2>5. CASE Onboard(a)
    <3>1. /\ pc[a] = "onboard" /\ pc'[a] = "save"
          /\ \A b \in Actors \ {a} : pc'[b] = pc[b]
          /\ UNCHANGED <<active, archived, plan, handoff, opened, bound, job>>
      BY <2>5 DEF Onboard, Goto, At, TypeOK, bounds
    <3>2. pc[Operator] = "create" => a = Operator
      BY <3>1 DEF TakeTurns, Actors, Daemon, Operator
    <3> QED BY <2>5, <3>1, <3>2, Onboards DEF TakeTurns, Holding, Changing, Doing, New, Actors,
       Daemon, Operator
  <2> QED BY <1>5, <2>1, <2>2, <2>3, <2>4, <2>5 DEF SessionStep
<1>6. CASE CommandStep
  <2>1. CASE \/ OpenRefused(Operator) \/ ClearOwned(Operator)
            \/ Create(Operator) \/ AnswerRefused(Operator)
    BY <2>1 DEF OpenRefused, At, Fails, Doing, Ends, Goto, bounds, ClearOwned, New, Create,
       AnswerRefused, Holding, Actors, Daemon, Operator, Changing, TakeTurns, TypeOK
  <2>2. CASE Status(Operator)
    BY <2>2 DEF Status, At, Finishes, Goto, Operator, files, Holding, Doing, Daemon
  <2>3. CASE Point(Operator)
    <3>1. /\ pc'[Operator] = "mode" \/ (pc[Operator] = "point" /\ pc'[Operator] = "onboard")
          /\ pc'[Daemon] = pc[Daemon] /\ pc[Operator] # "down"
          /\ UNCHANGED <<active, archived, plan, handoff, opened, held, bound, job>>
      BY <2>3 DEF Point, Finishes, Goto, At, Doing, bounds, TypeOK, Daemon, Operator, Actors
    <3> QED BY <3>1 DEF Holding, TakeTurns, Changing, Doing, New, Actors, Daemon, Operator
  <2>4. CASE Answer(Operator)
    BY <2>4, Answers DEF Answer, Goto, At, TypeOK, InPlace, Archiving, TakeTurns, Holding,
       Changing, Doing, files, Actors, Daemon, Operator
  <2> QED BY <1>5, <1>6, <2>1, <2>2, <2>3, <2>4 DEF CommandStep, Actors
<1>7. CASE CycleStep
  <2>1. CASE StartDaemon \/ Wake \/ Bind \/ FreezeArchives
    BY <2>1 DEF StartDaemon, At, Actors, Operator, Goto, Job, files, bounds, Wake, Bind,
       FreezeArchives, Begins, Holding, Doing, Daemon, New, TypeOK
  <2>2. CASE Freeze \/ HandoffGuard \/ Evaluate \/ Present
    BY <2>2 DEF Freeze, At, Goto, files, HandoffGuard, Begins, Evaluate, Present, Holding,
       Actors, Operator, TakeTurns, TypeOK
  <2>3. CASE StageArchives \/ CompleteProject \/ PlanCycle \/ Resume
    BY <2>3 DEF StageArchives, At, Begins, files, CompleteProject, PlanCycle, Goto, Resume,
       Holding, Actors, Operator, TakeTurns, TypeOK
  <2>4. CASE Review \/ Feedback \/ Dispatch
    BY <2>4 DEF Review, At, Begins, Goto, files, Feedback, Save, Dispatch, Holding, Actors,
       Changing, TakeTurns, TypeOK
  <2>5. CASE Stage
    <3>1. /\ pc[Daemon] = "stage" /\ pc'[Daemon] \in {"onboard", "sleep", "work"}
          /\ pc'[Operator] = pc[Operator]
          /\ UNCHANGED <<active, archived, plan, handoff, opened, held, bound, job>>
      BY <2>5, StageGoes DEF Stage, At, Goto, TypeOK, files, bounds, Actors, Daemon, Operator
    <3> QED BY <3>1 DEF Holding, Changing, Doing, New, Actors, Daemon, Operator
  <2> QED BY <1>5, <1>7, <2>1, <2>2, <2>3, <2>4, <2>5 DEF CycleStep, Actors
<1> QED BY <1>1, <1>2, <1>3, <1>4, <1>6, <1>7 DEF Next

\* The mode that a cycle has read stays the one on disk.
LEMMA PointStep ==
  ASSUME ~Overlap, TypeOK, InPlace, TakeTurns, Holding, Pointing, [Next]_vars PROVE Pointing'
<1>1. CASE UNCHANGED vars
  BY <1>1 DEF vars, files, local, history, bounds, Pointing, Doing, Daemon, TakeTurns, Operator,
     Actors, TypeOK
<1>2. CASE Command
  BY <1>2 DEF Command, Operator, Turn, Actors, Daemon, Begins, Pointing, Doing
<1>3. CASE GoIdle
  BY <1>3 DEF GoIdle, At, Turn, Actors, local, Pointing, Doing
<1>4. ASSUME NEW a \in Actors, Crash(a) PROVE Pointing'
  BY <1>4 DEF Crash, Goto, Ends, files, Pointing, Doing, TypeOK
<1>5. ASSUME NEW a \in Actors, SessionStep(a) PROVE Pointing'
  <2>1. CASE WriteMode(a) \/ Load(a) \/ NoSessionThrows(a) \/ Record(a)
    BY <2>1 DEF WriteMode, At, Goto, Operator, Doing, Daemon, history, bounds, Load, files,
       NoSessionThrows, Fails, Ends, Record, Archiving, Pointing, TakeTurns, Actors, TypeOK
  <2>2. CASE Remove(a) \/ SetIdle(a) \/ Onboard(a) \/ SaveHeld(a)
    BY <2>2 DEF Remove, At, Goto, bounds, SetIdle, history, Onboard, Daemon, SaveHeld, Save,
       NoPlan, NoId, Finishes, Operator, Pointing, Doing, TakeTurns, Actors, TypeOK
  <2>3. CASE ReadMode(a)
    <3>1. CASE a = Daemon
      <4>1. (active # NoSession /\ TargetMode(Normalised(mode, active)))
              => Normalised(mode, active) = Target(active.id)
        BY DEF Normalised, TargetMode, Idle
      <4>2. mode = Idle => Normalised(mode, active) = Idle
        BY DEF Normalised, TargetMode, Idle
      <4> QED BY <2>3, <3>1, <4>1, <4>2 DEF ReadMode, Goto, At, files, TypeOK, Pointing, Doing,
         Actors, Daemon, Operator
    <3>2. CASE a # Daemon
      BY <2>3, <3>2 DEF ReadMode, Goto, At, files, TypeOK, Pointing, Doing, Actors, Daemon,
         Operator
    <3> QED BY <3>1, <3>2
  <2>4. CASE Rewrite(a)
    BY <2>4 DEF Rewrite, At, Goto, history, bounds, Pointing, Daemon, TakeTurns, Operator,
       Actors, TypeOK, InPlace, Doing, Archiving, Holding
  <2>5. CASE Transition(a)
    BY <2>5 DEF Transition, At, Doing, Save, NoPlan, NoId, Daemon, Operator, Goto, Finishes,
       bounds, Pointing, TakeTurns, Actors, TypeOK, InPlace, Archiving, Holding
  <2> QED BY <1>5, <2>1, <2>2, <2>3, <2>4, <2>5 DEF SessionStep
<1>6. CASE CommandStep
  <2>1. CASE OpenRefused(Operator) \/ ClearOwned(Operator) \/ Create(Operator) \/ Point(Operator)
    BY <2>1 DEF OpenRefused, At, Doing, Fails, Ends, Goto, Operator, files, history, bounds,
       ClearOwned, New, NoPlan, NoId, Create, Point, Finishes, Pointing, Daemon, TakeTurns, Actors,
       TypeOK
  <2>2. CASE AnswerRefused(Operator) \/ Answer(Operator) \/ Status(Operator)
    BY <2>2 DEF AnswerRefused, At, Doing, Fails, Ends, Goto, Operator, files, history, bounds,
       Answer, Status, Finishes, Pointing, Daemon, TakeTurns, Actors, TypeOK
  <2> QED BY <1>5, <1>6, <2>1, <2>2 DEF CommandStep, Actors
<1>7. CASE CycleStep
  <2>1. CASE StartDaemon \/ Wake \/ Bind \/ FreezeArchives
    BY <2>1 DEF StartDaemon, At, Daemon, Turn, Actors, Operator, Goto, Job, files, history,
       bounds, Wake, Bind, Doing, FreezeArchives, Begins, Pointing, TakeTurns, TypeOK
  <2>2. CASE Freeze \/ HandoffGuard \/ Evaluate \/ Present
    BY <2>2 DEF Freeze, At, Daemon, Goto, files, history, bounds, HandoffGuard, Begins, Job,
       Evaluate, Statuses, Present, Pointing, Doing, TakeTurns, Operator, Actors, TypeOK
  <2>3. CASE StageArchives \/ CompleteProject \/ PlanCycle
    BY <2>3 DEF At, Daemon, Goto, files, history, bounds, StageArchives, Begins, Job,
       CompleteProject, AllPlansDone, Stamp, Untargeted, PlanCycle, Pointing, Doing, TakeTurns,
       Operator, Actors, TypeOK
  <2>4. CASE Resume \/ Review \/ Dispatch
    BY <2>4 DEF Resume, At, Daemon, Stamp, Untargeted, Goto, files, history, bounds, Review,
       Begins, Job, Dispatch, Pointing, Doing, TakeTurns, Operator, Actors, TypeOK
  <2>5. CASE Feedback
    BY <2>5 DEF Feedback, At, Daemon, Save, NoPlan, NoId, Doing, Goto, history, bounds, Pointing,
       TakeTurns, Operator, Actors, TypeOK, InPlace, Archiving, Holding
  <2>6. CASE Stage
    <3>1. /\ pc[Daemon] = "stage" /\ pc'[Daemon] \in {"onboard", "sleep", "work"}
          /\ UNCHANGED <<active, mode, modeRead>>
      BY <2>6, StageGoes DEF Stage, At, Goto, TypeOK, files, Actors
    <3> QED BY <3>1 DEF Pointing, Doing
  <2> QED BY <1>5, <1>7, <2>1, <2>2, <2>3, <2>4, <2>5, <2>6 DEF CycleStep, Actors
<1> QED BY <1>1, <1>2, <1>3, <1>4, <1>6, <1>7 DEF Next

\* A cycle gets to work, and to a change of its session, only from the stages that allow
\* it.
LEMMA ServeStep ==
  ASSUME TypeOK, InPlace, TakeTurns, Holding, Pointing, Serving, [Next]_vars PROVE Serving'
<1>1. CASE UNCHANGED vars
  BY <1>1 DEF vars, files, local, history, bounds, Serving, Daemon, Changing, Doing, Unready,
     TakeTurns, Operator, Actors, TypeOK
<1>2. CASE Command
  BY <1>2 DEF Command, At, Operator, Turn, Actors, Daemon, Begins, Doing, files, history,
     Serving, Changing, Unready, TakeTurns, TypeOK
<1>3. CASE GoIdle
  BY <1>3 DEF GoIdle, At, Operator, Turn, Actors, Daemon, local, history, Serving, Changing,
     Doing, Unready, TakeTurns, TypeOK
<1>4. ASSUME NEW a \in Actors, Crash(a) PROVE Serving'
  BY <1>4 DEF Crash, Goto, Ends, At, Daemon, files, history, Serving, Changing, Doing, Unready,
     TakeTurns, Operator, Actors, TypeOK
<1>5. ASSUME NEW a \in Actors, SessionStep(a) PROVE Serving'
  <2>1. CASE ReadMode(a) \/ Load(a) \/ Rewrite(a)
    BY <2>1 DEF ReadMode, At, Goto, files, history, bounds, Load, Rewrite, Operator, Doing,
       Serving, Daemon, Changing, Unready, TakeTurns, Actors, TypeOK
  <2>2. CASE Transition(a) \/ Record(a) \/ Remove(a) \/ SetIdle(a)
    BY <2>2 DEF Transition, At, Doing, Save, NoPlan, NoId, Daemon, Operator, Goto, Finishes,
       bounds, Record, Archiving, history, Remove, SetIdle, Serving, Changing, Unready, TakeTurns,
       Actors, TypeOK
  <2>3. CASE SaveHeld(a)
    BY <2>3 DEF SaveHeld, At, Save, NoPlan, NoId, Daemon, Finishes, Goto, Operator, history,
       bounds, Serving, Changing, Doing, Unready, TakeTurns, Actors, TypeOK
  <2>4. CASE WriteMode(a)
    <3>1. a = Daemon /\ Doing(Daemon, "conclude") => ~TargetMode(modeRead[Daemon])
      BY <2>4 DEF WriteMode, At, Pointing, TargetMode, Idle
    <3> QED BY <2>4, <3>1 DEF WriteMode, Archiving, At, Goto, Operator, Doing, Daemon, history, bounds,
       Serving, Changing, Unready, TakeTurns, Actors, TypeOK, InPlace, Holding
  <2>5. CASE Onboard(a)
    BY <2>5 DEF Onboard, At, Daemon, Goto, history, bounds, Serving, Changing, Doing, Unready,
       TakeTurns, Operator, Actors, TypeOK, InPlace, Archiving, Holding
  <2>6. CASE NoSessionThrows(a)
    <3>1. a = Daemon => job[Daemon].op \notin {"conclude", "promote"}
      <4>1. a = Daemon /\ job[Daemon].op \in {"conclude", "promote"} => bound = NoSession
        BY <2>6 DEF NoSessionThrows, At, Holding, Changing
      <4> QED BY <2>6, <4>1 DEF NoSessionThrows, At, InPlace, Serving, Changing, Doing, NoSession
    <3> QED BY <2>6, <3>1, FailsWhere DEF NoSessionThrows, Ends, NoJob, Goto, At, files, Serving,
       Changing, Doing, Unready, Actors, Daemon, Operator, TypeOK
  <2> QED BY <1>5, <2>1, <2>2, <2>3, <2>4, <2>5, <2>6 DEF SessionStep
<1>6. CASE CommandStep
  <2>1. CASE OpenRefused(Operator) \/ ClearOwned(Operator) \/ Create(Operator) \/ Point(Operator)
    BY <2>1 DEF OpenRefused, At, Doing, Fails, Ends, Goto, Operator, files, history, bounds,
       ClearOwned, New, NoPlan, NoId, Create, Point, Finishes, Serving, Daemon, Changing, Unready,
       TakeTurns, Actors, TypeOK
  <2>2. CASE AnswerRefused(Operator) \/ Answer(Operator) \/ Status(Operator)
    BY <2>2 DEF AnswerRefused, At, Doing, Fails, Ends, Goto, Operator, files, history, bounds,
       Answer, Status, Finishes, Serving, Daemon, Changing, Unready, TakeTurns, Actors, TypeOK
  <2> QED BY <1>5, <1>6, <2>1, <2>2 DEF CommandStep, Actors
<1>7. CASE CycleStep
  <2>1. CASE StartDaemon \/ Wake \/ Bind \/ FreezeArchives
    BY <2>1 DEF StartDaemon, At, Daemon, Turn, Actors, Operator, Goto, Job, files, history,
       bounds, Wake, Bind, Doing, FreezeArchives, Begins, Serving, Changing, Unready, TakeTurns,
       TypeOK
  <2>2. CASE Freeze \/ HandoffGuard \/ Evaluate \/ StageArchives
    BY <2>2 DEF Freeze, At, Daemon, Goto, files, history, bounds, HandoffGuard, Begins, Job,
       Evaluate, Statuses, StageArchives, Serving, Changing, Doing, Unready, TakeTurns, Operator,
       Actors, TypeOK
  <2>3. CASE CompleteProject \/ Review \/ Dispatch
    BY <2>3 DEF CompleteProject, At, Daemon, AllPlansDone, Stamp, Untargeted, Begins, Job,
       history, bounds, Review, Goto, files, Dispatch, Serving, Changing, Doing, Unready,
       TakeTurns, Operator, Actors, TypeOK
  <2>4. CASE Present
    BY <2>4 DEF Present, At, Daemon, Begins, history, bounds, Serving, Changing, Doing, Unready,
       TakeTurns, Operator, Actors, TypeOK, InPlace, Archiving, Holding
  <2>5. CASE Stage
    BY <2>5, StageGoes DEF Goto, At, TypeOK, Serving, Changing, Doing, files, Actors, Daemon,
       Operator, Unready
  <2>6. CASE PlanCycle
    <3>1. TargetMode(modeRead[Daemon]) => plan' = bound.id
      BY <2>6 DEF PlanCycle, Stamp, At, Serving, Executable, NoSession
    <3> QED BY <2>6, <3>1 DEF PlanCycle, Goto, At, TypeOK, Serving, Changing, Doing, Actors,
       Daemon, Operator
  <2>7. CASE Resume
    <3>1. TargetMode(modeRead[Daemon]) => plan = bound.id
      BY <2>7 DEF Resume, Stamp, At, Serving, Executable, NoSession
    <3> QED BY <2>7, <3>1 DEF Resume, Goto, At, TypeOK, Serving, Changing, Doing, files, Actors,
       Daemon, Operator
  <2>8. CASE Feedback
    BY <2>8 DEF Feedback, At, Daemon, Save, NoPlan, NoId, Doing, Goto, history, bounds, Serving,
       Changing, Unready, TakeTurns, Operator, Actors, TypeOK, InPlace, Archiving, Holding
  <2> QED BY <1>5, <1>7, <2>1, <2>2, <2>3, <2>4, <2>5, <2>6, <2>7, <2>8 DEF CycleStep, Actors
<1> QED BY <1>1, <1>2, <1>3, <1>4, <1>6, <1>7 DEF Next

\* No session is lost, and none comes back.
LEMMA AccountStep ==
  ASSUME TypeOK, InPlace, TakeTurns, Holding, Accounted, [Next]_vars PROVE Accounted'
<1>1. CASE UNCHANGED vars
  BY <1>1 DEF vars, files, local, history, bounds, Accounted, Actors, Daemon, Operator, TypeOK
<1>2. CASE Command
  BY <1>2 DEF Command, At, Operator, Turn, Actors, Daemon, Begins, Doing, files, history,
     Accounted, TypeOK
<1>3. CASE GoIdle
  BY <1>3 DEF GoIdle, At, Operator, Turn, Actors, Daemon, local, history, Accounted, TypeOK
<1>4. ASSUME NEW a \in Actors, Crash(a) PROVE Accounted'
  BY <1>4 DEF Crash, Goto, Ends, At, Daemon, files, history, Accounted, Actors, Operator, TypeOK
<1>5. ASSUME NEW a \in Actors, SessionStep(a) PROVE Accounted'
  <2>1. CASE ReadMode(a) \/ WriteMode(a) \/ Load(a) \/ NoSessionThrows(a)
    BY <2>1 DEF ReadMode, At, Goto, files, history, bounds, WriteMode, Archiving, Operator,
       Doing, Daemon, Load, NoSessionThrows, Fails, Ends, Accounted, Actors, TypeOK
  <2>2. CASE Record(a) \/ SetIdle(a) \/ Onboard(a)
    BY <2>2 DEF Record, Archiving, At, Doing, Goto, history, bounds, SetIdle, Onboard, Daemon,
       Accounted, Actors, Operator, TypeOK
  <2>3. CASE Rewrite(a)
    BY <2>3, Values, Carried DEF Rewrite, At, Goto, history, bounds, Accounted, Actors, Daemon,
       Operator, TypeOK, Holding, Ids
  <2>4. CASE Transition(a)
    BY <2>4, Values, Carried DEF Transition, At, Doing, Save, NoPlan, NoId, Daemon, Operator,
       Goto, Finishes, bounds, Accounted, Actors, TypeOK, Holding, Ids
  <2>5. CASE Remove(a)
    <3>1. held[a] = active /\ held[a].id \in archived /\ active.id \in Ids
      BY <2>5, Carried DEF Remove, At, Holding
    <3>2. active'.id = NoId /\ gone' = gone \cup {active.id}
      BY <2>5, <3>1 DEF Remove, NoSession
    <3>3. UNCHANGED <<opened, worked, archived, replaced>>
      BY <2>5 DEF Remove, bounds
    <3>4. opened \in Nat /\ opened' \in Nat /\ active.id \in 1..opened
      BY <3>1, <3>3 DEF Accounted, TypeOK, Ids
    <3>5. gone' \subseteq 1..opened' /\ worked' \subseteq 1..opened'
      BY <3>2, <3>3, <3>4 DEF Accounted
    <3>6. active'.id \notin gone' /\ active'.id <= opened'
      BY <3>2, <3>4, <3>5 DEF NoId
    <3>7. \A i \in 1..opened' : i \in archived' \/ i \in replaced'
      BY <3>1, <3>3 DEF Accounted
    <3> QED BY <3>5, <3>6, <3>7 DEF Accounted
  <2>6. CASE SaveHeld(a)
    BY <2>6, Values, Carried DEF SaveHeld, At, Save, NoPlan, NoId, Daemon, Finishes, Goto,
       Operator, history, bounds, Accounted, Actors, TypeOK, Holding, Ids
  <2> QED BY <1>5, <2>1, <2>2, <2>3, <2>4, <2>5, <2>6 DEF SessionStep
<1>6. CASE CommandStep
  <2>1. CASE \/ OpenRefused(Operator) \/ ClearOwned(Operator)
            \/ Point(Operator) \/ AnswerRefused(Operator)
    BY <2>1 DEF OpenRefused, At, Doing, Fails, Ends, Goto, Operator, files, history, bounds,
       ClearOwned, New, NoPlan, NoId, Point, Finishes, AnswerRefused, Accounted, Actors, Daemon,
       TypeOK
  <2>2. CASE Answer(Operator) \/ Status(Operator)
    BY <2>2 DEF Answer, At, Doing, Goto, history, bounds, Status, Finishes, Operator, files,
       Accounted, Actors, Daemon, TypeOK
  <2>3. CASE Create(Operator)
    <3>1. /\ held[Operator].id = opened + 1 /\ active'.id = opened + 1 /\ opened' = opened + 1
          /\ active.stage \notin Open
      BY <2>3 DEF Create, At, Holding, New
    <3>2. active.stage \in Closed \/ active.id = NoId
      BY <3>1, Values DEF TypeOK, Stages, NoSession
    <3>3. replaced' = IF active.stage \in Closed THEN replaced \cup {active.id} ELSE replaced
      BY <2>3 DEF Create
    <3>4. UNCHANGED <<gone, worked, archived>> /\ opened \in Nat
      BY <2>3 DEF Create, TypeOK
    <3> QED BY <3>1, <3>2, <3>3, <3>4 DEF Accounted, NoId
  <2> QED BY <1>5, <1>6, <2>1, <2>2, <2>3 DEF CommandStep, Actors
<1>7. CASE CycleStep
  <2>1. CASE StartDaemon \/ Wake \/ Bind \/ FreezeArchives
    BY <2>1 DEF StartDaemon, At, Daemon, Turn, Actors, Operator, Goto, Job, files, history,
       bounds, Wake, Bind, Doing, FreezeArchives, Begins, Accounted, TypeOK
  <2>2. CASE Freeze \/ HandoffGuard \/ Evaluate \/ Present
    BY <2>2 DEF Freeze, At, Daemon, Goto, files, history, bounds, HandoffGuard, Begins, Job,
       Evaluate, Statuses, Present, Accounted, Actors, Operator, TypeOK
  <2>3. CASE Stage \/ StageArchives \/ CompleteProject \/ PlanCycle
    BY <2>3 DEF Stage, At, Daemon, Goto, files, history, bounds, StageArchives, Begins, Job,
       CompleteProject, AllPlansDone, Stamp, Untargeted, PlanCycle, Accounted, Actors, Operator,
       TypeOK
  <2>4. CASE Resume \/ Review
    BY <2>4 DEF Resume, At, Daemon, Stamp, Untargeted, Goto, files, history, bounds, Review,
       Begins, Job, Accounted, Actors, Operator, TypeOK
  <2>5. CASE Feedback
    <3>1. UNCHANGED <<gone, opened, worked, replaced>>
      BY <2>5 DEF Feedback, history, bounds
    <3> QED BY <2>5, <3>1, FeedbackKeeps DEF Accounted
  <2>6. CASE Dispatch
    <3>1. Stamp \in 0..opened
      BY <2>6 DEF Dispatch, At, Holding, Accounted, Stamp, Untargeted, TypeOK, NoSession,
         Session, Ids, NoId
    <3> QED BY <2>6, <3>1 DEF Dispatch, Accounted, files, bounds, Untargeted
  <2> QED BY <1>5, <1>7, <2>1, <2>2, <2>3, <2>4, <2>5, <2>6 DEF CycleStep, Actors
<1> QED BY <1>1, <1>2, <1>3, <1>4, <1>6, <1>7 DEF Next

\* A second line of a session in the log takes a crash between its record and its
\* removal.
LEMMA LogStep ==
  ASSUME TypeOK, InPlace, TakeTurns, Holding, Accounted, Logged, [Next]_vars PROVE Logged'
<1>1. CASE UNCHANGED vars
  BY <1>1 DEF vars, files, local, history, bounds, Logged, Actors, Daemon, Operator, TypeOK
<1>2. CASE Command
  BY <1>2 DEF Command, At, Operator, Turn, Actors, Daemon, Begins, Doing, files, history, Logged,
     TypeOK
<1>3. CASE GoIdle
  BY <1>3 DEF GoIdle, At, Operator, Turn, Actors, Daemon, local, history, Logged, TypeOK
<1>4. ASSUME NEW a \in Actors, Crash(a) PROVE Logged'
  BY <1>4 DEF Crash, Goto, Ends, At, Daemon, files, history, Logged, Actors, Operator, TypeOK
<1>5. ASSUME NEW a \in Actors, SessionStep(a) PROVE Logged'
  <2>1. CASE ReadMode(a) \/ WriteMode(a) \/ Load(a) \/ NoSessionThrows(a)
    BY <2>1 DEF ReadMode, At, Goto, files, history, bounds, WriteMode, Archiving, Operator,
       Doing, Daemon, Load, NoSessionThrows, Fails, Ends, Logged, Actors, TypeOK
  <2>2. CASE SetIdle(a) \/ Onboard(a)
    BY <2>2 DEF SetIdle, At, Goto, history, bounds, Onboard, Daemon, Logged, Actors, Operator,
       TypeOK
  <2>3. CASE Rewrite(a)
    BY <2>3, Values, Carried DEF Rewrite, At, Goto, history, bounds, Logged, Actors, Daemon,
       Operator, TypeOK, Holding, Ids
  <2>4. CASE Transition(a)
    <3>1. /\ UNCHANGED <<lines, opened, crashes>>
          /\ \A b \in Actors : pc'[b] = "remove" <=> pc[b] = "remove"
      BY <2>4 DEF Transition, Save, bounds, Finishes, Goto, At, TypeOK
    <3> QED BY <2>4, <3>1, Transitions DEF Logged
  <2>5. CASE Record(a)
    <3>1. /\ held[a] = active /\ active.id \in Ids /\ active.id <= opened
          /\ \A b \in Actors : pc[b] # "remove"
      BY <2>5, Carried DEF Record, Doing, Archiving, At, Holding, Accounted, TakeTurns, InPlace,
         Actors
    <3>2. /\ pc'[a] = "remove"
          /\ lines' = [lines EXCEPT ![active.id] = @ + 1]
          /\ UNCHANGED <<active, opened, crashes>>
      BY <2>5, <3>1 DEF Record, Doing, Archiving, Goto, TypeOK, bounds
    <3>3. \A s \in Ids : lines'[s] = IF s = active.id THEN lines[s] + 1 ELSE lines[s]
      BY <3>1, <3>2 DEF TypeOK
    <3> QED BY <3>1, <3>2, <3>3 DEF Logged, TypeOK, Ids
  <2>6. CASE Remove(a)
    BY <2>6, Values, Carried DEF Remove, At, NoSession, NoId, Goto, bounds, Logged, Actors,
       Daemon, Operator, TypeOK, Holding, TakeTurns, InPlace, Doing, Archiving, Ids, Accounted
  <2>7. CASE SaveHeld(a)
    BY <2>7, Values, Carried DEF SaveHeld, At, Save, NoPlan, NoId, Daemon, Finishes, Goto,
       Operator, history, bounds, Logged, Actors, TypeOK, Holding, Ids
  <2> QED BY <1>5, <2>1, <2>2, <2>3, <2>4, <2>5, <2>6, <2>7 DEF SessionStep
<1>6. CASE CommandStep
  <2>1. CASE \/ OpenRefused(Operator) \/ ClearOwned(Operator)
            \/ Point(Operator) \/ AnswerRefused(Operator)
    BY <2>1 DEF OpenRefused, At, Doing, Fails, Ends, Goto, Operator, files, history, bounds,
       ClearOwned, New, NoPlan, NoId, Point, Finishes, AnswerRefused, Logged, Actors, Daemon, TypeOK
  <2>2. CASE Answer(Operator) \/ Status(Operator)
    BY <2>2 DEF Answer, At, Doing, Goto, history, bounds, Status, Finishes, Operator, files,
       Logged, Actors, Daemon, TypeOK
  <2>3. CASE Create(Operator)
    <3>1. /\ active'.id = opened + 1 /\ opened' = opened + 1
          /\ UNCHANGED <<lines, crashes>>
      BY <2>3 DEF Create, At, Holding, New
    <3> QED BY <3>1 DEF Logged, TypeOK, Ids
  <2> QED BY <1>5, <1>6, <2>1, <2>2, <2>3 DEF CommandStep, Actors
<1>7. CASE CycleStep
  <2>1. CASE StartDaemon \/ Wake \/ Bind \/ FreezeArchives
    BY <2>1 DEF StartDaemon, At, Daemon, Turn, Actors, Operator, Goto, Job, files, history,
       bounds, Wake, Bind, Doing, FreezeArchives, Begins, Logged, TypeOK
  <2>2. CASE Freeze \/ HandoffGuard \/ Evaluate \/ Present
    BY <2>2 DEF Freeze, At, Daemon, Goto, files, history, bounds, HandoffGuard, Begins, Job,
       Evaluate, Statuses, Present, Logged, Actors, Operator, TypeOK
  <2>3. CASE Stage \/ StageArchives \/ CompleteProject \/ PlanCycle
    BY <2>3 DEF Stage, At, Daemon, Goto, files, history, bounds, StageArchives, Begins, Job,
       CompleteProject, AllPlansDone, Stamp, Untargeted, PlanCycle, Logged, Actors, Operator,
       TypeOK
  <2>4. CASE Resume \/ Review \/ Dispatch
    BY <2>4 DEF Resume, At, Daemon, Stamp, Untargeted, Goto, files, history, bounds, Review,
       Begins, Job, Dispatch, Logged, Actors, Operator, TypeOK
  <2>5. CASE Feedback
    <3>1. /\ UNCHANGED <<lines, opened, crashes>>
          /\ \A b \in Actors : pc'[b] = "remove" <=> pc[b] = "remove"
      BY <2>5, FeedbackKeeps DEF Feedback, bounds, Goto, At, TypeOK
    <3> QED BY <2>5, <3>1, FeedbackKeeps DEF Logged
  <2> QED BY <1>5, <1>7, <2>1, <2>2, <2>3, <2>4, <2>5 DEF CycleStep, Actors
<1> QED BY <1>1, <1>2, <1>3, <1>4, <1>6, <1>7 DEF Next

\* The plan and the delivery on disk stay those of the active session.
LEMMA OwnStep ==
  ASSUME TypeOK, InPlace, TakeTurns, Holding, OwnedByActive, [Next]_vars PROVE OwnedByActive'
<1>1. CASE UNCHANGED vars
  BY <1>1 DEF vars, files, local, history, bounds, OwnedByActive, NoId, NoPlan, Untargeted,
     Actors, Daemon, Operator, TypeOK
<1>2. CASE Command
  BY <1>2 DEF Command, At, Operator, Turn, Actors, Daemon, Begins, Doing, files, history,
     OwnedByActive, NoId, NoPlan, Untargeted, TypeOK
<1>3. CASE GoIdle
  BY <1>3 DEF GoIdle, At, Operator, Turn, Actors, Daemon, local, history, OwnedByActive, NoId,
     NoPlan, Untargeted, TypeOK
<1>4. ASSUME NEW a \in Actors, Crash(a) PROVE OwnedByActive'
  BY <1>4 DEF Crash, Goto, Ends, At, Daemon, files, history, OwnedByActive, NoId, NoPlan,
     Untargeted, Actors, Operator, TypeOK
<1>5. ASSUME NEW a \in Actors, SessionStep(a) PROVE OwnedByActive'
  <2>1. CASE ReadMode(a) \/ WriteMode(a) \/ Load(a) \/ NoSessionThrows(a)
    BY <2>1 DEF ReadMode, At, Goto, files, history, bounds, WriteMode, Archiving, Operator,
       Doing, Daemon, Load, NoSessionThrows, Fails, Ends, OwnedByActive, NoId, NoPlan, Untargeted,
       Actors, TypeOK
  <2>2. CASE Record(a) \/ Remove(a) \/ SetIdle(a) \/ Onboard(a)
    BY <2>2 DEF Record, Archiving, At, Doing, Goto, history, bounds, Remove, SetIdle, Onboard,
       Daemon, OwnedByActive, NoId, NoPlan, Untargeted, Actors, Operator, TypeOK
  <2>3. CASE Rewrite(a)
    BY <2>3, Values, Carried DEF Rewrite, At, Goto, history, bounds, OwnedByActive, NoId, NoPlan,
       Untargeted, Actors, Daemon, Operator, TypeOK, Holding
  <2>4. CASE Transition(a)
    BY <2>4, Values, Carried DEF Transition, At, Doing, Save, NoPlan, NoId, Daemon, Operator,
       Goto, Finishes, bounds, OwnedByActive, Untargeted, Actors, TypeOK, Holding
  <2>5. CASE SaveHeld(a)
    <3>1. held[a].id = active.id /\ active # NoSession
      BY <2>5, Carried, Values DEF SaveHeld, At, Holding, Ids, NoSession, NoId
    <3> QED BY <2>5, <3>1 DEF SaveHeld, Save, OwnedByActive, NoId
  <2> QED BY <1>5, <2>1, <2>2, <2>3, <2>4, <2>5 DEF SessionStep
<1>6. CASE CommandStep
  <2>1. CASE \/ OpenRefused(Operator) \/ ClearOwned(Operator)
            \/ Point(Operator) \/ AnswerRefused(Operator)
    BY <2>1 DEF OpenRefused, At, Doing, Fails, Ends, Goto, Operator, files, history, bounds,
       ClearOwned, New, NoPlan, NoId, Point, Finishes, AnswerRefused, OwnedByActive, Untargeted,
       Actors, Daemon, TypeOK
  <2>2. CASE Answer(Operator) \/ Status(Operator)
    BY <2>2 DEF Answer, At, Doing, Goto, history, bounds, Status, Finishes, Operator, files,
       OwnedByActive, NoId, NoPlan, Untargeted, Actors, Daemon, TypeOK
  <2>3. CASE Create(Operator)
    BY <2>3, Values, Carried DEF Create, At, Goto, OwnedByActive, NoId, NoPlan, Untargeted,
       Actors, Daemon, Operator, TypeOK, Holding
  <2> QED BY <1>5, <1>6, <2>1, <2>2, <2>3 DEF CommandStep, Actors
<1>7. CASE CycleStep
  <2>1. CASE StartDaemon \/ Wake \/ Bind \/ FreezeArchives
    BY <2>1 DEF StartDaemon, At, Daemon, Turn, Actors, Operator, Goto, Job, files, history,
       bounds, Wake, Bind, Doing, FreezeArchives, Begins, OwnedByActive, NoId, NoPlan,
       Untargeted, TypeOK
  <2>2. CASE Freeze \/ HandoffGuard \/ Evaluate \/ Stage
    BY <2>2 DEF Freeze, At, Daemon, Goto, files, history, bounds, HandoffGuard, Begins, Job,
       Evaluate, Statuses, Stage, OwnedByActive, NoId, NoPlan, Untargeted, Actors, Operator,
       TypeOK
  <2>3. CASE StageArchives \/ CompleteProject \/ Resume \/ Review
    BY <2>3 DEF StageArchives, At, Daemon, Begins, Job, files, history, bounds, CompleteProject,
       AllPlansDone, Stamp, Untargeted, Resume, Goto, Review, OwnedByActive, NoId, NoPlan,
       Actors, Operator, TypeOK
  <2>4. CASE Dispatch
    BY <2>4 DEF Dispatch, At, Daemon, Stamp, Untargeted, Goto, Begins, Job, files, bounds,
       OwnedByActive, NoId, NoPlan, Actors, Operator, TypeOK
  <2>5. CASE Present
    BY <2>5, Values, Carried DEF Present, At, Daemon, Begins, history, bounds, OwnedByActive,
       NoId, NoPlan, Untargeted, Actors, Operator, TypeOK, Holding
  <2>6. CASE PlanCycle
    BY <2>6, Values, Carried DEF PlanCycle, At, Daemon, Stamp, Untargeted, Goto, history, bounds,
       OwnedByActive, NoId, NoPlan, Actors, Operator, TypeOK, Holding
  <2>7. CASE Feedback
    BY <2>7, Values, Carried DEF Feedback, At, Daemon, Save, NoPlan, NoId, Doing, Goto, history,
       bounds, OwnedByActive, Untargeted, Actors, Operator, TypeOK, Holding
  <2> QED BY <1>5, <1>7, <2>1, <2>2, <2>3, <2>4, <2>5, <2>6, <2>7 DEF CycleStep, Actors
<1> QED BY <1>1, <1>2, <1>3, <1>4, <1>6, <1>7 DEF Next

\* A session is worked on only once its contract is ready, and then never onboarded
\* again.
LEMMA ClarifyStep ==
  ASSUME TypeOK, InPlace, TakeTurns, Holding, Serving, Accounted, Clarified, [Next]_vars
  PROVE  Clarified'
<1>1. CASE UNCHANGED vars
  BY <1>1 DEF vars, files, local, history, bounds, Clarified, Unready, Actors, Daemon, Operator,
     TypeOK
<1>2. CASE Command
  BY <1>2 DEF Command, At, Operator, Turn, Actors, Daemon, Begins, Doing, files, history,
     Clarified, Unready, TypeOK
<1>3. CASE GoIdle
  BY <1>3 DEF GoIdle, At, Operator, Turn, Actors, Daemon, local, history, Clarified, Unready,
     TypeOK
<1>4. ASSUME NEW a \in Actors, Crash(a) PROVE Clarified'
  BY <1>4 DEF Crash, Goto, Ends, At, Daemon, files, history, Clarified, Unready, Actors,
     Operator, TypeOK
<1>5. ASSUME NEW a \in Actors, SessionStep(a) PROVE Clarified'
  <2>1. CASE ReadMode(a) \/ WriteMode(a) \/ Load(a) \/ NoSessionThrows(a)
    BY <2>1 DEF ReadMode, At, Goto, files, history, bounds, WriteMode, Archiving, Operator,
       Doing, Daemon, Load, NoSessionThrows, Fails, Ends, Clarified, Unready, Actors, TypeOK
  <2>2. CASE Record(a) \/ SetIdle(a) \/ SaveHeld(a)
    BY <2>2 DEF Record, Archiving, At, Doing, Goto, history, bounds, SetIdle, SaveHeld, Save,
       NoPlan, NoId, Daemon, Finishes, Operator, Clarified, Unready, Actors, TypeOK
  <2>3. CASE Rewrite(a)
    <3>1. /\ UNCHANGED <<active, contract, worked, held, moved>>
          /\ \A b \in Actors : pc'[b] = "save" => pc[b] = "save"
      BY <2>3 DEF Rewrite, At, Goto, Holding, history, TypeOK
    <3> QED BY <3>1 DEF Clarified
  <2>4. CASE Transition(a)
    <3>1. /\ \A b \in Actors : pc'[b] # "save" \/ (b # a /\ pc[b] = "save")
          /\ UNCHANGED <<contract, worked, held>>
      BY <2>4 DEF Transition, Finishes, Goto, TypeOK
    <3>2. CASE a = Operator
      BY <2>4, <3>1, <3>2, Transitions DEF Clarified, TakeTurns, Actors, Transition, At
    <3>3. CASE a = Daemon
      <4>1. \/ active'.stage \in Closed
            \/ active'.stage = "active" /\ active.stage = "shadow"
        BY <2>4, <3>3, Transitions DEF Transition, At, Doing, InPlace, Archiving, Holding,
           Serving, Changing, Actors, Daemon
      <4>2. /\ active'.stage \notin Unready
            /\ active'.stage \in Executable => active.stage \in Executable
        BY <4>1 DEF Closed, Unready, Executable
      <4> QED BY <2>4, <3>1, <3>3, <4>2, Transitions DEF Clarified, Daemon, Operator
    <3> QED BY <3>2, <3>3 DEF Actors
  <2>5. CASE Remove(a)
    BY <2>5, Values, Carried DEF Remove, At, NoSession, NoId, Goto, bounds, Clarified, Unready,
       Executable, Actors, Daemon, Operator, TypeOK, Holding, InPlace, Doing, Archiving, Ids,
       Serving, Accounted
  <2>6. CASE Onboard(a)
    <3>1. /\ pc'[a] = "save" /\ \A b \in Actors \ {a} : pc'[b] = pc[b] /\ pc[b] # "save"
          /\ UNCHANGED <<active, worked, moved>>
      BY <2>6 DEF Onboard, Goto, At, TakeTurns, TypeOK, history, Actors, Daemon, Operator
    <3>2. worked \subseteq Ids /\ Unready \cap Executable = {}
      BY DEF TypeOK, Unready, Executable
    <3>3. active.id \notin worked \ moved
      BY <2>6, Onboards DEF Clarified
    <3>4. \A s \in worked \ moved : contract'[s] = contract[s] /\ s # active.id
      BY <2>6, <3>2, <3>3, Onboards
    <3>5. active.stage \notin Executable
      BY <2>6, <3>2, Onboards
    <3> QED BY <2>6, <3>1, <3>3, <3>4, <3>5, Onboards DEF Clarified
  <2> QED BY <1>5, <2>1, <2>2, <2>3, <2>4, <2>5, <2>6 DEF SessionStep
<1>6. CASE CommandStep
  <2>1. CASE \/ OpenRefused(Operator) \/ ClearOwned(Operator)
            \/ Point(Operator) \/ AnswerRefused(Operator)
    BY <2>1 DEF OpenRefused, At, Doing, Fails, Ends, Goto, Operator, files, history, bounds,
       ClearOwned, New, NoPlan, NoId, Point, Finishes, AnswerRefused, Clarified, Unready, Actors,
       Daemon, TypeOK
  <2>2. CASE Status(Operator)
    BY <2>2 DEF Status, At, Doing, Finishes, Goto, Operator, files, history, bounds, Clarified,
       Unready, Actors, Daemon, TypeOK
  <2>3. CASE Create(Operator)
    <3>1. /\ active'.id = opened + 1 /\ active'.stage = "onboarding"
          /\ UNCHANGED <<contract, worked, held, moved>>
          /\ \A b \in Actors : pc'[b] = "save" => pc[b] = "save"
      BY <2>3 DEF Create, At, Holding, New, Goto, TypeOK
    <3>2. opened + 1 \notin worked
      BY DEF Accounted, TypeOK
    <3> QED BY <3>1, <3>2 DEF Clarified, Executable
  <2>4. CASE Answer(Operator)
    <3>1. /\ pc'[Operator] = "save" /\ pc[Daemon] # "save" /\ pc'[Daemon] = pc[Daemon]
          /\ UNCHANGED <<active, worked, moved>>
      BY <2>4 DEF Answer, Goto, At, TakeTurns, TypeOK, history, Actors, Daemon, Operator
    <3>2. Operator \in Actors
      BY DEF Actors
    <3>3. active.id \notin worked \ moved
      BY <2>4, <3>2, Answers DEF Clarified
    <3>4. active.stage \in Executable => active.id \in moved
      BY <2>4, <3>2, Answers DEF Clarified
    <3> QED BY <2>4, <3>1, <3>2, <3>3, <3>4, Answers DEF Clarified, Actors, TypeOK
  <2> QED BY <1>5, <1>6, <2>1, <2>2, <2>3, <2>4 DEF CommandStep, Actors
<1>7. CASE CycleStep
  <2>1. CASE StartDaemon \/ Wake \/ Bind \/ FreezeArchives
    BY <2>1 DEF StartDaemon, At, Daemon, Turn, Actors, Operator, Goto, Job, files, history,
       bounds, Wake, Bind, Doing, FreezeArchives, Begins, Clarified, Unready, TypeOK
  <2>2. CASE Freeze \/ HandoffGuard \/ Evaluate \/ Present
    BY <2>2 DEF Freeze, At, Daemon, Goto, files, history, bounds, HandoffGuard, Begins, Job,
       Evaluate, Statuses, Present, Clarified, Unready, Actors, Operator, TypeOK
  <2>3. CASE StageArchives \/ CompleteProject \/ PlanCycle \/ Resume
    BY <2>3 DEF StageArchives, At, Daemon, Begins, Job, files, history, bounds, CompleteProject,
       AllPlansDone, Stamp, Untargeted, PlanCycle, Goto, Resume, Clarified, Unready, Actors,
       Operator, TypeOK
  <2>4. CASE Review
    BY <2>4 DEF Review, At, Daemon, Begins, Job, Goto, files, history, bounds, Clarified,
       Unready, Actors, Operator, TypeOK
  <2>5. CASE Stage
    <3>1. /\ UNCHANGED <<active, contract, worked, held, moved>>
          /\ \A b \in Actors : pc'[b] = "save" => pc[b] = "save"
      BY <2>5, StageGoes DEF files, history, Goto, TypeOK
    <3> QED BY <3>1 DEF Clarified
  <2>6. CASE Feedback
    <3>1. /\ UNCHANGED <<contract, worked, held, moved>>
          /\ \A b \in Actors : pc'[b] = "save" => pc[b] = "save"
      BY <2>6 DEF Feedback, history, Goto, TypeOK
    <3>2. active'.stage \notin Executable \cup Unready \/ active'.stage = active.stage
      BY <2>6, FeedbackKeeps DEF Executable, Unready
    <3> QED BY <2>6, <3>1, <3>2, FeedbackKeeps DEF Clarified
  <2>7. CASE Dispatch
    <3>1. UNCHANGED <<active, contract, held, moved>> /\ \A b \in Actors : pc'[b] # "save"
      BY <2>7 DEF Dispatch, At, TakeTurns, Begins, files, Goto, TypeOK, Actors, Daemon, Operator
    <3>2. worked' = worked \/ (worked' = worked \cup {active.id} /\ active.stage \in Executable)
      BY <2>7 DEF Dispatch, Stamp, At, Holding, Serving, Untargeted
    <3>3. Executable \cap Unready = {}
      BY DEF Executable, Unready
    <3> QED BY <3>1, <3>2, <3>3 DEF Clarified
  <2> QED BY <1>5, <1>7, <2>1, <2>2, <2>3, <2>4, <2>5, <2>6, <2>7 DEF CycleStep, Actors
<1> QED BY <1>1, <1>2, <1>3, <1>4, <1>6, <1>7 DEF Next

\* What is about to be saved follows from the stage that is on disk.
LEMMA SaveStep ==
  ASSUME TypeOK, InPlace, TakeTurns, Holding, Serving, Saving, [Next]_vars PROVE Saving'
<1>1. CASE UNCHANGED vars
  BY <1>1 DEF vars, files, local, history, bounds, Saving, Actors, Daemon, Operator, Unready,
     Readiness, TypeOK
<1>2. CASE Command
  BY <1>2 DEF Command, At, Operator, Turn, Actors, Daemon, Begins, Doing, files, history, Saving,
     Unready, Readiness, TypeOK
<1>3. CASE GoIdle
  BY <1>3 DEF GoIdle, At, Operator, Turn, Actors, Daemon, local, history, Saving, Unready,
     Readiness, TypeOK
<1>4. ASSUME NEW a \in Actors, Crash(a) PROVE Saving'
  BY <1>4 DEF Crash, Goto, Ends, At, Daemon, files, history, Saving, Actors, Operator, Unready,
     Readiness, TypeOK
<1>5. ASSUME NEW a \in Actors, SessionStep(a) PROVE Saving'
  <2>1. CASE ReadMode(a) \/ WriteMode(a) \/ Load(a) \/ NoSessionThrows(a)
    BY <2>1 DEF ReadMode, At, Goto, files, history, bounds, WriteMode, Archiving, Operator,
       Doing, Daemon, Load, NoSessionThrows, Fails, Ends, Saving, Actors, Unready, Readiness, TypeOK
  <2>2. CASE Record(a) \/ SetIdle(a)
    BY <2>2 DEF Record, Archiving, At, Doing, Goto, history, bounds, SetIdle, Saving, Actors,
       Daemon, Operator, Unready, Readiness, TypeOK
  <2>3. CASE Rewrite(a)
    BY <2>3 DEF Rewrite, At, Goto, history, bounds, Saving, Actors, Daemon, Operator, Unready,
       Readiness, TypeOK, TakeTurns, InPlace, Doing, Archiving
  <2>4. CASE Transition(a)
    BY <2>4 DEF Transition, At, Doing, Save, NoPlan, NoId, Daemon, Operator, Goto, Finishes,
       bounds, Saving, Actors, Unready, Readiness, TypeOK, TakeTurns, InPlace, Archiving
  <2>5. CASE Remove(a)
    BY <2>5 DEF Remove, At, Goto, bounds, Saving, Actors, Daemon, Operator, Unready, Readiness,
       TypeOK, TakeTurns, InPlace, Doing, Archiving
  <2>6. CASE Onboard(a)
    <3>1. /\ pc'[a] = "save" /\ \A b \in Actors \ {a} : pc'[b] = pc[b] /\ pc[b] # "save"
          /\ UNCHANGED active
      BY <2>6 DEF Onboard, Goto, At, TakeTurns, TypeOK, Actors, Daemon, Operator
    <3> QED BY <2>6, <3>1, Onboards DEF Saving
  <2>7. CASE SaveHeld(a)
    BY <2>7 DEF SaveHeld, At, Save, NoPlan, NoId, Daemon, Finishes, Goto, Operator, history,
       bounds, Saving, Actors, Unready, Readiness, TypeOK, TakeTurns, InPlace, Doing, Archiving
  <2> QED BY <1>5, <2>1, <2>2, <2>3, <2>4, <2>5, <2>6, <2>7 DEF SessionStep
<1>6. CASE CommandStep
  <2>1. CASE \/ OpenRefused(Operator) \/ ClearOwned(Operator)
            \/ Point(Operator) \/ AnswerRefused(Operator)
    BY <2>1 DEF OpenRefused, At, Doing, Fails, Ends, Goto, Operator, files, history, bounds,
       ClearOwned, New, NoPlan, NoId, Point, Finishes, AnswerRefused, Saving, Actors, Daemon,
       Unready, Readiness, TypeOK
  <2>2. CASE Status(Operator)
    BY <2>2 DEF Status, At, Doing, Finishes, Goto, Operator, files, history, bounds, Saving,
       Actors, Daemon, Unready, Readiness, TypeOK
  <2>3. CASE Create(Operator)
    BY <2>3 DEF Create, At, Goto, Saving, Actors, Daemon, Operator, Unready, Readiness, TypeOK,
       TakeTurns, InPlace, Doing, Archiving
  <2>4. CASE Answer(Operator)
    <3>1. /\ pc'[Operator] = "save" /\ pc'[Daemon] = pc[Daemon] /\ pc[Daemon] # "save"
          /\ UNCHANGED active
      BY <2>4 DEF Answer, Goto, At, TakeTurns, TypeOK, Actors, Daemon, Operator
    <3> QED BY <2>4, <3>1, Answers DEF Saving, Actors
  <2> QED BY <1>5, <1>6, <2>1, <2>2, <2>3, <2>4 DEF CommandStep, Actors
<1>7. CASE CycleStep
  <2>1. CASE StartDaemon \/ Wake \/ Bind \/ FreezeArchives
    BY <2>1 DEF StartDaemon, At, Daemon, Turn, Actors, Operator, Goto, Job, files, history,
       bounds, Wake, Bind, Doing, FreezeArchives, Begins, Saving, Unready, Readiness, TypeOK
  <2>2. CASE Freeze \/ HandoffGuard \/ Evaluate \/ Present
    BY <2>2 DEF Freeze, At, Daemon, Goto, files, history, bounds, HandoffGuard, Begins, Job,
       Evaluate, Statuses, Present, Saving, Actors, Operator, Unready, Readiness, TypeOK
  <2>3. CASE StageArchives \/ CompleteProject \/ PlanCycle \/ Resume
    BY <2>3 DEF StageArchives, At, Daemon, Begins, Job, files, history, bounds, CompleteProject,
       AllPlansDone, Stamp, Untargeted, PlanCycle, Goto, Resume, Saving, Actors, Operator,
       Unready, Readiness, TypeOK
  <2>4. CASE Review \/ Dispatch
    BY <2>4 DEF Review, At, Daemon, Begins, Job, Goto, files, history, bounds, Dispatch, Stamp,
       Untargeted, Saving, Actors, Operator, Unready, Readiness, TypeOK
  <2>5. CASE Stage
    <3>1. UNCHANGED <<active, held>> /\ \A b \in Actors : pc'[b] = "save" => pc[b] = "save"
      BY <2>5, StageGoes DEF files, Goto, TypeOK
    <3> QED BY <3>1 DEF Saving
  <2>6. CASE Feedback
    BY <2>6 DEF Feedback, At, Daemon, Save, NoPlan, NoId, Doing, Goto, history, bounds, Saving,
       Actors, Operator, Unready, Readiness, TypeOK, TakeTurns, InPlace, Archiving
  <2> QED BY <1>5, <1>7, <2>1, <2>2, <2>3, <2>4, <2>5, <2>6 DEF CycleStep, Actors
<1> QED BY <1>1, <1>2, <1>3, <1>4, <1>6, <1>7 DEF Next

\* A session is reported as fulfilled, handed over and completed only once workers have
\* run for it.
LEMMA DeliverStep ==
  ASSUME TypeOK, InPlace, TakeTurns, Holding, Delivered, [Next]_vars PROVE Delivered'
<1>1. CASE UNCHANGED vars
  BY <1>1 DEF vars, files, local, history, bounds, Delivered, NoId, Daemon, Changing, Doing,
     Actors, Operator, TypeOK
<1>2. CASE Command
  BY <1>2 DEF Command, At, Operator, Turn, Actors, Daemon, Begins, Doing, files, history,
     Delivered, NoId, Changing, TypeOK
<1>3. CASE GoIdle
  BY <1>3 DEF GoIdle, At, Operator, Turn, Actors, Daemon, local, history, Delivered, NoId,
     Changing, Doing, TypeOK
<1>4. ASSUME NEW a \in Actors, Crash(a) PROVE Delivered'
  BY <1>4 DEF Crash, Goto, Ends, At, Daemon, files, history, Delivered, NoId, Changing, Doing,
     Actors, Operator, TypeOK
<1>5. ASSUME NEW a \in Actors, SessionStep(a) PROVE Delivered'
  <2>1. CASE ReadMode(a) \/ Load(a) \/ Rewrite(a) \/ NoSessionThrows(a)
    BY <2>1 DEF ReadMode, At, Goto, files, history, bounds, Load, Rewrite, NoSessionThrows,
       Fails, Ends, Operator, Doing, Delivered, NoId, Daemon, Changing, Actors, TypeOK
  <2>2. CASE Transition(a) \/ Record(a) \/ Remove(a) \/ SetIdle(a)
    BY <2>2 DEF Transition, At, Doing, Save, NoPlan, NoId, Daemon, Operator, Goto, Finishes,
       bounds, Record, Archiving, history, Remove, SetIdle, Delivered, Changing, Actors, TypeOK
  <2>3. CASE Onboard(a) \/ SaveHeld(a)
    BY <2>3 DEF Onboard, At, Daemon, Goto, history, bounds, SaveHeld, Save, NoPlan, NoId,
       Finishes, Operator, Delivered, Changing, Doing, Actors, TypeOK
  <2>4. CASE WriteMode(a)
    BY <2>4, Values, Carried DEF WriteMode, Archiving, At, Goto, Operator, Doing, Daemon,
       NoSession, NoId, history, bounds, Delivered, Changing, Actors, TypeOK, Holding, InPlace
  <2> QED BY <1>5, <2>1, <2>2, <2>3, <2>4 DEF SessionStep
<1>6. CASE CommandStep
  <2>1. CASE OpenRefused(Operator) \/ ClearOwned(Operator) \/ Create(Operator) \/ Point(Operator)
    BY <2>1 DEF OpenRefused, At, Doing, Fails, Ends, Goto, Operator, files, history, bounds,
       ClearOwned, New, NoPlan, NoId, Create, Point, Finishes, Delivered, Daemon, Changing, Actors,
       TypeOK
  <2>2. CASE AnswerRefused(Operator) \/ Answer(Operator) \/ Status(Operator)
    BY <2>2 DEF AnswerRefused, At, Doing, Fails, Ends, Goto, Operator, files, history, bounds,
       Answer, Status, Finishes, Delivered, NoId, Daemon, Changing, Actors, TypeOK
  <2> QED BY <1>5, <1>6, <2>1, <2>2 DEF CommandStep, Actors
<1>7. CASE CycleStep
  <2>1. CASE StartDaemon \/ Wake \/ Bind \/ FreezeArchives
    BY <2>1 DEF StartDaemon, At, Daemon, Turn, Actors, Operator, Goto, Job, files, history,
       bounds, Wake, Bind, Doing, FreezeArchives, Begins, Delivered, NoId, Changing, TypeOK
  <2>2. CASE Freeze \/ Evaluate \/ Present \/ StageArchives
    BY <2>2 DEF Freeze, At, Daemon, Goto, files, history, bounds, Evaluate, Statuses, Job,
       Present, Begins, StageArchives, Delivered, NoId, Changing, Doing, Actors, Operator, TypeOK
  <2>3. CASE CompleteProject \/ PlanCycle \/ Resume \/ Review
    BY <2>3 DEF CompleteProject, At, Daemon, AllPlansDone, Stamp, Untargeted, Begins, Job,
       history, bounds, PlanCycle, Goto, Resume, files, Review, Delivered, NoId, Changing, Doing,
       Actors, Operator, TypeOK
  <2>4. CASE Feedback \/ Dispatch
    BY <2>4 DEF Feedback, At, Daemon, Save, NoPlan, NoId, Doing, Goto, history, bounds, Dispatch,
       Stamp, Untargeted, Begins, Job, files, Delivered, Changing, Actors, Operator, TypeOK
  <2>5. CASE HandoffGuard
    <3>1. bound.id \in worked
      BY <2>5, Carried DEF HandoffGuard, At, Delivered, Ids, NoId
    <3> QED BY <2>5, <3>1 DEF HandoffGuard, Begins, Delivered, files, history
  <2>6. CASE Stage
    <3>1. /\ UNCHANGED <<report, handoff, worked, bound, job>>
          /\ pc'[Daemon] \in {"onboard", "sleep", "work"}
      BY <2>6, StageGoes DEF files, history, Goto, TypeOK, Actors
    <3> QED BY <3>1 DEF Delivered, Changing
  <2> QED BY <1>5, <1>7, <2>1, <2>2, <2>3, <2>4, <2>5, <2>6 DEF CycleStep, Actors
<1> QED BY <1>1, <1>2, <1>3, <1>4, <1>6, <1>7 DEF Next
-----------------------------------------------------------------------------
IInv ==
  /\ TypeOK /\ InPlace /\ TakeTurns /\ Holding /\ Pointing /\ Serving
  /\ Accounted /\ Logged /\ OwnedByActive /\ Clarified /\ Saving /\ Delivered

LEMMA InitTyped == Init => TypeOK /\ InPlace
<1> SUFFICES ASSUME Init PROVE TypeOK /\ InPlace
  OBVIOUS
<1>1. InPlace
  BY DEF Init, InPlace, Archiving, NoJob, Idle, Changing, Doing, Actors, Daemon, Operator
<1>2. /\ mode \in Modes /\ modeRead \in [Actors -> Modes] /\ lines \in [Ids -> Nat]
      /\ pc \in [Actors -> Points] /\ job \in [Actors -> Jobs]
      /\ held \in [Actors -> Session \cup {NoSession}]
      /\ contract \in [Ids -> {"none", "open", "stuck", "ready"}]
  BY Values DEF Init, Points
<1>3. /\ opened \in 0..MaxSessions /\ commands \in 0..MaxCommands
      /\ crashes \in 0..MaxCrashes
  BY DEF Init
<1>4. report \in [id : Ids \cup {NoId}, status : {"open", "fulfilled", "fulfilled_with_handoff"}]
  BY DEF Init
<1> QED BY <1>1, <1>2, <1>3, <1>4 DEF Init, TypeOK

LEMMA InitIInv == Init => IInv
<1> SUFFICES ASSUME Init PROVE IInv
  OBVIOUS
<1>1. \A a \in Actors : pc[a] = "down"
  BY DEF Init
<1>2. TakeTurns /\ Holding /\ Pointing /\ Serving
  BY <1>1 DEF TakeTurns, Holding, Pointing, Serving, Changing, Actors, Daemon, Operator
<1>3. Accounted /\ Logged /\ OwnedByActive
  BY DEF Init, Accounted, Logged, OwnedByActive, NoSession, NoId, Ids
<1>4. Clarified
  BY <1>1 DEF Init, Clarified, NoSession, Executable
<1>5. Saving /\ Delivered
  BY <1>1 DEF Init, Saving, Delivered, Changing, Actors, Daemon
<1> QED BY InitTyped, <1>2, <1>3, <1>4, <1>5 DEF IInv

LEMMA NextIInv == ASSUME ~Overlap, IInv, [Next]_vars PROVE IInv'
BY TypeStep, InPlaceStep, TurnStep, HoldStep, PointStep, ServeStep, AccountStep, LogStep,
   OwnStep, ClarifyStep, SaveStep, DeliverStep DEF IInv

LEMMA Typed == Spec => [](TypeOK /\ InPlace)
<1>1. TypeOK /\ InPlace /\ [Next]_vars => (TypeOK /\ InPlace)'
  BY TypeStep, InPlaceStep
<1> QED BY InitTyped, <1>1, PTL DEF Spec

LEMMA Invariant == ~Overlap /\ Spec => []IInv
<1>1. ASSUME ~Overlap PROVE IInv /\ [Next]_vars => IInv'
  BY <1>1, NextIInv
<1>2. ASSUME ~Overlap PROVE Spec => []IInv
  <2>1. IInv /\ [Next]_vars => IInv'
    BY <1>1, <1>2
  <2> QED BY InitIInv, <2>1, PTL DEF Spec
<1> QED BY <1>2

\* The files, what the actors carry and the bounds keep their types, with or without
\* commands during a cycle.
THEOREM TypeCorrect == Spec => []TypeOK
BY Typed, PTL

\* While commands and cycles take turns, no session is lost or comes back, and the
\* archive logs one again only after a crash.
THEOREM SessionsAccounted == ~Overlap /\ Spec => []EverySessionAccounted
<1>1. IInv => EverySessionAccounted
  BY DEF IInv, Accounted, Logged, EverySessionAccounted, ArchivedStaysGone
<1> QED BY Invariant, <1>1, PTL

\* While commands and cycles take turns, workers that run for a target run for the
\* session that is open, at a stage that allows it and under a mode that points to it.
THEOREM WorkersServe == ~Overlap /\ Spec => []WorkersServeOpenSession
<1>1. IInv => WorkersServeOpenSession
  BY DEF IInv, Holding, Pointing, Serving, WorkersServeOpenSession, At, Executable, NoSession
<1> QED BY Invariant, <1>1, PTL

\* While commands and cycles take turns, no worker runs for a session whose intent was
\* not clarified, unless the operator set its stage by hand.
THEOREM ClarifiedFirst == ~Overlap /\ Spec => []ClarifiedBeforeWork
<1>1. IInv => ClarifiedBeforeWork
  BY DEF IInv, Clarified, ClarifiedBeforeWork
<1> QED BY Invariant, <1>1, PTL

\* While commands and cycles take turns, the delivery and the plan on disk are the
\* active session's.
THEOREM OwnedFiles == ~Overlap /\ Spec => []OwnedByActive
<1>1. IInv => OwnedByActive
  BY DEF IInv
<1> QED BY Invariant, <1>1, PTL

\* A cycle leaves a quarantined session as it is, or closes it.
LEMMA QuarantineStep ==
  ASSUME TypeOK, InPlace, TakeTurns, Holding, Serving, [Next]_vars,
         active.stage = "quarantined", active'.id = active.id, active.id \in Ids
  PROVE  active'.stage \in Closed \cup {"quarantined"} \/ pc'[Operator] # pc[Operator]
<1>1. CASE UNCHANGED active
  BY <1>1
<1>2. CASE Command
  BY <1>2 DEF Command, files
<1>3. CASE GoIdle
  BY <1>3 DEF GoIdle
<1>4. ASSUME NEW a \in Actors, Crash(a)
      PROVE  UNCHANGED active
  BY <1>4 DEF Crash, Goto, Ends, files
<1>5. CASE CommandStep
  <2>1. pc'[Operator] # pc[Operator]
    BY <1>5 DEF CommandStep, SessionStep, ReadMode, WriteMode, Load, Rewrite, NoSessionThrows,
       Transition, Record, Archiving, Remove, SetIdle, Onboard, SaveHeld, OpenRefused, ClearOwned,
       Create, Point, AnswerRefused, Answer, Status, Finishes, Fails, Ends, Goto, At, Doing, TypeOK,
       Actors, Daemon, Operator
  <2> QED BY <2>1
<1>6. CASE CycleStep
  <2>1. CASE UNCHANGED files
    BY <2>1 DEF files
  <2>2. CASE Rewrite(Daemon)
    BY <2>2 DEF Rewrite, At, Holding, Actors
  <2>3. CASE Transition(Daemon)
    <3>1. job[Daemon].op \in {"complete", "promote"} /\ At(Daemon, "apply")
      BY <2>3 DEF Transition, InPlace, Doing, Archiving
    <3>2. Doing(Daemon, "complete")
      BY <3>1 DEF At, Doing, Serving, Holding, Changing
    <3>3. job[Daemon].stage \in Closed
      BY <3>2 DEF InPlace, Doing, Archiving, Actors
    <3> QED BY <2>3, <3>3, Transitions DEF Actors
  <2>4. CASE Remove(Daemon)
    BY <2>4 DEF Remove, NoSession, NoId, Ids
  <2>5. CASE SaveHeld(Daemon)
    BY <2>5 DEF SaveHeld, At, Serving, Unready
  <2>6. CASE Feedback
    BY <2>6 DEF Feedback, At, Holding, Serving, Changing, Executable
  <2> QED
    BY <1>6, <1>1, <2>1, <2>2, <2>3, <2>4, <2>5, <2>6 DEF CycleStep, SessionStep, ReadMode,
       WriteMode, Load, NoSessionThrows, Record, Archiving, SetIdle, Onboard, Fails, Doing, Goto,
       Ends, StartDaemon, Wake, Bind, FreezeArchives, Freeze, HandoffGuard, Evaluate, Present,
       Stage, StageArchives, CompleteProject, PlanCycle, Resume, Review, Dispatch
<1> QED BY <1>1, <1>2, <1>3, <1>4, <1>5, <1>6 DEF Next, vars, files

\* While commands and cycles take turns, a cycle never takes a session out of
\* quarantine, but to complete it.
THEOREM QuarantineKept == ~Overlap /\ Spec => QuarantineHolds
<1>1. IInv /\ [Next]_vars =>
        [\A s \in Ids :
           (active.id = s /\ active.stage = "quarantined" /\ active'.id = s)
             => active'.stage \in Closed \cup {"quarantined"} \/ pc'[Operator] # pc[Operator]]_vars
  BY QuarantineStep DEF IInv
<1> QED BY Invariant, <1>1, PTL DEF Spec, QuarantineHolds
-----------------------------------------------------------------------------
(***************************************************************************)
(* The refinement of SessionLife.                                          *)
(***************************************************************************)

LEMMA LifeStages ==
  /\ Life!Stages = Stages /\ Life!Unready = Unready /\ Life!Closed = Closed
  /\ Life!Executable = Executable /\ Life!Asked = "awaiting_intent_clarification"
  /\ Readiness \subseteq (Unready \ {"onboarding"}) \cup {"awaiting_intent_clarification"}
BY DEF Life!Stages, Life!Unready, Life!Closed, Life!Executable, Life!Asked, Stages, Open,
   Closed, Unready, Executable, Readiness

LEMMA LifeInit == Init => Life!Init
<1> SUFFICES ASSUME Init PROVE Life!Init
  OBVIOUS
<1>1. \A s \in Ids : contract[s] # "ready"
  BY DEF Init
<1> QED BY <1>1 DEF Init, Life!Init, NoSession, NoId

\* A step that saves the session with another stage is a move, when one of the rules
\* allows it.
LEMMA Moves ==
  ASSUME active \in Session, active'.id = active.id, active'.stage \in Stages,
         archived' = archived \ {active.id},
         UNCHANGED <<contract, opened, worked, gone, replaced, moved>>,
         \/ active'.stage = active.stage
         \/ active.stage \in Unready /\ active'.stage \in Readiness
         \/ active.stage \in Executable /\ active'.stage = "awaiting_intent_clarification"
         \/ /\ active.stage \in {"awaiting_intent_clarification", "shadow"}
            /\ active'.stage \in Executable /\ contract[active.id] = "ready"
         \/ active.stage = "shadow" /\ active'.stage = "active"
         \/ active'.stage \in Closed /\ active.id \in worked
  PROVE  Life!Next
<1>1. active.id \in Ids /\ active.id # 0
  BY Values DEF Ids
<1>2. Life!Enter(active'.stage)
  BY <1>1 DEF Life!Enter
<1>3. Life!Move(active'.stage)
  BY <1>1, <1>2, LifeStages DEF Life!Move
<1> QED BY <1>3, LifeStages DEF Life!Next

\* What a step leaves alone when no promise is about it.
LEMMA LifeRests ==
  ASSUME UNCHANGED <<active, archived, contract, opened, worked, gone, replaced, moved>>
  PROVE  UNCHANGED Life!vars
BY DEF Life!vars

\* Each step of an actor is one step of a session's life, or none.
LEMMA LifeStep ==
  ASSUME TypeOK, InPlace, TakeTurns, Holding, Serving, Accounted, Clarified, Saving, Delivered,
         [Next]_vars
  PROVE  [Life!Next]_Life!vars
<1>1. CASE UNCHANGED vars
  BY <1>1, LifeRests DEF vars, files, local, history, bounds
<1>2. CASE Command \/ GoIdle
  BY <1>2, LifeRests DEF Command, GoIdle, files, local, history
<1>3. ASSUME NEW a \in Actors, Crash(a) PROVE [Life!Next]_Life!vars
  BY <1>3, LifeRests DEF Crash, Goto, Ends, files, history
<1>4. ASSUME NEW a \in Actors, SessionStep(a) PROVE [Life!Next]_Life!vars
  <2>1. CASE ReadMode(a) \/ WriteMode(a) \/ Load(a) \/ NoSessionThrows(a) \/ SetIdle(a)
    BY <2>1, LifeRests DEF ReadMode, WriteMode, Archiving, Load, NoSessionThrows, Fails, Doing,
       Goto, Ends, SetIdle, files, history, bounds
  <2>2. CASE Rewrite(a)
    <3>1. active \in Session /\ active.stage \in Stages
      BY <2>2, Carried DEF Rewrite, At, Holding
    <3>2. UNCHANGED active /\ archived' = archived \ {active.id}
      BY <2>2 DEF Rewrite, At, Holding
    <3> QED BY <2>2, <3>1, <3>2, Moves DEF Rewrite, history, bounds
  <2>3. CASE Transition(a)
    <3>1. UNCHANGED <<contract, opened, worked, gone, replaced>>
      BY <2>3 DEF Transition, bounds
    <3>2. job[a].stage \in Stages
      BY <2>3 DEF Transition, InPlace, Doing, Archiving
    <3>3. CASE a = Operator
      <4>1. active.id # 0
        BY <2>3, Transitions, Values DEF Ids
      <4>2. Life!Enter(job[a].stage)
        BY <2>3, <3>1, <4>1, Transitions DEF Life!Enter
      <4>3. Life!MoveByHand(job[a].stage)
        BY <2>3, <3>3, <4>2, Transitions DEF Life!MoveByHand
      <4> QED BY <3>2, <4>3, LifeStages DEF Life!Next
    <3>4. CASE a = Daemon
      <4>1. UNCHANGED moved
        BY <2>3, <3>4, Transitions DEF Daemon, Operator
      <4>2. \/ Doing(a, "complete") /\ job[a].stage \in Closed /\ active.id \in worked
            \/ active.stage = "shadow" /\ job[a].stage = "active"
        BY <2>3, <3>4 DEF Transition, At, Doing, InPlace, Archiving, Holding, Serving, Delivered,
           Changing
      <4> QED BY <2>3, <3>1, <3>2, <4>1, <4>2, Transitions, Moves
    <3> QED BY <3>3, <3>4 DEF Actors
  <2>4. CASE Record(a)
    <3>1. active.id # 0 /\ archived' = archived \cup {active.id}
      BY <2>4, Carried DEF Record, Doing, Archiving, At, Holding, Ids
    <3>2. Life!Record
      BY <2>4, <3>1 DEF Record, Doing, Archiving, history, bounds, Life!Record
    <3> QED BY <3>2 DEF Life!Next
  <2>5. CASE Remove(a)
    <3>1. active.id \in archived /\ gone' = gone \cup {active.id} /\ active' = NoSession
      BY <2>5 DEF Remove, At, Holding
    <3>2. Life!Retire
      BY <2>5, <3>1 DEF Remove, bounds, NoSession, NoId, Life!Retire
    <3> QED BY <3>2 DEF Life!Next
  <2>6. CASE Onboard(a)
    <3>1. /\ active \in Session /\ active.stage \in Unready
          /\ active.id \in Ids /\ active.id \notin worked \ moved
      BY <2>6, Onboards, Values DEF Clarified
    <3>2. contract' \in {contract, [contract EXCEPT ![active.id] = "open"]}
      BY <2>6, <3>1 DEF Onboard, At, Holding, Actors
    <3>3. UNCHANGED <<active, archived, opened, worked, gone, replaced, moved>>
      BY <2>6 DEF Onboard, history, bounds
    <3>4. CASE contract' = [contract EXCEPT ![active.id] = "open"]
      <4>1. {s \in Ids : contract'[s] = "ready"} = {s \in Ids : contract[s] = "ready"} \ {active.id}
        BY <3>1, <3>4 DEF TypeOK
      <4>2. Life!Question
        BY <3>1, <3>3, <4>1, LifeStages DEF Life!Question
      <4> QED BY <4>2 DEF Life!Next
    <3> QED BY <3>2, <3>3, <3>4, LifeRests
  <2>7. CASE SaveHeld(a)
    <3>1. /\ active \in Session /\ active'.id = active.id /\ active' = held[a]
          /\ active'.stage \in Stages /\ archived' = archived \ {active.id}
      <4>1. held[a] \in Session /\ held[a].id = active.id /\ held[a].stage \in Stages
        BY <2>7, Carried DEF SaveHeld, At, Holding
      <4>2. active \in Session
        BY <4>1, Values DEF TypeOK, NoSession, NoId, Ids
      <4> QED BY <2>7, <4>1, <4>2 DEF SaveHeld, Save
    <3>2. UNCHANGED <<contract, opened, worked, gone, replaced, moved>>
      BY <2>7 DEF SaveHeld, history, bounds
    <3>3. \/ active.stage \in Unready /\ active'.stage \in Readiness
          \/ /\ active.stage \in {"awaiting_intent_clarification", "shadow"}
             /\ active'.stage \in {"awaiting_intent_clarification"} \cup Executable
             /\ active'.stage \in Executable => contract[active.id] = "ready"
      BY <2>7, <3>1 DEF SaveHeld, At, Saving, Clarified
    <3>4. active.stage = "shadow" => active.stage \in Executable
      BY DEF Executable
    <3> QED BY <3>1, <3>2, <3>3, <3>4, Moves
  <2> QED BY <1>4, <2>1, <2>2, <2>3, <2>4, <2>5, <2>6, <2>7 DEF SessionStep
<1>5. CASE CommandStep
  <2>1. CASE \/ OpenRefused(Operator) \/ ClearOwned(Operator) \/ Point(Operator)
            \/ AnswerRefused(Operator) \/ Status(Operator)
    BY <2>1, LifeRests DEF OpenRefused, ClearOwned, Point, AnswerRefused, Status, Fails, Doing,
       Goto, Ends, files, history, bounds
  <2>2. CASE Create(Operator)
    <3>1. /\ active'.id = opened + 1 /\ active'.stage = "onboarding" /\ opened' = opened + 1
          /\ active.stage \in Closed \/ active = NoSession
          /\ UNCHANGED <<archived, contract, gone, worked, moved>>
      BY <2>2, Values DEF Create, At, Holding, New, TypeOK, Stages
    <3>2. replaced' = replaced \cup ({active.id} \ {0})
      <4>1. CASE active.stage \in Closed
        <5>1. active.id # 0
          BY <4>1, Values DEF TypeOK, NoSession, Closed, Ids
        <5> QED BY <2>2, <4>1, <5>1 DEF Create
      <4>2. CASE active = NoSession
        BY <2>2, <4>2 DEF Create, NoSession, NoId, Closed
      <4> QED BY <3>1, <4>1, <4>2
    <3>3. active.id = 0 \/ active.stage \in Closed
      BY <3>1 DEF NoSession, NoId
    <3>4. Life!Open
      BY <3>1, <3>2, <3>3, LifeStages DEF Life!Open
    <3> QED BY <3>4 DEF Life!Next
  <2>3. CASE Answer(Operator)
    <3>1. /\ active.id \in Ids /\ contract[active.id] = "open"
          /\ active.stage \in {"awaiting_intent_clarification", "shadow"}
          /\ contract' \in [Ids -> {"none", "open", "stuck", "ready"}]
          /\ \A s \in Ids \ {active.id} : contract'[s] = contract[s]
      BY <2>3, Answers, Values DEF Actors
    <3>2. UNCHANGED <<active, archived, opened, worked, gone, replaced, moved>>
      BY <2>3 DEF Answer, history, bounds
    <3>3. CASE contract'[active.id] = "ready"
      <4>1. {s \in Ids : contract'[s] = "ready"} = {s \in Ids : contract[s] = "ready"} \cup {active.id}
        BY <3>1, <3>3
      <4>2. Life!Clarify
        BY <3>1, <3>2, <4>1, LifeStages DEF Life!Clarify
      <4> QED BY <4>2 DEF Life!Next
    <3>4. CASE contract'[active.id] # "ready"
      <4>1. {s \in Ids : contract'[s] = "ready"} = {s \in Ids : contract[s] = "ready"}
        BY <3>1, <3>4
      <4> QED BY <3>2, <4>1 DEF Life!vars
    <3> QED BY <3>3, <3>4
  <2> QED BY <1>4, <1>5, <2>1, <2>2, <2>3 DEF CommandStep, Actors
<1>6. CASE CycleStep
  <2>1. CASE StartDaemon \/ Wake \/ Bind \/ FreezeArchives \/ Freeze \/ HandoffGuard
    BY <2>1, LifeRests DEF StartDaemon, Wake, Bind, FreezeArchives, Freeze, HandoffGuard, files,
       history, bounds
  <2>2. CASE Evaluate \/ Present \/ Stage \/ StageArchives
    BY <2>2, LifeRests, StageGoes DEF Evaluate, Present, StageArchives, files, history, bounds
  <2>3. CASE CompleteProject \/ PlanCycle \/ Resume \/ Review
    BY <2>3, LifeRests DEF CompleteProject, PlanCycle, Resume, Review, files, history, bounds
  <2>4. CASE Feedback
    <3>1. active.stage \in Executable
      BY <2>4 DEF Feedback, At, Holding, Serving, Changing
    <3>2. active \in Session /\ active # NoSession
      BY <3>1 DEF TypeOK, NoSession, Executable
    <3>3. active'.stage \in Stages
      BY <2>4, <3>2, FeedbackKeeps, Values DEF Stages, Open
    <3>4. UNCHANGED <<contract, opened, worked, gone, replaced, moved>>
      BY <2>4 DEF Feedback, history, bounds
    <3> QED BY <2>4, <3>1, <3>2, <3>3, <3>4, FeedbackKeeps, Moves
  <2>5. CASE Dispatch
    <3>1. UNCHANGED <<active, archived, contract, opened, gone, replaced, moved>>
      BY <2>5 DEF Dispatch, files, bounds
    <3>2. CASE Stamp = Untargeted
      BY <2>5, <3>1, <3>2, LifeRests DEF Dispatch
    <3>3. CASE Stamp # Untargeted
      <4>1. Stamp = active.id /\ active.stage \in Executable
        BY <2>5, <3>3 DEF Dispatch, At, Stamp, Holding, Serving
      <4>2. active.id \in Ids
        BY <4>1, Values DEF TypeOK, NoSession, Executable
      <4>3. active.id \in {s \in Ids : contract[s] = "ready"} \cup moved
        BY <4>1, <4>2 DEF Clarified
      <4>4. worked' = worked \cup {active.id}
        BY <2>5, <3>3, <4>1 DEF Dispatch
      <4>5. Life!Work
        BY <3>1, <4>1, <4>3, <4>4, LifeStages DEF Life!Work
      <4> QED BY <4>5 DEF Life!Next
    <3> QED BY <3>2, <3>3
  <2> QED BY <1>4, <1>6, <2>1, <2>2, <2>3, <2>4, <2>5 DEF CycleStep, Actors
<1> QED BY <1>1, <1>2, <1>3, <1>4, <1>5, <1>6 DEF Next

\* While commands and cycles take turns, the session files keep the promises of
\* SessionLife: an opened session stays the one session until it was recorded or closed,
\* changes its stage by its rules or by hand, and is completed only after work.
THEOREM ImplementsLife == ~Overlap /\ Spec => LifeImplemented
<1>1. IInv /\ [Next]_vars => [Life!Next]_Life!vars
  BY LifeStep DEF IInv
<1> QED BY Invariant, LifeInit, <1>1, PTL DEF Spec, LifeImplemented, Life!Spec

\* What SessionLife says of sessions as a whole follows from it alone.
LEMMA LifeKeeps == Life!Spec => [](Life!OneAtATime /\ Life!WorkedWhenReady)
<1> DEFINE I == /\ opened \in Nat /\ archived \subseteq 1..opened
                /\ Life!OneAtATime /\ Life!WorkedWhenReady
<1>1. Life!Init => I
  BY DEF Life!Init, Life!OneAtATime, Life!WorkedWhenReady
<1>2. I /\ [Life!Next]_Life!vars => I'
  <2> SUFFICES ASSUME I, [Life!Next]_Life!vars PROVE I'
    OBVIOUS
  <2> USE DEF Life!OneAtATime, Life!WorkedWhenReady
  <2>1. CASE Life!Open
    BY <2>1 DEF Life!Open
  <2>2. CASE Life!Clarify
    BY <2>2 DEF Life!Clarify
  <2>3. CASE Life!Question
    BY <2>3 DEF Life!Question
  <2>4. CASE Life!Work
    BY <2>4 DEF Life!Work
  <2>5. CASE Life!Record
    <3>1. active.id \in 1..opened
      BY <2>5 DEF Life!Record
    <3> QED BY <2>5, <3>1 DEF Life!Record
  <2>6. CASE Life!Retire
    BY <2>6 DEF Life!Retire
  <2>7. ASSUME NEW to \in Life!Stages, Life!Move(to) \/ Life!MoveByHand(to)
        PROVE  I'
    BY <2>7 DEF Life!Move, Life!MoveByHand, Life!Enter
  <2>8. CASE UNCHANGED Life!vars
    BY <2>8 DEF Life!vars
  <2> QED BY <2>1, <2>2, <2>3, <2>4, <2>5, <2>6, <2>7, <2>8 DEF Life!Next
<1> QED BY <1>1, <1>2, PTL DEF Life!Spec

\* While commands and cycles take turns, each session that was opened is the active one
\* or is over, and none is both: none is lost, and none comes back.
THEOREM OneSessionAtATime == ~Overlap /\ Spec => []Life!OneAtATime
BY ImplementsLife, LifeKeeps, PTL DEF LifeImplemented
=============================================================================
