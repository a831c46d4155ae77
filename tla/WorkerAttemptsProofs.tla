-------------------------- MODULE WorkerAttemptsProofs --------------------------
(***************************************************************************)
(* WorkerAttempts for every number of batches, roles, reworks and retries. *)
(*                                                                         *)
(* What returns as "done" is verified because the gates leave no hole      *)
(* between them: the artifact gate lets a missing artifact through only    *)
(* where the verification gate is asked and has a rework left (DoneFacts). *)
(* A blocked role stays blocked because an entry is settled only by a      *)
(* session of its role, and a blocked role has none (NoneRuns).            *)
(***************************************************************************)
EXTENDS WorkerAttempts, TLAPS

\* No session of a role whose access is blocked.
NoneRuns == \A r \in Roles \ {ImplementationWorker} : AccessBlocked(r) => ~Runs(r)

\* A worker runs or has returned for a batch of the plan set.
AtABatch == pc # "idle" => done < N

IInv == TypeOK /\ DoneIsVerified /\ OneAlarmPerRole /\ NoneRuns /\ AtABatch

-----------------------------------------------------------------------------

\* A recovery removes entries of the recovered role only.
LEMMA RecoveredFacts ==
  ASSUME NEW q, NEW i, NEW p \in Recovered(q, i)
  PROVE  p \subseteq q /\ \A e \in q \ p : e.role = i.role
BY DEF Recovered, Matches, Recoverable

\* The queue after an append: as it was, or with one more hot entry, whose
\* fingerprint no hot one had.
LEMMA RaiseFacts ==
  ASSUME NEW q, NEW i, NEW class, Raise(q, i, class)
  PROVE  \/ open' = q /\ alarms' = alarms
         \/ /\ open' = q \cup {[role |-> i.role, text |-> i.text, class |-> class, hot |-> TRUE]}
            /\ ~Known(q, i)
            /\ alarms < MaxAlarms /\ alarms' = alarms + 1
BY DEF Raise, Appended

\* What the gates make of an answer is a status.
LEMMA GatedType ==
  ASSUME NEW a \in Answers, NEW i
  PROVE  Gated(a, i) \in Statuses
<1>1. a.status \in Statuses
  BY DEF Answers
<1>2. Parsed(a) \in Statuses
  BY <1>1 DEF Parsed, Statuses
<1>3. Guarded(a) \in Statuses
  BY <1>2 DEF Guarded, Softened, Statuses
<1> QED
  BY <1>3 DEF Gated, Owned, Statuses

\* An answer that is still "done" behind the gates: it raised nothing, it has the
\* closure fields, and a missing artifact is left to the verification gate.
LEMMA DoneFacts ==
  ASSUME NEW a \in Answers, NEW i, Gated(a, i) = "done"
  PROVE  /\ ~IsBlocked(Softened(a)) /\ a.files # "forbidden"
         /\ Recovers(a)
         /\ "closure" \notin a.lacks
         /\ ArtifactDue(i) /\ "artifact" \in a.lacks => contract /\ ~LastAttempt(i)
<1>1. Owned(a, i) = "done"
  BY DEF Gated
<1>2. Guarded(a) = "done"
  BY <1>1 DEF Owned
<1>3. Softened(a) = "done" /\ a.files # "forbidden"
  BY <1>2 DEF Guarded
<1>4. Parsed(a) = "done" /\ "closure" \notin a.lacks
  BY <1>3 DEF Softened
<1> QED
  BY <1>1, <1>2, <1>3, <1>4 DEF IsBlocked, Recovers, Gated

\* An answer settles or raises entries of the session's fingerprint, one at most.
LEMMA ReportedFacts ==
  ASSUME NEW a \in Answers, NEW i, Reported(a, i)
  PROVE  \/ open' \in Recovered(open, i) /\ alarms' = alarms
         \/ \E class \in Classes : Raise(open, i, class)
         \/ open' = open /\ alarms' = alarms
BY DEF Reported, Classes, queue

\* Behind the gates a "done" has only settled entries.
LEMMA FailsFacts ==
  ASSUME NEW a \in Answers, NEW i, Fails(a, i), Reported(a, i)
  PROVE  open' \in Recovered(open, i) /\ alarms' = alarms
<1>1. ~IsBlocked(Softened(a)) /\ a.files # "forbidden" /\ Recovers(a)
  BY DoneFacts DEF Fails
<1> QED
  BY <1>1 DEF Reported, queue

\* The parts of the invariant that are about a queue, of any queue.
Blocked(q, r) == \E e \in q : e.role = r /\ e.class = "ACCESS_BLOCKED"

Single(q) ==
  \A e, f \in q :
    e.hot /\ f.hot /\ e.role = f.role /\ {e.text, f.text} \cap ReworkTexts = {} => e = f

LEMMA Shrinks ==
  ASSUME NEW q \in SUBSET Entries, Single(q), NEW i, NEW p \in Recovered(q, i)
  PROVE  /\ p \subseteq Entries /\ Single(p)
         /\ \A r : Blocked(p, r) => Blocked(q, r)
         /\ \A r : Blocked(q, r) /\ r # i.role => Blocked(p, r)
<1>1. p \subseteq q /\ \A e \in q \ p : e.role = i.role
  BY RecoveredFacts
<1> QED
  BY <1>1 DEF Single, Blocked

LEMMA Grows ==
  ASSUME NEW q \in SUBSET Entries, Single(q), alarms \in 0..MaxAlarms,
         NEW i, i.role \in Roles, i.text \in Texts,
         NEW class \in Classes, Raise(q, i, class)
  PROVE  /\ open' \subseteq Entries /\ Single(open')
         /\ alarms' \in 0..MaxAlarms
         /\ \A r : Blocked(q, r) => Blocked(open', r)
<1> DEFINE new == [role |-> i.role, text |-> i.text, class |-> class, hot |-> TRUE]
<1>1. CASE open' = q /\ alarms' = alarms
  BY <1>1
<1>2. CASE /\ open' = q \cup {new} /\ ~Known(q, i)
           /\ alarms < MaxAlarms /\ alarms' = alarms + 1
  <2>1. new \in Entries
    BY DEF Entries
  <2>2. open' \subseteq Entries
    <3> HIDE DEF new
    <3> QED
      BY <1>2, <2>1
  <2>3. alarms' \in 0..MaxAlarms
    BY <1>2, LimitsAssumption
  <2>4. ASSUME NEW e \in open', NEW f \in open', e.hot, f.hot, e.role = f.role,
               {e.text, f.text} \cap ReworkTexts = {}
        PROVE  e = f
    <3>1. e.text = Bundle /\ f.text = Bundle
      BY <2>2, <2>4 DEF Entries, Texts
    <3>2. CASE e \in q /\ f \in q
      BY <2>4, <3>2 DEF Single
    <3>3. CASE e = new /\ f \in q
      BY <1>2, <2>4, <3>1, <3>3 DEF Known
    <3>4. CASE f = new /\ e \in q
      BY <1>2, <2>4, <3>1, <3>4 DEF Known
    <3> QED
      BY <1>2, <3>2, <3>3, <3>4
  <2>5. Single(open')
    BY <2>4 DEF Single
  <2>6. \A r : Blocked(q, r) => Blocked(open', r)
    BY <1>2 DEF Blocked
  <2> QED
    BY <2>2, <2>3, <2>5, <2>6
<1> QED
  BY <1>1, <1>2, RaiseFacts

\* The queue after any step of a session of role r.
QueueStep(r) ==
  /\ open' \subseteq Entries /\ Single(open') /\ alarms' \in 0..MaxAlarms
  /\ \A s : Blocked(open, s) /\ s # r => Blocked(open', s)

-----------------------------------------------------------------------------

LEMMA InitIInv == Init => IInv
<1> SUFFICES ASSUME Init PROVE IInv
  OBVIOUS
<1>1. NoInstruction \in [role : Roles, attempt : 0..MaxRework, text : Texts,
                        merge : BOOLEAN, named : BOOLEAN]
  BY RolesAssumption, LimitsAssumption DEF NoInstruction, Texts
<1>2. done \in 0..N /\ tries \in 0..MaxTransient /\ alarms \in 0..MaxAlarms
  BY BatchesAssumption, LimitsAssumption DEF Init
<1>3. TypeOK
  BY <1>1, <1>2 DEF Init, TypeOK
<1> QED
  BY <1>3 DEF Init, IInv, DoneIsVerified, OneAlarmPerRole, NoneRuns, AccessBlocked, AtABatch

LEMMA FirstType ==
  ASSUME TypeOK, done < N
  PROVE  First(done + 1) \in [role : Roles, attempt : 0..MaxRework, text : Texts,
                             merge : BOOLEAN, named : BOOLEAN]
<1>1. done + 1 \in Batches
  BY BatchesAssumption DEF TypeOK, Batches
<1>2. Target(done + 1) \in Roles
  BY <1>1, RolesAssumption, BatchesAssumption DEF Target
<1> QED
  BY <1>2, LimitsAssumption DEF First, TextOf, Texts

\* A dispatch never goes to a role whose access is blocked.
LEMMA FirstOpen ==
  ASSUME NEW b, First(b).role # ImplementationWorker
  PROVE  ~AccessBlocked(First(b).role)
BY DEF First, Target

\* Every answer and every failure leaves the queue well formed, and the entries of
\* the other roles in it.
LEMMA SessionQueue ==
  ASSUME IInv, SessionFails \/ Accepted \/ Rework \/ Exhausted
  PROVE  QueueStep(instruction.role)
<1> DEFINE i == instruction
<1>1. /\ open \in SUBSET Entries /\ Single(open) /\ alarms \in 0..MaxAlarms
      /\ i.role \in Roles /\ i.text \in Texts
  BY DEF IInv, TypeOK, OneAlarmPerRole, Single
<1> HIDE DEF i
<1>2. ASSUME NEW class \in Classes, Raise(open, i, class)
      PROVE  QueueStep(i.role)
  BY <1>1, <1>2, Grows DEF QueueStep
<1>3. ASSUME open' \in Recovered(open, i), alarms' = alarms
      PROVE  QueueStep(i.role)
  BY <1>1, <1>3, Shrinks DEF QueueStep
<1>4. ASSUME NEW q \in Recovered(open, i), Raise(q, i, "MAX_REWORK_EXHAUSTED")
      PROVE  QueueStep(i.role)
  <2>1. /\ q \subseteq Entries /\ Single(q)
        /\ \A r : Blocked(open, r) /\ r # i.role => Blocked(q, r)
    BY <1>1, Shrinks
  <2>2. "MAX_REWORK_EXHAUSTED" \in Classes
    BY DEF Classes
  <2> QED
    BY <1>1, <1>4, <2>1, <2>2, Grows DEF QueueStep
<1>5. ASSUME NEW a \in Answers, Reported(a, i)
      PROVE  QueueStep(i.role)
  <2>1. CASE open' = open /\ alarms' = alarms
    BY <1>1, <2>1 DEF QueueStep
  <2> QED
    BY <1>2, <1>3, <1>5, <2>1, ReportedFacts
<1>6. CASE SessionFails
  BY <1>2, <1>6 DEF SessionFails, Classes, i
<1>7. CASE Accepted
  BY <1>5, <1>7 DEF Accepted, i
<1>8. CASE Rework
  BY <1>5, <1>8 DEF Rework, i
<1>9. CASE Exhausted
  BY <1>4, <1>9 DEF Exhausted, i
<1> QED
  BY <1>6, <1>7, <1>8, <1>9 DEF i

\* What every step does to the invariant, and what RerouteSticks says of it.
Step ==
  /\ IInv'
  /\ \A r \in Roles \ {ImplementationWorker} :
       AccessBlocked(r) => AccessBlocked(r)' /\ ~Runs(r)'

\* A dispatch of a batch, the first or a retry.
LEMMA DispatchStep ==
  ASSUME IInv, done < N, pc' = "session", instruction' = First(done + 1),
         tries' \in 0..MaxTransient,
         result' \in Statuses \cup {"none", "transient_error"}, shown' \subseteq Evidence,
         UNCHANGED <<contract, done, closed, queue>>
  PROVE  Step
<1>1. TypeOK'
  BY FirstType DEF IInv, TypeOK, queue
<1>2. DoneIsVerified' /\ OneAlarmPerRole'
  BY DEF IInv, DoneIsVerified, OneAlarmPerRole, queue
<1>3. \A r : AccessBlocked(r)' <=> AccessBlocked(r)
  BY DEF AccessBlocked, queue
<1>4. \A r \in Roles \ {ImplementationWorker} : AccessBlocked(r) => ~Runs(r)'
  BY FirstOpen DEF Runs
<1>5. AtABatch'
  BY DEF AtABatch
<1> QED
  BY <1>1, <1>2, <1>3, <1>4, <1>5 DEF Step, IInv, NoneRuns

\* A step to where no worker runs, and nothing was returned.
LEMMA IdleStep ==
  ASSUME IInv, pc' = "idle", contract' = contract,
         done' \in 0..N, closed' \in BOOLEAN, tries' \in 0..MaxTransient,
         instruction' \in {instruction, NoInstruction},
         result' \in {result, "none"}, shown' \in {shown, {}}, UNCHANGED queue
  PROVE  Step
<1>1. NoInstruction \in [role : Roles, attempt : 0..MaxRework, text : Texts,
                        merge : BOOLEAN, named : BOOLEAN]
  BY RolesAssumption, LimitsAssumption DEF NoInstruction, Texts
<1>2. TypeOK'
  <2>1. instruction' \in [role : Roles, attempt : 0..MaxRework, text : Texts,
                         merge : BOOLEAN, named : BOOLEAN]
    BY <1>1 DEF IInv, TypeOK
  <2> QED
    BY <2>1 DEF IInv, TypeOK, queue
<1>3. DoneIsVerified' /\ OneAlarmPerRole' /\ \A r : ~Runs(r)'
  BY DEF IInv, DoneIsVerified, OneAlarmPerRole, Runs, queue
<1>4. \A r : AccessBlocked(r)' <=> AccessBlocked(r)
  BY DEF AccessBlocked, queue
<1> QED
  BY <1>2, <1>3, <1>4 DEF Step, IInv, NoneRuns, AtABatch

\* A session that ends.
LEMMA EndStep ==
  ASSUME IInv, pc = "session",
         NEW status \in Statuses \cup {"transient_error"}, NEW lacks \in SUBSET Evidence,
         Ends(status, lacks), status = "done" => Owes(instruction) \cap lacks = {},
         QueueStep(instruction.role)
  PROVE  Step
<1>1. TypeOK'
  BY DEF IInv, TypeOK, Ends, loop, QueueStep
<1>2. DoneIsVerified'
  BY DEF DoneIsVerified, Ends, Owes, ArtifactDue
<1>3. OneAlarmPerRole'
  BY DEF QueueStep, OneAlarmPerRole, Single
<1>4. \A r : ~Runs(r)'
  BY DEF Ends, Runs
<1>5. ASSUME NEW r \in Roles \ {ImplementationWorker}, AccessBlocked(r)
      PROVE  AccessBlocked(r)'
  <2>1. r # instruction.role
    BY <1>5 DEF IInv, NoneRuns, Runs
  <2> QED
    BY <1>5, <2>1 DEF QueueStep, Blocked, AccessBlocked
<1>6. AtABatch'
  BY DEF IInv, AtABatch, Ends, loop
<1> QED
  BY <1>1, <1>2, <1>3, <1>4, <1>5, <1>6 DEF Step, IInv, NoneRuns

LEMMA AcceptedStep == ASSUME IInv, Accepted PROVE Step
<1> DEFINE i == instruction
<1>1. PICK a \in Answers : /\ ~Fails(a, i) /\ Ends(Gated(a, i), a.lacks)
                           /\ Reported(a, i)
  BY DEF Accepted
<1>2. a.lacks \subseteq Evidence
  BY DEF Answers
<1>3. ASSUME Gated(a, i) = "done"
      PROVE  Owes(i) \cap a.lacks = {}
  <2>1. /\ "closure" \notin a.lacks
        /\ ArtifactDue(i) /\ "artifact" \in a.lacks => contract /\ ~LastAttempt(i)
    BY <1>3, DoneFacts
  <2>2. contract => Gaps(a, i) = {}
    BY <1>1, <1>3 DEF Fails
  <2>3. ASSUME i.role \notin ExemptRoles, contract
        PROVE  /\ "report" \notin a.lacks
               /\ i.merge => "artifact" \notin a.lacks
               /\ i.named => "proof" \notin a.lacks
    BY <2>2, <2>3 DEF Gaps
  <2>4. ASSUME i.role \notin ExemptRoles, i.merge
        PROVE  "artifact" \notin a.lacks
    BY <2>1, <2>3, <2>4 DEF ArtifactDue
  <2> QED
    BY <2>1, <2>3, <2>4 DEF Owes
<1>4. QueueStep(i.role)
  BY SessionQueue
<1> QED
  BY <1>1, <1>2, <1>3, <1>4, GatedType, EndStep DEF Accepted

LEMMA ExhaustedStep == ASSUME IInv, Exhausted PROVE Step
<1>1. PICK a \in Answers : Ends("blocked", a.lacks)
  BY DEF Exhausted
<1>2. a.lacks \subseteq Evidence /\ "blocked" \in Statuses
  BY DEF Answers, Statuses
<1>3. QueueStep(instruction.role)
  BY SessionQueue
<1> QED
  BY <1>1, <1>2, <1>3, EndStep DEF Exhausted

\* A rework keeps the role, and the queue has at most lost entries.
LEMMA ReworkStep == ASSUME IInv, Rework PROVE Step
<1> DEFINE i == instruction
<1>1. PICK a \in Answers : /\ Fails(a, i) /\ ~LastAttempt(i)
                           /\ instruction' = Reworked(i, Gaps(a, i))
                           /\ Reported(a, i)
  BY DEF Rework
<1>2. QueueStep(i.role)
  BY SessionQueue
<1>3. instruction' \in [role : Roles, attempt : 0..MaxRework, text : Texts,
                       merge : BOOLEAN, named : BOOLEAN]
  <2>1. i.role \in Roles /\ i.attempt \in 0..MaxRework /\ i.attempt < MaxRework
    BY <1>1, LimitsAssumption DEF IInv, TypeOK, LastAttempt
  <2>2. i.attempt + 1 \in 1..MaxRework /\ i.attempt + 1 \in 0..MaxRework
    BY <2>1, LimitsAssumption
  <2>3. FirstGap(Gaps(a, i)) \in Evidence
    BY DEF FirstGap, Evidence
  <2>4. <<i.attempt + 1, FirstGap(Gaps(a, i))>> \in Texts
    BY <2>2, <2>3 DEF Texts, ReworkTexts
  <2> QED
    BY <1>1, <2>1, <2>2, <2>4 DEF Reworked
<1>4. TypeOK'
  BY <1>2, <1>3 DEF IInv, TypeOK, Rework, loop, QueueStep
<1>5. DoneIsVerified' /\ OneAlarmPerRole'
  BY <1>2 DEF Rework, DoneIsVerified, QueueStep, OneAlarmPerRole, Single
<1>6. \A r : AccessBlocked(r)' => AccessBlocked(r)
  <2>1. open' \in Recovered(open, i)
    BY <1>1, FailsFacts
  <2> QED
    BY <2>1, RecoveredFacts DEF AccessBlocked
<1>7. \A r : Runs(r)' <=> Runs(r)
  BY <1>1 DEF Rework, Runs, Reworked
<1>8. \A r : AccessBlocked(r) /\ r # i.role => AccessBlocked(r)'
  BY <1>2 DEF QueueStep, Blocked, AccessBlocked
<1>9. \A r \in Roles \ {ImplementationWorker} :
         AccessBlocked(r) => r # i.role /\ ~Runs(r)
  BY DEF IInv, NoneRuns, Runs, Rework
<1>10. AtABatch'
  BY DEF IInv, AtABatch, Rework, loop
<1> QED
  BY <1>4, <1>5, <1>6, <1>7, <1>8, <1>9, <1>10 DEF Step, IInv, NoneRuns

\* A cold entry counts for the reroute as a hot one does.
LEMMA CooldownStep == ASSUME IInv, CooldownElapses PROVE Step
<1>1. PICK e \in open : e.hot /\ open' = (open \ {e}) \cup {[e EXCEPT !.hot = FALSE]}
  BY DEF CooldownElapses
<1> DEFINE cold == [e EXCEPT !.hot = FALSE]
<1>2. /\ e \in Entries /\ cold \in Entries
      /\ ~cold.hot /\ cold.role = e.role /\ cold.class = e.class
  BY DEF IInv, TypeOK, Entries
<1> HIDE DEF cold
<1>3. open' = (open \ {e}) \cup {cold}
  BY <1>1 DEF cold
<1>4. open' \subseteq Entries
  BY <1>2, <1>3 DEF IInv, TypeOK
<1>5. TypeOK'
  BY <1>4 DEF IInv, TypeOK, CooldownElapses, loop, session
<1>6. DoneIsVerified' /\ \A r : Runs(r)' <=> Runs(r)
  BY DEF IInv, DoneIsVerified, Owes, CooldownElapses, session, Runs
<1>7. OneAlarmPerRole'
  BY <1>2, <1>3 DEF IInv, OneAlarmPerRole
<1>8. \A r : AccessBlocked(r)' <=> AccessBlocked(r)
  BY <1>2, <1>3 DEF AccessBlocked
<1>9. AtABatch'
  BY DEF IInv, AtABatch, CooldownElapses, loop
<1> QED
  BY <1>5, <1>6, <1>7, <1>8, <1>9 DEF Step, IInv, NoneRuns

\* One step for each action.
LEMMA NextStep == ASSUME IInv, [Next]_vars PROVE Step
<1> USE LimitsAssumption, BatchesAssumption
<1>1. CASE Dispatch
  <2>1. tries' \in 0..MaxTransient /\ result' \in Statuses \cup {"none", "transient_error"}
        /\ shown' \subseteq Evidence
    BY <1>1 DEF Dispatch, IInv, TypeOK
  <2> QED
    BY <1>1, <2>1, DispatchStep DEF Dispatch
<1>2. CASE RetryTransient
  <2>1. done < N
    BY <1>2 DEF RetryTransient, IInv, AtABatch
  <2>2. tries' \in 0..MaxTransient
    BY <1>2 DEF RetryTransient, IInv, TypeOK
  <2> QED
    BY <1>2, <2>1, <2>2, DispatchStep DEF RetryTransient
<1>3. CASE Advance
  <2>1. done' \in 0..N
    BY <1>3 DEF Advance, Returns, IInv, TypeOK, AtABatch
  <2>2. closed' \in BOOLEAN
    BY <1>3 DEF Advance, IInv, TypeOK
  <2> QED
    BY <1>3, <2>1, <2>2, IdleStep DEF Advance, Returns
<1>4. CASE LeaveForRetry
  <2>1. done' \in 0..N /\ closed' \in BOOLEAN
    BY <1>4 DEF LeaveForRetry, IInv, TypeOK
  <2> QED
    BY <1>4, <2>1, IdleStep DEF LeaveForRetry, Returns
<1>5. CASE FailClose
  <2>1. done' \in 0..N /\ closed' \in BOOLEAN
    BY <1>5 DEF FailClose, IInv, TypeOK
  <2> QED
    BY <1>5, <2>1, IdleStep DEF FailClose, Returns
<1>6. CASE NextPlanSet
  <2>1. done' \in 0..N
    BY <1>6 DEF NextPlanSet
  <2>2. closed' \in BOOLEAN
    BY <1>6 DEF NextPlanSet
  <2>3. tries' \in 0..MaxTransient
    BY <1>6 DEF NextPlanSet, IInv, TypeOK
  <2> QED
    BY <1>6, <2>1, <2>2, <2>3, IdleStep DEF NextPlanSet, session
<1>7. CASE Crash
  <2>1. done' \in 0..N /\ closed' \in BOOLEAN
    BY <1>7 DEF Crash, IInv, TypeOK
  <2> QED
    BY <1>7, <2>1, IdleStep DEF Crash
<1>8. CASE CooldownElapses
  BY <1>8, CooldownStep
<1>9. CASE Refused
  <2>1. QueueStep(instruction.role)
    BY <1>9 DEF Refused, queue, QueueStep, IInv, TypeOK, OneAlarmPerRole, Single
  <2> QED
    BY <1>9, <2>1, EndStep DEF Refused, Statuses
<1>10. CASE SessionFails
  <2>1. QueueStep(instruction.role)
    BY <1>10, SessionQueue
  <2> QED
    BY <1>10, <2>1, EndStep DEF SessionFails, Statuses
<1>11. CASE Accepted
  BY <1>11, AcceptedStep
<1>12. CASE Rework
  BY <1>12, ReworkStep
<1>13. CASE Exhausted
  BY <1>13, ExhaustedStep
<1>14. CASE UNCHANGED vars
  <2>1. IInv'
    BY <1>14 DEF vars, IInv, TypeOK, DoneIsVerified, Owes, OneAlarmPerRole, NoneRuns,
                 AccessBlocked, Runs, AtABatch
  <2> QED
    BY <1>14, <2>1 DEF vars, Step, IInv, NoneRuns, AccessBlocked, Runs
<1> QED
  BY <1>1, <1>2, <1>3, <1>4, <1>5, <1>6, <1>7, <1>8, <1>9, <1>10, <1>11, <1>12, <1>13,
     <1>14 DEF Next

-----------------------------------------------------------------------------

LEMMA Invariant == Spec => []IInv
<1>1. IInv /\ [Next]_vars => IInv'
  BY NextStep DEF Step
<1> QED
  BY InitIInv, <1>1, PTL DEF Spec

\* The session's instruction, its attempt and the retries stay within their limits,
\* and the queue holds well-formed entries.
THEOREM TypeCorrect == Spec => []TypeOK
<1>1. IInv => TypeOK
  BY DEF IInv
<1> QED
  BY Invariant, <1>1, PTL

\* A conversation that returns "done" has shown everything its role owes.
THEOREM DoneVerified == Spec => []DoneIsVerified
<1>1. IInv => DoneIsVerified
  BY DEF IInv
<1> QED
  BY Invariant, <1>1, PTL

\* Within the cooldown one alarm stands for all first attempts of a role.
THEOREM OneAlarm == Spec => []OneAlarmPerRole
<1>1. IInv => OneAlarmPerRole
  BY DEF IInv
<1> QED
  BY Invariant, <1>1, PTL

\* A role whose access was blocked once is never given a batch again.
THEOREM ReroutedForGood == Spec => RerouteSticks
<1>1. IInv /\ [Next]_vars =>
        [\A r \in Roles \ {ImplementationWorker} :
           AccessBlocked(r) => AccessBlocked(r)' /\ ~Runs(r)']_vars
  BY NextStep DEF Step
<1> QED
  BY Invariant, <1>1, PTL DEF Spec, RerouteSticks
=============================================================================
