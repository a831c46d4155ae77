----------------------- MODULE DispatchCheckpointProofs -----------------------
(***************************************************************************)
(* Proofs about DispatchCheckpoint: its type invariant, that the ledger    *)
(* never runs ahead of the work, that batches start in order and are not   *)
(* redone, and that the checkpoint implements PlanLedger.                  *)
(***************************************************************************)
EXTENDS DispatchCheckpoint, TLAPS

USE PlansAssumption, BatchesAssumption, SpanAssumption, BoundsAssumption

\* A dispatch loop is under way on the checkpoint.
Dispatching == pc \in {"check", "run", "report", "record", "failclose"}

\* The ledger's total is the plan set's and bounds what is recorded; all that an
\* open ledger records was worked (a closed one may have been waived).
LedgerShape ==
  /\ ckpt # NoCkpt => ckpt.total = Batches[ckpt.plan]
  /\ ckpt.completed <= ckpt.total
  /\ ckpt.status = "dispatching" =>
       \A b \in 1..ckpt.completed : b \in done[ckpt.plan]

\* The loop works on the first batch that is not recorded.
LoopPosition ==
  /\ Dispatching => /\ ckpt # NoCkpt /\ ckpt.status = "dispatching"
                    /\ idx = ckpt.completed + 1
  /\ (Dispatching /\ pc # "check") => idx <= ckpt.total
  /\ (pc = "record" \/ (pc = "report" /\ result = "ok")) => idx \in done[ckpt.plan]
  /\ pc = "skip" => /\ ckpt # NoCkpt /\ ckpt.status = "dispatching"
                    /\ ckpt.plan \in waived

\* A plan set is dispatched under its own number only, so a new one has no
\* recorded batches; an older ledger's record survives until it is restarted.
RecordKept ==
  /\ ckpt.plan <= latest /\ review <= latest
  /\ \A p \in Plans : p > latest => acked[p] = 0
  /\ ckpt = NoCkpt => \A p \in Plans : acked[p] = 0
  /\ pc \in {"review", "admit"} => latest # 0 /\ acked[latest] = 0
  /\ (ckpt # NoCkpt /\ ckpt.plan \notin restarted) => acked[ckpt.plan] <= ckpt.completed

IInv == TypeOK /\ NoBatchSkipped /\ LedgerShape /\ LoopPosition /\ RecordKept
-----------------------------------------------------------------------------
\* A run segment index stays a natural number.
LEMMA SegmentType ==
  ASSUME NEW s \in Nat, NEW completed \in Nat, NEW total \in Nat
  PROVE  NextSegment(s, completed, total) \in Nat
<1>1. completed \div SpanBatches \in Nat
  OBVIOUS
<1>2. (total + SpanBatches - 1) \div SpanBatches \in Nat
  OBVIOUS
<1>3. QED BY <1>1, <1>2 DEF NextSegment, Capped

\* What a checkpoint other than NoCkpt looks like.
LEMMA CkptType ==
  ASSUME TypeOK
  PROVE  /\ ckpt.completed \in Nat /\ ckpt.total \in Nat /\ ckpt.plan \in 0..MaxPlans
         /\ ckpt # NoCkpt => ckpt.plan \in Plans
         /\ (ckpt = NoCkpt) <=> (ckpt.plan = 0)
         /\ (ckpt = NoCkpt) <=> (ckpt.signed = "none")
BY DEF TypeOK, Checkpoints, NoCkpt, Plans

LEMMA NewCheckpointType ==
  ASSUME NEW p \in Plans, NEW signed \in {"batches", "plans"}
  PROVE  /\ NewCheckpoint(p, signed) \in Checkpoints
         /\ NewCheckpoint(p, signed) # NoCkpt
         /\ NewCheckpoint(p, signed).plan = p
         /\ NewCheckpoint(p, signed).total = Batches[p]
         /\ NewCheckpoint(p, signed).completed = 0
         /\ NewCheckpoint(p, signed).status = "dispatching"
BY DEF NewCheckpoint, Checkpoints, NoCkpt, Plans, Statuses

LEMMA RecoveredType ==
  ASSUME TypeOK
  PROVE  Recovered \in [status : {"idle", "working"}, batch : Nat, left : {"no", "dead", "thrown"}]
<1>1. Idle \in [status : {"idle", "working"}, batch : Nat, left : {"no", "dead", "thrown"}]
  BY DEF Idle
<1>2. QED BY <1>1 DEF Recovered, TypeOK

\* What closing, failing and advancing a checkpoint keep and change.
LEMMA ClosedType ==
  ASSUME TypeOK, ckpt # NoCkpt
  PROVE  /\ Completed(ckpt) \in Checkpoints \ {NoCkpt}
         /\ Completed(ckpt).plan = ckpt.plan /\ Completed(ckpt).total = ckpt.total
         /\ Completed(ckpt).completed = ckpt.total
         /\ Completed(ckpt).status = "complete"
         /\ Failed(ckpt) \in Checkpoints \ {NoCkpt}
         /\ Failed(ckpt).plan = ckpt.plan /\ Failed(ckpt).total = ckpt.total
         /\ Failed(ckpt).completed = ckpt.completed
         /\ Failed(ckpt).status = "failed_closed"
<1>1. ckpt \in Checkpoints \ {NoCkpt}
  BY DEF TypeOK
<1>2. QED BY <1>1 DEF Completed, Failed, Checkpoints, NoCkpt, Plans, Statuses

LEMMA AdvancedType ==
  ASSUME TypeOK, ckpt # NoCkpt, NEW n \in Nat, n <= ckpt.total
  PROVE  /\ Advanced(ckpt, n) \in Checkpoints \ {NoCkpt}
         /\ Advanced(ckpt, n).plan = ckpt.plan /\ Advanced(ckpt, n).total = ckpt.total
         /\ Advanced(ckpt, n).completed = n
         /\ Advanced(ckpt, n).status = ckpt.status
<1>1. ckpt \in Checkpoints \ {NoCkpt} /\ ckpt.segment \in Nat /\ ckpt.total \in Nat
  BY DEF TypeOK, Checkpoints, NoCkpt
<1>2. Capped(n, ckpt.total) = n
  BY <1>1 DEF Capped
<1>3. NextSegment(ckpt.segment, n, ckpt.total) \in Nat
  BY <1>1, SegmentType
<1>4. QED BY <1>1, <1>2, <1>3 DEF Advanced, Checkpoints, NoCkpt, Plans, Statuses

\* A resume finds a plan set, or nothing.
LEMMA ResumePlanType ==
  ASSUME TypeOK, RecordKept, ResumePlan # 0
  PROVE  /\ ResumePlan \in Plans /\ ResumePlan <= latest
         /\ ckpt.signed = "none" => ResumePlan = review
         /\ ckpt.signed # "none" => ResumePlan = ckpt.plan
<1>1. CASE ckpt.signed = "none"
  <2>1. ResumePlan = review
    BY <1>1 DEF ResumePlan
  <2>2. QED BY <1>1, <2>1 DEF TypeOK, RecordKept, Plans
<1>2. CASE ckpt.signed # "none"
  <2>1. ResumePlan = ckpt.plan
    BY <1>2 DEF ResumePlan
  <2>2. ckpt.plan \in Plans
    BY <1>2, CkptType
  <2>3. QED BY <1>2, <2>1, <2>2 DEF RecordKept
<1>3. QED BY <1>1, <1>2

-----------------------------------------------------------------------------
LEMMA InitIInv == Init => IInv
<1> SUFFICES ASSUME Init PROVE IInv
  OBVIOUS
<1> USE DEF Init
<1>1. TypeOK
  <2>1. ckpt \in Checkpoints
    BY DEF Checkpoints
  <2>2. session \in [status : {"idle", "working"}, batch : Nat, left : {"no", "dead", "thrown"}]
    BY DEF Idle
  <2>3. stop \in BOOLEAN /\ escalated \in BOOLEAN
    BY Zenon
  <2>4. latest \in 0..MaxPlans /\ review \in 0..MaxPlans
    OBVIOUS
  <2>5. /\ proc \in {"none", "daemon", "resume", "once"} /\ pc \in Locations
        /\ inside \in {"none", "escalation", "resume", "escaped", "caught"}
        /\ result \in {"none", "ok", "fail", "deny"}
    BY DEF Locations
  <2>6. done \in [Plans -> SUBSET Nat] /\ acked \in [Plans -> Nat]
    OBVIOUS
  <2>7. /\ idx \in Nat /\ tries \in Nat /\ crashes \in Nat /\ stops \in Nat
        /\ waived \in SUBSET Plans /\ restarted \in SUBSET Plans
        /\ posted \in SUBSET Plans
    OBVIOUS
  <2>8. QED
    BY <2>1, <2>2, <2>3, <2>4, <2>5, <2>6, <2>7 DEF TypeOK
<1>2. NoBatchSkipped
  BY DEF NoBatchSkipped, NoCkpt
<1>3. LedgerShape
  BY DEF LedgerShape, NoCkpt
<1>4. LoopPosition
  BY DEF LoopPosition, Dispatching
<1>5. RecordKept
  BY DEF RecordKept, NoCkpt, Plans
<1>6. QED BY <1>1, <1>2, <1>3, <1>4, <1>5 DEF IInv

\* The steps that touch neither the ledger nor the place in the dispatch loop.
ControlStep ==
  \/ StartDaemon \/ StartResume \/ StartOnce \/ RequestStop \/ RequestEscalation
  \/ Crash \/ EscalationThrows \/ ResumeThrows \/ WaitForWorkersToFinish \/ Loop
  \/ AdmissionBlocked \/ ResumeRefused \/ StopDispatch \/ RetryTransient

LEMMA ControlStepIInv == IInv /\ ControlStep => IInv'
<1> SUFFICES ASSUME IInv, ControlStep PROVE IInv'
  OBVIOUS
<1> USE DEF IInv, disk, process, history, bounds, At, Goto, Enter, Exit, Return
<1> DEFINE Elsewhere == pc' \in {"down", "wait", "loop", "plan", "resume"}
           Here == pc' = pc /\ idx' = idx /\ result' = result
<1>1. /\ ckpt' = ckpt /\ latest' = latest /\ review' = review /\ done' = done
      /\ waived' = waived /\ acked' = acked /\ restarted' = restarted
      /\ Elsewhere \/ Here
  <2>1. CASE StartDaemon \/ StartResume \/ StartOnce
    BY <2>1 DEF StartDaemon, StartResume, StartOnce
  <2>2. CASE RequestStop \/ RequestEscalation
    BY <2>2 DEF RequestStop, RequestEscalation
  <2>3. CASE Crash
    BY <2>3 DEF Crash
  <2>31. CASE EscalationThrows \/ ResumeThrows
    BY <2>31 DEF EscalationThrows, ResumeThrows
  <2>4. CASE WaitForWorkersToFinish
    BY <2>4 DEF WaitForWorkersToFinish
  <2>5. CASE Loop
    BY <2>5 DEF Loop, LoopStop, LoopEscalation, LoopResume, LoopFresh,
       LoopPostCompletion
  <2>6. CASE AdmissionBlocked \/ ResumeRefused \/ StopDispatch
    BY <2>6 DEF AdmissionBlocked, ResumeRefused, StopDispatch
  <2>7. CASE RetryTransient
    BY <2>7 DEF RetryTransient
  <2>8. QED
    BY <2>1, <2>2, <2>3, <2>31, <2>4, <2>5, <2>6, <2>7 DEF ControlStep
<1>2. TypeOK'
  <2>1. CASE StartDaemon \/ StartResume \/ StartOnce
    BY <2>1 DEF StartDaemon, StartResume, StartOnce, TypeOK, Locations
  <2>2. CASE RequestStop
    BY <2>2 DEF RequestStop, TypeOK
  <2>21. CASE RequestEscalation
    BY <2>21 DEF RequestEscalation, TypeOK
  <2>3. CASE Crash
    BY <2>3 DEF Crash, TypeOK, Locations
  <2>31. CASE EscalationThrows \/ ResumeThrows
    <3>1. session' \in [status : {"idle", "working"}, batch : Nat,
                         left : {"no", "dead", "thrown"}]
      BY <2>31 DEF EscalationThrows, ResumeThrows, Thrown, TypeOK
    <3>2. QED BY <2>31, <3>1 DEF EscalationThrows, ResumeThrows, TypeOK, Locations
  <2>4. CASE WaitForWorkersToFinish
    <3>1. session' \in [status : {"idle", "working"}, batch : Nat, left : {"no", "dead", "thrown"}]
      BY <2>4, RecoveredType DEF WaitForWorkersToFinish, TypeOK
    <3>2. /\ pc' = "loop"
          /\ UNCHANGED <<ckpt, stop, escalated, latest, review, proc, inside, idx,
                         tries, result, done, waived, acked, restarted, posted,
                         crashes, stops>>
      BY <2>4 DEF WaitForWorkersToFinish
    <3>3. QED BY <3>1, <3>2 DEF TypeOK, Locations
  <2>5. CASE LoopStop
    <3>1. session' \in [status : {"idle", "working"}, batch : Nat,
                         left : {"no", "dead", "thrown"}]
      BY <2>5 DEF LoopStop, TypeOK
    <3>2. QED BY <2>5, <3>1 DEF LoopStop, TypeOK, Locations
  <2>50. CASE LoopEscalation
    BY <2>50 DEF LoopEscalation, TypeOK, Locations
  <2>51. CASE LoopResume \/ LoopFresh
    BY <2>51 DEF LoopResume, LoopFresh, TypeOK, Locations
  <2>6. CASE LoopPostCompletion
    BY <2>6 DEF LoopPostCompletion, TypeOK, Locations, Plans
  <2>7. CASE AdmissionBlocked \/ StopDispatch
    BY <2>7 DEF AdmissionBlocked, StopDispatch, TypeOK, Locations
  <2>71. CASE ResumeRefused
    BY <2>71, RecoveredType DEF ResumeRefused, TypeOK, Locations
  <2>8. CASE RetryTransient
    BY <2>8 DEF RetryTransient, TypeOK
  <2>9. QED
    BY <2>1, <2>2, <2>21, <2>3, <2>31, <2>4, <2>5, <2>50, <2>51, <2>6, <2>7, <2>71, <2>8
       DEF ControlStep, Loop
<1>3. NoBatchSkipped' /\ LedgerShape'
  BY <1>1 DEF NoBatchSkipped, LedgerShape
<1>4. LoopPosition' /\ RecordKept'
  <2>1. CASE Elsewhere
    BY <1>1, <2>1 DEF LoopPosition, Dispatching, RecordKept
  <2>2. CASE Here
    BY <1>1, <2>2 DEF LoopPosition, Dispatching, RecordKept
  <2>3. QED BY <1>1, <2>1, <2>2
<1>5. QED BY <1>2, <1>3, <1>4

LEMMA PlanCycleIInv == IInv /\ PlanCycle => IInv'
<1> SUFFICES ASSUME IInv, PlanCycle PROVE IInv'
  OBVIOUS
<1> USE DEF IInv, PlanCycle, At, Goto, Enter, Exit, Return, process, history, bounds
<1>1. /\ latest' \in 0..MaxPlans
      /\ \/ latest' = latest /\ pc' \in {"down", "loop"}
         \/ latest' = latest + 1 /\ pc' = "review"
  BY DEF TypeOK
<1>2. TypeOK'
  BY <1>1 DEF TypeOK, Locations
<1>3. NoBatchSkipped' /\ LedgerShape'
  BY DEF NoBatchSkipped, LedgerShape
<1>4. LoopPosition'
  BY <1>1 DEF LoopPosition, Dispatching
<1>5. RecordKept'
  <2>1. /\ UNCHANGED <<ckpt, review, acked, restarted>>
        /\ latest \in 0..MaxPlans /\ review \in 0..MaxPlans /\ ckpt.plan \in 0..MaxPlans
    BY CkptType DEF TypeOK
  <2>2. CASE latest' = latest /\ pc' \in {"down", "loop"}
    BY <2>1, <2>2 DEF RecordKept
  <2>3. CASE latest' = latest + 1 /\ pc' = "review"
    <3>1. latest' \in Plans /\ latest' > latest
      BY <1>1, <2>1, <2>3 DEF Plans
    <3>2. QED BY <2>1, <2>3, <3>1 DEF RecordKept, Plans
  <2>4. QED BY <1>1, <2>2, <2>3
<1>6. QED BY <1>2, <1>3, <1>4, <1>5

LEMMA ReviewCycleIInv == IInv /\ ReviewCycle => IInv'
<1> SUFFICES ASSUME IInv, ReviewCycle PROVE IInv'
  OBVIOUS
<1> USE DEF IInv, ReviewCycle, At, Goto, Enter, Exit, Return, process, history, bounds
<1>1. /\ review' \in 0..MaxPlans /\ review' <= latest
      /\ pc' \in {"down", "loop", "admit"}
  BY DEF TypeOK, RecordKept
<1>2. TypeOK'
  BY <1>1 DEF TypeOK, Locations
<1>3. NoBatchSkipped' /\ LedgerShape'
  BY DEF NoBatchSkipped, LedgerShape
<1>4. LoopPosition'
  BY <1>1 DEF LoopPosition, Dispatching
<1>5. RecordKept'
  BY <1>1 DEF RecordKept
<1>6. QED BY <1>2, <1>3, <1>4, <1>5

\* A new ledger for the approved plan set: nothing of it was recorded before.
LEMMA OpenIInv == IInv /\ (SkipDispatch \/ BeginDispatch) => IInv'
<1> SUFFICES ASSUME IInv, SkipDispatch \/ BeginDispatch PROVE IInv'
  OBVIOUS
<1> USE DEF IInv, At, Goto
<1>1. latest \in Plans /\ acked[latest] = 0
  BY DEF SkipDispatch, BeginDispatch, RecordKept, TypeOK, Plans
<1>2. /\ ckpt' \in Checkpoints /\ ckpt' # NoCkpt /\ ckpt'.plan = latest
      /\ ckpt'.total = Batches[latest] /\ ckpt'.completed = 0
      /\ ckpt'.status = "dispatching"
  BY <1>1, NewCheckpointType DEF SkipDispatch, BeginDispatch
<1>3. /\ acked' = acked /\ latest' = latest /\ review' = review
      /\ restarted' = restarted
      /\ \/ pc' = "skip" /\ idx' = idx /\ waived' = waived \cup {latest}
         \/ pc' = "check" /\ idx' = 1 /\ waived' = waived
  BY DEF SkipDispatch, BeginDispatch, process, history, bounds
<1>4. TypeOK'
  <2>1. /\ UNCHANGED <<session, stop, escalated, tries, result, done, posted,
                        proc, inside, crashes, stops>>
    BY DEF SkipDispatch, BeginDispatch, history, bounds
  <2>2. waived' \in SUBSET Plans /\ idx' \in Nat /\ pc' \in Locations
    <3>1. waived' \in SUBSET Plans
      BY <1>1, <1>3 DEF TypeOK
    <3>2. idx' \in Nat
      BY <1>3 DEF TypeOK
    <3>3. pc' \in Locations
      BY <1>3 DEF Locations
    <3>4. QED BY <3>1, <3>2, <3>3
  <2>3. QED BY <1>2, <1>3, <2>1, <2>2 DEF TypeOK
<1>5. NoBatchSkipped' /\ LedgerShape'
  BY <1>1, <1>2 DEF NoBatchSkipped, LedgerShape
<1>6. LoopPosition'
  BY <1>2, <1>3 DEF LoopPosition, Dispatching
<1>7. RecordKept'
  <2>1. acked[latest] <= ckpt'.completed /\ ckpt'.plan <= latest
    BY <1>1, <1>2 DEF Plans
  <2>2. QED BY <1>2, <1>3, <2>1 DEF RecordKept
<1>8. QED BY <1>4, <1>5, <1>6, <1>7

\* The ledger closes: worked to its end, waived, or failed.
LEMMA CloseIInv ==
  IInv /\ (CompleteSkipped \/ CompleteDispatch \/ FailClose) => IInv'
<1> SUFFICES ASSUME IInv, CompleteSkipped \/ CompleteDispatch \/ FailClose
             PROVE  IInv'
  OBVIOUS
<1> USE DEF IInv, At, Goto, Enter, Exit, Return
<1>1. ckpt # NoCkpt
  BY DEF CompleteSkipped, CompleteDispatch, FailClose, LoopPosition, Dispatching
<1>2. /\ ckpt' \in Checkpoints /\ ckpt' # NoCkpt
      /\ ckpt'.plan = ckpt.plan /\ ckpt'.total = ckpt.total
      /\ ckpt'.status \in {"complete", "failed_closed"}
      /\ \/ ckpt'.completed = ckpt.completed
         \/ ckpt'.completed = ckpt.total /\ ckpt.plan \in waived
  <2>1. CASE CompleteSkipped
    BY <1>1, <2>1, ClosedType DEF CompleteSkipped, LoopPosition
  <2>2. CASE CompleteDispatch
    <3>1. ckpt.completed = ckpt.total
      BY <2>2, CkptType
         DEF CompleteDispatch, LoopPosition, Dispatching, LedgerShape
    <3>2. QED BY <1>1, <2>2, <3>1, ClosedType DEF CompleteDispatch
  <2>3. CASE FailClose
    BY <1>1, <2>3, ClosedType DEF FailClose
  <2>4. QED BY <2>1, <2>2, <2>3
<1>3. /\ pc' \in {"down", "loop"} /\ proc' \in {proc, "none"} /\ inside' \in {inside, "none"}
      /\ UNCHANGED <<session, stop, escalated, latest, review, idx, tries, result,
                     done, waived, acked, restarted, posted, crashes, stops>>
  BY DEF CompleteSkipped, CompleteDispatch, FailClose, history, bounds
<1>4. TypeOK'
  BY <1>2, <1>3 DEF TypeOK, Locations
<1>5. NoBatchSkipped'
  BY <1>2, <1>3 DEF NoBatchSkipped
<1>6. LedgerShape'
  BY <1>1, <1>2, CkptType DEF LedgerShape
<1>7. LoopPosition'
  BY <1>3 DEF LoopPosition, Dispatching
<1>8. RecordKept'
  <2>1. ckpt'.completed >= ckpt.completed
    BY <1>2, CkptType DEF LedgerShape
  <2>2. ckpt.plan \in Plans /\ acked[ckpt.plan] \in Nat /\ ckpt'.completed \in Nat
    BY <1>1, <1>2, CkptType DEF TypeOK
  <2>3. ckpt.plan \notin restarted => acked[ckpt.plan] <= ckpt'.completed
    BY <1>1, <2>1, <2>2, CkptType DEF RecordKept
  <2>4. QED BY <1>2, <1>3, <2>3 DEF RecordKept
<1>9. QED BY <1>4, <1>5, <1>6, <1>7, <1>8

\* A resume keeps an interrupted ledger, or restarts one at its own plan set.
LEMMA ResumeDispatchLedger ==
  ASSUME IInv, ResumeDispatch
  PROVE  /\ ckpt' \in Checkpoints /\ ckpt' # NoCkpt /\ ckpt'.plan \in Plans
         /\ ckpt'.plan <= latest /\ ckpt'.total = Batches[ckpt'.plan]
         /\ ckpt'.completed \in Nat /\ ckpt'.completed <= ckpt'.total
         /\ ckpt'.status = "dispatching"
         /\ \/ ckpt' = ckpt /\ restarted' = restarted
            \/ /\ ckpt'.completed = 0
               /\ restarted' \in SUBSET Plans /\ restarted \subseteq restarted'
               /\ ckpt # NoCkpt => ckpt'.plan \in restarted'
<1> USE DEF IInv
<1>1. CASE Resumable(ckpt) /\ UNCHANGED <<ckpt, restarted>>
  <2>1. ckpt # NoCkpt /\ ckpt.status = "dispatching"
    BY <1>1 DEF Resumable, NoCkpt
  <2>2. QED BY <1>1, <2>1, CkptType DEF LedgerShape, RecordKept, TypeOK
<1>2. CASE /\ ~Resumable(ckpt)
           /\ ckpt' = NewCheckpoint(ResumePlan,
                        IF ckpt.signed = "none" THEN "batches" ELSE ckpt.signed)
           /\ restarted' = restarted \cup
                            IF ckpt.signed = "none" THEN {} ELSE {ResumePlan}
  <2>1. ResumePlan \in Plans /\ ResumePlan <= latest
    BY ResumePlanType DEF ResumeDispatch
  <2>2. (IF ckpt.signed = "none" THEN "batches" ELSE ckpt.signed)
           \in {"batches", "plans"}
    BY DEF TypeOK, Checkpoints, NoCkpt
  <2>3. /\ ckpt' \in Checkpoints /\ ckpt' # NoCkpt /\ ckpt'.plan = ResumePlan
        /\ ckpt'.total = Batches[ResumePlan] /\ ckpt'.completed = 0
        /\ ckpt'.status = "dispatching"
    BY <1>2, <2>1, <2>2, NewCheckpointType
  <2>4. restarted' \in SUBSET Plans /\ restarted \subseteq restarted'
    BY <1>2, <2>1 DEF TypeOK
  <2>5. ckpt # NoCkpt => ResumePlan \in restarted'
    BY <1>2, CkptType
  <2>6. Batches[ResumePlan] \in Nat
    BY <2>1
  <2>7. QED BY <2>1, <2>3, <2>4, <2>5, <2>6
<1>3. QED BY <1>1, <1>2 DEF ResumeDispatch

LEMMA ResumeDispatchIInv == IInv /\ ResumeDispatch => IInv'
<1> SUFFICES ASSUME IInv, ResumeDispatch PROVE IInv'
  OBVIOUS
<1> USE DEF IInv
<1>1. /\ \/ pc' \in {"down", "loop"} /\ proc' \in {proc, "none"} /\ idx' = idx
         \/ pc' = "check" /\ proc' = proc /\ idx' = ckpt'.completed + 1
      /\ inside' \in {inside, "none"}
      /\ UNCHANGED <<stop, escalated, latest, review, tries, result,
                     done, waived, acked, posted, crashes, stops>>
  <2>1. ckpt'.total \in Nat
    BY ResumeDispatchLedger
  <2>2. Capped(ckpt'.completed, ckpt'.total) = ckpt'.completed
    BY <2>1, ResumeDispatchLedger DEF Capped
  <2>3. QED BY <2>2 DEF ResumeDispatch, Return, Goto, Exit, At, bounds
<1>2. TypeOK'
  <2>1. session' \in [status : {"idle", "working"}, batch : Nat, left : {"no", "dead", "thrown"}]
    BY RecoveredType DEF ResumeDispatch
  <2>2. /\ ckpt' \in Checkpoints /\ restarted' \in SUBSET Plans /\ idx' \in Nat
        /\ pc' \in Locations /\ proc' \in {"none", "daemon", "resume", "once"}
        /\ inside' \in {"none", "escalation", "resume", "escaped", "caught"}
    BY <1>1, ResumeDispatchLedger DEF TypeOK, Locations
  <2>3. QED BY <1>1, <2>1, <2>2 DEF TypeOK
<1>3. NoBatchSkipped'
  BY <1>1, ResumeDispatchLedger DEF NoBatchSkipped
<1>4. LedgerShape'
  BY <1>1, ResumeDispatchLedger DEF LedgerShape
<1>5. LoopPosition'
  BY <1>1, ResumeDispatchLedger DEF LoopPosition, Dispatching
<1>6. RecordKept'
  BY <1>1, ResumeDispatchLedger DEF RecordKept, TypeOK
<1>7. QED BY <1>2, <1>3, <1>4, <1>5, <1>6

LEMMA StartBatchIInv == IInv /\ StartBatch => IInv'
<1> SUFFICES ASSUME IInv, StartBatch PROVE IInv'
  OBVIOUS
<1> USE DEF IInv, StartBatch, At, Goto
<1>1. /\ pc = "check" /\ idx <= ckpt.total /\ pc' = "run" /\ tries' = 0
      /\ result' = "none"
      /\ UNCHANGED <<ckpt, stop, escalated, latest, review, idx, proc, inside,
                     done, waived, acked, restarted, posted, crashes, stops>>
  BY DEF history, bounds
<1>2. session' \in [status : {"idle", "working"}, batch : Nat, left : {"no", "dead", "thrown"}]
  BY DEF TypeOK
<1>3. TypeOK'
  BY <1>1, <1>2 DEF TypeOK, Locations
<1>4. NoBatchSkipped' /\ LedgerShape' /\ RecordKept'
  BY <1>1 DEF NoBatchSkipped, LedgerShape, RecordKept
<1>5. LoopPosition'
  BY <1>1 DEF LoopPosition, Dispatching
<1>6. QED BY <1>3, <1>4, <1>5

LEMMA WorkerReturnsIInv ==
  ASSUME IInv, NEW r \in {"ok", "fail", "deny"}, WorkerReturns(r)
  PROVE  IInv'
<1> USE DEF IInv, WorkerReturns, At, Goto
<1>1. /\ pc = "run" /\ pc' = "report" /\ result' = r
      /\ UNCHANGED <<ckpt, session, stop, escalated, latest, review, idx, tries,
                     proc, inside, waived, acked, restarted, posted, crashes, stops>>
  BY DEF disk, bounds
<1>2. ckpt.plan \in Plans
  BY <1>1, CkptType DEF LoopPosition, Dispatching
<1>3. /\ done' \in [Plans -> SUBSET Nat]
      /\ \A p \in Plans : done[p] \subseteq done'[p]
      /\ r = "ok" => idx \in done'[ckpt.plan]
  BY <1>2 DEF TypeOK
<1>4. TypeOK'
  BY <1>1, <1>3 DEF TypeOK, Locations
<1>5. NoBatchSkipped'
  BY <1>1, <1>2, <1>3 DEF NoBatchSkipped
<1>6. LedgerShape' /\ RecordKept'
  BY <1>1 DEF LedgerShape, RecordKept
<1>7. LoopPosition'
  BY <1>1, <1>2, <1>3 DEF LoopPosition, Dispatching
<1>8. QED BY <1>4, <1>5, <1>6, <1>7

LEMMA ReportBatchIInv == IInv /\ ReportBatch => IInv'
<1> SUFFICES ASSUME IInv, ReportBatch PROVE IInv'
  OBVIOUS
<1> USE DEF IInv
<1>1. /\ pc = "report"
      /\ \/ pc' \in {"down", "loop", "failclose"}
         \/ pc' = "record" /\ result = "ok"
      /\ proc' \in {proc, "none"} /\ inside' \in {inside, "none"}
      /\ UNCHANGED <<ckpt, stop, escalated, latest, review, idx, tries, result,
                     done, waived, acked, restarted, posted, crashes, stops>>
  BY DEF ReportBatch, At, Goto, Return, Exit, history, bounds
<1>2. session' \in [status : {"idle", "working"}, batch : Nat, left : {"no", "dead", "thrown"}]
  BY DEF ReportBatch, Idle
<1>3. TypeOK'
  BY <1>1, <1>2 DEF TypeOK, Locations
<1>4. NoBatchSkipped' /\ LedgerShape' /\ RecordKept'
  BY <1>1 DEF NoBatchSkipped, LedgerShape, RecordKept
<1>5. LoopPosition'
  BY <1>1 DEF LoopPosition, Dispatching
<1>6. QED BY <1>3, <1>4, <1>5

\* The step that moves the ledger: the batch just worked joins those recorded.
LEMMA RecordProgressIInv == IInv /\ RecordProgress => IInv'
<1> SUFFICES ASSUME IInv, RecordProgress PROVE IInv'
  OBVIOUS
<1> USE DEF IInv
<1>1. /\ pc = "record" /\ pc' = "check" /\ idx' = idx + 1 /\ ckpt' = Advanced(ckpt, idx)
      /\ acked' = [acked EXCEPT ![ckpt.plan] = IF idx > @ THEN idx ELSE @]
      /\ UNCHANGED <<session, stop, escalated, latest, review, tries, result, proc, inside,
                     done, waived, restarted, posted, crashes, stops>>
  BY DEF RecordProgress, At, Goto, bounds
<1>2. /\ ckpt # NoCkpt /\ ckpt.plan \in Plans /\ ckpt.status = "dispatching"
      /\ idx = ckpt.completed + 1 /\ idx <= ckpt.total /\ idx \in done[ckpt.plan]
      /\ idx \in Nat /\ ckpt.completed \in Nat
  BY <1>1, CkptType DEF LoopPosition, Dispatching, TypeOK
<1>3. /\ ckpt' \in Checkpoints /\ ckpt' # NoCkpt
      /\ ckpt'.plan = ckpt.plan /\ ckpt'.total = ckpt.total
      /\ ckpt'.completed = idx /\ ckpt'.status = "dispatching"
  BY <1>1, <1>2, AdvancedType
<1>4. /\ acked' \in [Plans -> Nat]
      /\ \A p \in Plans : p # ckpt.plan => acked'[p] = acked[p]
      /\ acked[ckpt.plan] <= idx => acked'[ckpt.plan] <= idx
  BY <1>1, <1>2 DEF TypeOK
<1>5. TypeOK'
  BY <1>1, <1>2, <1>3, <1>4 DEF TypeOK, Locations
<1>6. NoBatchSkipped'
  BY <1>1, <1>2, <1>3 DEF NoBatchSkipped
<1>7. LedgerShape'
  BY <1>1, <1>2, <1>3 DEF LedgerShape
<1>8. LoopPosition'
  BY <1>1, <1>3 DEF LoopPosition, Dispatching
<1>9. RecordKept'
  <2>1. ckpt.plan <= latest
    BY DEF RecordKept
  <2>2. \A p \in Plans : p > latest => acked'[p] = 0
    <3>1. TAKE p \in Plans
    <3>2. HAVE p > latest
    <3>3. p # ckpt.plan
      BY <2>1, <3>2 DEF TypeOK, Plans
    <3>4. QED BY <1>4, <3>2, <3>3 DEF RecordKept
  <2>3. ckpt.plan \notin restarted => acked'[ckpt.plan] <= idx
    BY <1>2, <1>4 DEF RecordKept, TypeOK
  <2>4. QED BY <1>1, <1>3, <2>1, <2>2, <2>3 DEF RecordKept
<1>10. QED BY <1>5, <1>6, <1>7, <1>8, <1>9

LEMMA NextIInv == IInv /\ [Next]_vars => IInv'
<1> SUFFICES ASSUME IInv, [Next]_vars PROVE IInv'
  OBVIOUS
<1>1. CASE ControlStep
  BY <1>1, ControlStepIInv
<1>2. CASE PlanCycle \/ ReviewCycle
  BY <1>2, PlanCycleIInv, ReviewCycleIInv
<1>3. CASE SkipDispatch \/ BeginDispatch
  BY <1>3, OpenIInv
<1>4. CASE CompleteSkipped \/ CompleteDispatch \/ FailClose
  BY <1>4, CloseIInv
<1>5. CASE ResumeDispatch \/ StartBatch
  BY <1>5, ResumeDispatchIInv, StartBatchIInv
<1>6. CASE (\E r \in {"ok", "fail", "deny"} : WorkerReturns(r))
  BY <1>6, WorkerReturnsIInv
<1>7. CASE ReportBatch \/ RecordProgress
  BY <1>7, ReportBatchIInv, RecordProgressIInv
<1>8. CASE UNCHANGED vars
  BY <1>8 DEF vars, disk, process, history, bounds, IInv, TypeOK, NoBatchSkipped,
     LedgerShape, LoopPosition, Dispatching, RecordKept
<1>9. QED
  BY <1>1, <1>2, <1>3, <1>4, <1>5, <1>6, <1>7, <1>8
     DEF Next, ProcessStep, Cycle, Resume, Dispatch, ControlStep

\* Every reachable state satisfies the inductive invariant.
THEOREM IInvHolds == Spec => []IInv
<1>1. Init => IInv
  BY InitIInv
<1>2. IInv /\ [Next]_vars => IInv'
  BY NextIInv
<1>3. QED BY <1>1, <1>2, PTL DEF Spec

\* The checkpoint, the worker session and the loop's position keep their types.
THEOREM TypeCorrect == Spec => []TypeOK
<1>1. IInv => TypeOK
  BY DEF IInv
<1>2. QED BY <1>1, IInvHolds, PTL

\* The ledger never counts a batch that no worker reported successful, unless the
\* closure fastpath waived its plan set: not after any crash, stop or resume.
THEOREM NothingSkipped == Spec => []NoBatchSkipped
<1>1. IInv => NoBatchSkipped
  BY DEF IInv
<1>2. QED BY <1>1, IInvHolds, PTL
-----------------------------------------------------------------------------
\* A batch starts only when all batches before it have succeeded.
THEOREM StartsInOrder == Spec => InOrderStart
<1>1. IInv /\ [Next]_vars =>
        [(pc = "check" /\ pc' = "run") =>
           \A b \in 1..(idx - 1) : b \in done[ckpt.plan]]_vars
  <2>1. SUFFICES ASSUME IInv, pc = "check", NEW b \in 1..(idx - 1)
                 PROVE  b \in done[ckpt.plan]
    OBVIOUS
  <2>2. idx = ckpt.completed + 1 /\ ckpt.status = "dispatching"
    BY <2>1 DEF IInv, LoopPosition, Dispatching
  <2>3. ckpt.completed \in Nat
    BY <2>1, CkptType DEF IInv
  <2>4. QED BY <2>1, <2>2, <2>3 DEF IInv, LedgerShape
<1>2. QED BY <1>1, IInvHolds, PTL DEF Spec, InOrderStart

\* A recorded batch is not dispatched again, but by a forced restart of its ledger.
THEOREM NothingRedone == Spec => NoRedoneBatch
<1>1. IInv /\ [Next]_vars =>
        [(pc = "check" /\ pc' = "run") =>
           idx > acked[ckpt.plan] \/ ckpt.plan \in restarted]_vars
  <2>1. SUFFICES ASSUME IInv, pc = "check", ckpt.plan \notin restarted
                 PROVE  idx > acked[ckpt.plan]
    OBVIOUS
  <2>2. idx = ckpt.completed + 1 /\ ckpt # NoCkpt
    BY <2>1 DEF IInv, LoopPosition, Dispatching
  <2>3. /\ ckpt.completed \in Nat /\ ckpt.plan \in Plans
        /\ acked[ckpt.plan] \in Nat
    BY <2>1, <2>2, CkptType DEF IInv, TypeOK
  <2>4. QED BY <2>1, <2>2, <2>3 DEF IInv, RecordKept
<1>2. QED BY <1>1, IInvHolds, PTL DEF Spec, NoRedoneBatch

-----------------------------------------------------------------------------
(***************************************************************************)
(* The refinement.                                                         *)
(***************************************************************************)

LEMMA LedgerInit == Init => Ledger!Init
BY DEF Init, NoCkpt, Ledger!Init, Ledger!Plans, Plans

\* Each step of the process is one step of the ledger, or none.
LEMMA LedgerStep == IInv /\ [Next]_vars => [Ledger!Next]_Ledger!vars
<1> SUFFICES ASSUME IInv, [Next]_vars PROVE [Ledger!Next]_Ledger!vars
  OBVIOUS
<1> USE DEF IInv
<1>1. CASE SkipDispatch \/ BeginDispatch
  <2>1. latest \in Plans
    BY <1>1 DEF SkipDispatch, BeginDispatch, At, RecordKept, TypeOK, Plans
  <2>2. /\ ckpt'.plan = latest /\ ckpt'.completed = 0
        /\ ckpt'.status = "dispatching"
    BY <1>1, <2>1, NewCheckpointType DEF SkipDispatch, BeginDispatch
  <2>3. Ledger!Open(latest)
    BY <1>1, <2>2
       DEF SkipDispatch, BeginDispatch, history, Ledger!Open
  <2>4. QED BY <2>1, <2>3 DEF Ledger!Next, Ledger!Plans, Plans
<1>2. CASE ResumeDispatch
  <2>1. done' = done /\ waived' = waived
    BY <1>2 DEF ResumeDispatch
  <2>2. CASE ckpt' = ckpt
    BY <2>1, <2>2 DEF Ledger!vars
  <2>3. CASE ckpt'.completed = 0
    <3>1. ckpt'.plan \in Plans /\ ckpt'.status = "dispatching"
      BY <1>2, ResumeDispatchLedger
    <3>2. Ledger!Open(ckpt'.plan)
      BY <2>1, <2>3, <3>1 DEF Ledger!Open
    <3>3. QED BY <3>1, <3>2 DEF Ledger!Next, Ledger!Plans, Plans
  <2>4. QED BY <1>2, <2>2, <2>3, ResumeDispatchLedger
<1>3. CASE \E r \in {"ok", "fail", "deny"} : WorkerReturns(r)
  <2>1. PICK r \in {"ok", "fail", "deny"} : WorkerReturns(r)
    BY <1>3
  <2>2. /\ ckpt.plan \in Plans /\ ckpt.total = Batches[ckpt.plan]
        /\ idx = ckpt.completed + 1 /\ idx <= ckpt.total
        /\ ckpt.completed \in Nat /\ ckpt.status = "dispatching"
    BY <2>1, CkptType
       DEF WorkerReturns, At, LoopPosition, Dispatching, LedgerShape
  <2>3. ckpt' = ckpt /\ waived' = waived
    BY <2>1 DEF WorkerReturns, disk
  <2>4. CASE r = "ok"
    <3>1. done' = [done EXCEPT ![ckpt.plan] = @ \cup {ckpt.completed + 1}]
      BY <2>1, <2>2, <2>4 DEF WorkerReturns
    <3>2. ckpt.completed < Batches[ckpt.plan]
      BY <2>2
    <3>3. Ledger!Work
      BY <2>2, <2>3, <3>1, <3>2 DEF Ledger!Work
    <3>4. QED BY <3>3 DEF Ledger!Next
  <2>5. CASE r # "ok"
    <3>1. done' = done
      BY <2>1, <2>5 DEF WorkerReturns, TypeOK
    <3>2. QED BY <2>3, <3>1 DEF Ledger!vars
  <2>6. QED BY <2>4, <2>5
<1>4. CASE RecordProgress
  <2>1. /\ ckpt # NoCkpt /\ ckpt.status = "dispatching" /\ idx = ckpt.completed + 1
        /\ idx <= ckpt.total /\ idx \in done[ckpt.plan] /\ idx \in Nat
    BY <1>4 DEF RecordProgress, At, LoopPosition, Dispatching, TypeOK
  <2>2. /\ ckpt'.plan = ckpt.plan /\ ckpt'.completed = ckpt.completed + 1
        /\ ckpt'.status = ckpt.status /\ done' = done /\ waived' = waived
    BY <1>4, <2>1, AdvancedType DEF RecordProgress
  <2>3. Ledger!Record
    BY <2>1, <2>2 DEF Ledger!Record
  <2>4. QED BY <2>3 DEF Ledger!Next
<1>5. CASE CompleteSkipped \/ CompleteDispatch
  <2>1. /\ ckpt # NoCkpt /\ ckpt.status = "dispatching"
        /\ ckpt' = Completed(ckpt) /\ done' = done /\ waived' = waived
        /\ ckpt.completed = ckpt.total \/ ckpt.plan \in waived
    BY <1>5, CkptType
       DEF CompleteSkipped, CompleteDispatch, At, history, LoopPosition,
           Dispatching, LedgerShape
  <2>2. ckpt.total = Batches[ckpt.plan]
    BY <2>1 DEF LedgerShape
  <2>3. /\ ckpt'.plan = ckpt.plan /\ ckpt'.completed = Batches[ckpt.plan]
        /\ ckpt'.status = "complete"
    BY <2>1, <2>2, ClosedType
  <2>4. Ledger!Close
    BY <2>1, <2>2, <2>3 DEF Ledger!Close
  <2>5. QED BY <2>4 DEF Ledger!Next
<1>6. CASE FailClose
  <2>1. ckpt # NoCkpt /\ ckpt.status = "dispatching"
    BY <1>6 DEF FailClose, At, LoopPosition, Dispatching
  <2>2. /\ ckpt'.plan = ckpt.plan /\ ckpt'.completed = ckpt.completed
        /\ ckpt'.status = "failed_closed" /\ done' = done /\ waived' = waived
    BY <1>6, <2>1, ClosedType DEF FailClose, history
  <2>3. Ledger!Fail
    BY <2>1, <2>2 DEF Ledger!Fail
  <2>4. QED BY <2>3 DEF Ledger!Next
<1>7. CASE StartBatch \/ ReportBatch \/ PlanCycle \/ ReviewCycle
  BY <1>7 DEF StartBatch, ReportBatch, PlanCycle, ReviewCycle, history, Ledger!vars
<1>8. CASE ControlStep
  BY <1>8 DEF ControlStep, StartDaemon, StartResume, StartOnce, RequestStop,
     RequestEscalation, Crash, EscalationThrows, ResumeThrows, WaitForWorkersToFinish,
     Loop, LoopStop,
     LoopEscalation, LoopResume, LoopFresh, LoopPostCompletion,
     AdmissionBlocked, ResumeRefused, StopDispatch, RetryTransient,
     disk, history, Ledger!vars
<1>9. CASE UNCHANGED vars
  BY <1>9 DEF vars, disk, history, Ledger!vars
<1>10. QED
  BY <1>1, <1>2, <1>3, <1>4, <1>5, <1>6, <1>7, <1>8, <1>9
     DEF Next, ProcessStep, Cycle, Resume, Dispatch, ControlStep

\* The dispatch checkpoint, with its crashes, stops, retries and resumes, implements
\* the plan ledger.
THEOREM ImplementsLedger == Spec => LedgerImplemented
<1>1. Init => Ledger!Init
  BY LedgerInit
<1>2. IInv /\ [Next]_vars => [Ledger!Next]_Ledger!vars
  BY LedgerStep
<1>3. QED BY <1>1, <1>2, IInvHolds, PTL DEF Spec, LedgerImplemented, Ledger!Spec
-----------------------------------------------------------------------------
\* Where a batch count falls among the segments.
LEMMA DivSpan ==
  ASSUME NEW n \in Nat
  PROVE  /\ n \div SpanBatches \in Nat
         /\ (n \div SpanBatches) * SpanBatches <= n
         /\ n < (n \div SpanBatches) * SpanBatches + SpanBatches
OBVIOUS

\* The rollover moves to the segment of the batch to run next, if the segment was that of
\* the batch just done.
LEMMA NextSegmentCovers ==
  ASSUME NEW s \in Nat, NEW n \in Nat, NEW total \in Nat, n + 1 < total,
         (s - 1) * SpanBatches <= n, n < s * SpanBatches
  PROVE  LET t == NextSegment(s, n + 1, total)
         IN  (t - 1) * SpanBatches <= n + 1 /\ n + 1 < t * SpanBatches
<1> DEFINE q == (n + 1) \div SpanBatches
           last == (total + SpanBatches - 1) \div SpanBatches
<1>1. /\ q \in Nat /\ q * SpanBatches <= n + 1
      /\ n + 1 < q * SpanBatches + SpanBatches
  BY DivSpan
<1>2. last \in Nat /\ total + SpanBatches - 1 < last * SpanBatches + SpanBatches
  BY DivSpan
<1>3. NextSegment(s, n + 1, total) =
        LET reached == Capped(q + 1, last) IN IF reached <= s THEN s ELSE reached
  BY DEF NextSegment
<1> HIDE DEF q, last
<1>4. q < last
  <2>1. q * SpanBatches < last * SpanBatches
    BY <1>1, <1>2
  <2>2. QED BY <1>1, <1>2, <2>1
<1>5. s <= q + 1
  <2>1. (s - 1) * SpanBatches < (q + 1) * SpanBatches
    BY <1>1
  <2>2. s - 1 < q + 1
    BY <1>1, <2>1
  <2>3. QED BY <1>1, <2>2
<1>6. Capped(q + 1, last) = q + 1
  BY <1>1, <1>2, <1>4 DEF Capped
<1>7. NextSegment(s, n + 1, total) = q + 1
  BY <1>1, <1>3, <1>5, <1>6
<1>8. QED BY <1>1, <1>7

\* The next batch lies in the segment exactly when the segment's bounds surround the count.
LEMMA CoversBounds ==
  ASSUME TypeOK, Resumable(ckpt)
  PROVE  SegmentCoversNext <=> /\ (ckpt.segment - 1) * SpanBatches <= ckpt.completed
                               /\ ckpt.completed < ckpt.segment * SpanBatches
<1>1. /\ ckpt.completed \in Nat /\ ckpt.total \in Nat /\ ckpt.segment \in Nat
      /\ ckpt.completed < ckpt.total
  BY DEF TypeOK, Checkpoints, NoCkpt, Resumable
<1> DEFINE a == ckpt.segment * SpanBatches
           b == (ckpt.segment - 1) * SpanBatches
<1>2. a \in Int /\ b \in Int
  BY <1>1
<1>3. SegmentCoversNext <=> b + 1 <= ckpt.completed + 1 /\ ckpt.completed + 1 <= Capped(ckpt.total, a)
  BY DEF SegmentCoversNext, SegmentFirst, SegmentLast
<1> HIDE DEF a, b
<1>4. ckpt.completed + 1 <= Capped(ckpt.total, a) <=> ckpt.completed < a
  BY <1>1, <1>2 DEF Capped
<1>5. QED BY <1>1, <1>2, <1>3, <1>4 DEF a, b

\* The daemon waits before its first iteration, outside every try block.
Outside == pc \in {"down", "wait"} => inside = "none"

LEMMA NextOutside == Outside /\ [Next]_vars => Outside'
<1> SUFFICES ASSUME Outside, [Next]_vars PROVE Outside'
  OBVIOUS
<1> USE DEF Outside, disk, process, At, Goto, Enter, Exit, Return
<1>1. CASE StartDaemon \/ StartResume \/ StartOnce \/ RequestStop \/ RequestEscalation \/ Crash
  BY <1>1 DEF StartDaemon, StartResume, StartOnce, RequestStop, RequestEscalation, Crash
<1>2. CASE EscalationThrows \/ ResumeThrows \/ WaitForWorkersToFinish \/ Loop
  BY <1>2 DEF EscalationThrows, ResumeThrows, WaitForWorkersToFinish, Loop, LoopStop,
     LoopEscalation, LoopResume, LoopFresh, LoopPostCompletion
<1>3. CASE Cycle \/ Resume
  BY <1>3 DEF Cycle, PlanCycle, ReviewCycle, AdmissionBlocked, SkipDispatch,
     CompleteSkipped, BeginDispatch, Resume, ResumeRefused, ResumeDispatch
<1>4. CASE Dispatch
  BY <1>4 DEF Dispatch, StopDispatch, StartBatch, CompleteDispatch, RetryTransient,
     WorkerReturns, ReportBatch, RecordProgress, FailClose
<1>5. CASE UNCHANGED vars
  BY <1>5 DEF vars
<1>6. QED BY <1>1, <1>2, <1>3, <1>4, <1>5 DEF Next, ProcessStep

\* A session of an earlier process is left working only until the daemon has waited for it.
LEMMA NextNoOrphan == TypeOK /\ Outside /\ NoOrphanSession /\ [Next]_vars => NoOrphanSession'
<1> SUFFICES ASSUME TypeOK, Outside, NoOrphanSession, [Next]_vars PROVE NoOrphanSession'
  OBVIOUS
<1>0. /\ Recovered \in {Idle, session} /\ Idle.status = "idle"
      /\ session.status \in {"idle", "working"}
  BY DEF Recovered, Idle, TypeOK
<1> USE DEF NoOrphanSession, disk, process, history, bounds, At, Goto, Enter, Exit, Return
<1>1. CASE StartDaemon \/ StartResume \/ StartOnce \/ RequestStop \/ RequestEscalation \/ Crash
  BY <1>1 DEF StartDaemon, StartResume, StartOnce, RequestStop, RequestEscalation, Crash
<1>11. CASE EscalationThrows \/ ResumeThrows
  BY <1>11, <1>0 DEF EscalationThrows, ResumeThrows, Thrown, Outside, TypeOK
<1>2. CASE WaitForWorkersToFinish
  <2>1. ~ActiveWorkers => Recovered.status = "idle"
    BY <1>0 DEF ActiveWorkers
  <2>2. QED BY <1>2, <2>1 DEF WaitForWorkersToFinish
<1>3. CASE Loop
  BY <1>3 DEF Loop, LoopStop, LoopEscalation, LoopResume, LoopFresh, LoopPostCompletion
<1>4. CASE Cycle
  BY <1>4 DEF Cycle, PlanCycle, ReviewCycle, AdmissionBlocked, SkipDispatch,
     CompleteSkipped, BeginDispatch
<1>5. CASE Resume
  BY <1>5, <1>0 DEF Resume, ResumeRefused, ResumeDispatch
<1>6. CASE StopDispatch \/ StartBatch \/ CompleteDispatch \/ RetryTransient
  BY <1>6 DEF StopDispatch, StartBatch, CompleteDispatch, RetryTransient
<1>7. CASE \E r \in {"ok", "fail", "deny"} : WorkerReturns(r)
  BY <1>7 DEF WorkerReturns
<1>8. CASE ReportBatch \/ RecordProgress \/ FailClose
  BY <1>8, <1>0 DEF ReportBatch, RecordProgress, FailClose
<1>9. CASE UNCHANGED vars
  BY <1>9 DEF vars
<1>10. QED
  BY <1>1, <1>11, <1>2, <1>3, <1>4, <1>5, <1>6, <1>7, <1>8, <1>9
     DEF Next, ProcessStep, Dispatch

\* An interrupted session never blocks the daemon's own resume once it is up.
THEOREM SessionsRecovered == Spec => []NoOrphanSession
<1>1. Init => Outside /\ NoOrphanSession
  BY DEF Init, Outside, NoOrphanSession
<1>2. TypeOK /\ Outside /\ NoOrphanSession /\ [Next]_vars => Outside' /\ NoOrphanSession'
  BY NextOutside, NextNoOrphan
<1>3. QED BY <1>1, <1>2, TypeCorrect, PTL DEF Spec

LEMMA SegmentStep == IInv /\ IInv' /\ SegmentCoversNext /\ [Next]_vars => SegmentCoversNext'
<1> SUFFICES ASSUME IInv, IInv', SegmentCoversNext, [Next]_vars, Resumable(ckpt)'
             PROVE  SegmentCoversNext'
  BY DEF SegmentCoversNext
<1> DEFINE Covers(c) == /\ (c.segment - 1) * SpanBatches <= c.completed
                        /\ c.completed < c.segment * SpanBatches
<1>0. Covers(ckpt)' => SegmentCoversNext'
  <2>1. TypeOK' /\ Resumable(ckpt)'
    BY DEF IInv
  <2>2. (SegmentCoversNext <=> /\ (ckpt.segment - 1) * SpanBatches <= ckpt.completed
                               /\ ckpt.completed < ckpt.segment * SpanBatches)'
    BY <2>1, CoversBounds, PTL
  <2>3. QED BY <2>2
<1>1. CASE ckpt' = ckpt
  BY <1>1 DEF SegmentCoversNext, Resumable
<1>2. ASSUME NEW p \in Plans, NEW signed, ckpt' = NewCheckpoint(p, signed)
      PROVE  SegmentCoversNext'
  <2>1. ckpt'.segment = 1 /\ ckpt'.completed = 0
    BY <1>2 DEF NewCheckpoint
  <2>2. QED BY <1>0, <2>1
<1>3. CASE CompleteSkipped \/ CompleteDispatch \/ FailClose
  <2>1. ckpt' = Completed(ckpt) \/ ckpt' = Failed(ckpt)
    BY <1>3 DEF CompleteSkipped, CompleteDispatch, FailClose
  <2>2. ckpt # NoCkpt
    BY <1>3 DEF CompleteSkipped, CompleteDispatch, FailClose, At, IInv, LoopPosition, Dispatching
  <2>3. ckpt'.status # "dispatching"
    BY <2>1, <2>2, ClosedType DEF IInv
  <2>4. QED BY <2>3 DEF Resumable
<1>4. CASE RecordProgress
  <2> DEFINE n == ckpt.completed
  <2>1. /\ ckpt' = Advanced(ckpt, idx) /\ ckpt # NoCkpt
        /\ idx = n + 1 /\ idx <= ckpt.total /\ ckpt.status = "dispatching"
    BY <1>4 DEF RecordProgress, At, IInv, LoopPosition, Dispatching
  <2>2. n \in Nat /\ ckpt.total \in Nat /\ ckpt.segment \in Nat
    BY DEF IInv, TypeOK, Checkpoints, NoCkpt
  <2>3. Advanced(ckpt, idx).completed = n + 1 /\ Advanced(ckpt, idx).total = ckpt.total
    BY <2>1, <2>2, AdvancedType DEF IInv
  <2>4. n + 1 < ckpt.total
    BY <2>1, <2>3 DEF Resumable
  <2>5. Resumable(ckpt)
    BY <2>1, <2>2, <2>4 DEF Resumable
  <2>6. (ckpt.segment - 1) * SpanBatches <= n /\ n < ckpt.segment * SpanBatches
    BY <2>5, CoversBounds DEF IInv
  <2>7. Advanced(ckpt, idx).segment = NextSegment(ckpt.segment, n + 1, ckpt.total)
    <3>1. Capped(idx, ckpt.total) = n + 1
      BY <2>1, <2>2 DEF Capped
    <3>2. ckpt \in Checkpoints \ {NoCkpt}
      BY <2>1 DEF IInv, TypeOK
    <3>3. QED BY <3>1, <3>2 DEF Advanced, Checkpoints, NoCkpt
  <2>8. Covers(ckpt)'
    BY <2>1, <2>2, <2>3, <2>4, <2>6, <2>7, NextSegmentCovers
  <2>9. QED BY <1>0, <2>8
<1>5. CASE SkipDispatch \/ BeginDispatch
  <2>1. latest \in Plans
    BY <1>5 DEF SkipDispatch, BeginDispatch, At, IInv, RecordKept, TypeOK, Plans
  <2>2. QED BY <1>2, <1>5, <2>1 DEF SkipDispatch, BeginDispatch
<1>6. CASE ResumeDispatch
  <2>1. ResumePlan \in Plans
    BY <1>6, ResumePlanType DEF ResumeDispatch, IInv
  <2>2. QED BY <1>1, <1>2, <1>6, <2>1 DEF ResumeDispatch
<1>7. CASE PlanCycle \/ ReviewCycle \/ StartBatch \/ ReportBatch
           \/ \E r \in {"ok", "fail", "deny"} : WorkerReturns(r)
  BY <1>1, <1>7 DEF PlanCycle, ReviewCycle, StartBatch, ReportBatch, WorkerReturns, disk
<1>8. CASE ControlStep
  BY <1>1, <1>8 DEF ControlStep, StartDaemon, StartResume, StartOnce, RequestStop,
     RequestEscalation, Crash, EscalationThrows, ResumeThrows, WaitForWorkersToFinish, Loop, LoopStop, LoopEscalation,
     LoopResume, LoopFresh, LoopPostCompletion, AdmissionBlocked, ResumeRefused,
     StopDispatch, RetryTransient, disk
<1>9. CASE UNCHANGED vars
  BY <1>1, <1>9 DEF vars, disk
<1>10. QED
  BY <1>3, <1>4, <1>5, <1>6, <1>7, <1>8, <1>9
     DEF Next, ProcessStep, Cycle, Resume, Dispatch, ControlStep

\* For every span and every number of batches, the batch to run next lies in the active run
\* segment.
THEOREM SegmentsCover == Spec => []SegmentCoversNext
<1>1. Init => SegmentCoversNext
  BY DEF Init, SegmentCoversNext, Resumable, NoCkpt
<1>2. IInv /\ IInv' /\ SegmentCoversNext /\ [Next]_vars => SegmentCoversNext'
  BY SegmentStep
<1>3. QED BY <1>1, <1>2, IInvHolds, PTL DEF Spec

\* No step of a cycle before its dispatch touches the checkpoint, and the loop starts a
\* cycle over an interrupted one only where ResumeFirst allows it.
LEMMA ResumeFirstStep == IInv /\ ResumeFirst /\ [Next]_vars => ResumeFirst'
<1> SUFFICES ASSUME IInv, ResumeFirst, [Next]_vars PROVE ResumeFirst'
  OBVIOUS
<1> USE DEF ResumeFirst, disk, process, history, bounds, At, Goto, Enter, Exit, Return
<1>1. CASE StartDaemon \/ StartResume \/ StartOnce \/ Crash
  BY <1>1 DEF StartDaemon, StartResume, StartOnce, Crash
<1>2. CASE RequestStop \/ RequestEscalation \/ RetryTransient \/ UNCHANGED vars
  BY <1>2 DEF RequestStop, RequestEscalation, RetryTransient, vars
<1>3. CASE EscalationThrows \/ ResumeThrows
  BY <1>3 DEF EscalationThrows, ResumeThrows
<1>4. CASE WaitForWorkersToFinish
  BY <1>4 DEF WaitForWorkersToFinish
<1>5. CASE LoopStop \/ LoopEscalation \/ LoopResume
  BY <1>5 DEF LoopStop, LoopEscalation, LoopResume
<1>6. CASE LoopFresh \/ LoopPostCompletion
  <2>1. ckpt' = ckpt
    BY <1>6 DEF LoopFresh, LoopPostCompletion
  <2>2. latest = 0 => ckpt.status = "none"
    <3>1. latest = 0 => ckpt.plan = 0
      BY CkptType DEF IInv, RecordKept, Plans, TypeOK
    <3>2. QED BY <3>1, CkptType DEF IInv, NoCkpt
  <2>3. ~Resumable(ckpt)
    BY <1>6, <2>2 DEF LoopFresh, LoopPostCompletion, Pending, Resumable
  <2>4. QED BY <2>1, <2>3 DEF Resumable
<1>7. CASE PlanCycle \/ ReviewCycle \/ AdmissionBlocked
  BY <1>7 DEF PlanCycle, ReviewCycle, AdmissionBlocked, Resumable
<1>8. CASE SkipDispatch \/ CompleteSkipped \/ BeginDispatch
  BY <1>8 DEF SkipDispatch, CompleteSkipped, BeginDispatch
<1>9. CASE Resume
  BY <1>9 DEF Resume, ResumeRefused, ResumeDispatch
<1>10. CASE StopDispatch \/ StartBatch \/ CompleteDispatch
  BY <1>10 DEF StopDispatch, StartBatch, CompleteDispatch
<1>11. CASE \E r \in {"ok", "fail", "deny"} : WorkerReturns(r)
  BY <1>11 DEF WorkerReturns
<1>12. CASE ReportBatch \/ RecordProgress \/ FailClose
  BY <1>12 DEF ReportBatch, RecordProgress, FailClose
<1>13. QED
  BY <1>1, <1>2, <1>3, <1>4, <1>5, <1>6, <1>7, <1>8, <1>9, <1>10, <1>11, <1>12
     DEF Next, ProcessStep, Loop, Cycle, Dispatch

\* The daemon comes to replace an interrupted checkpoint by a new plan set's only in a
\* cycle that an escalation asked for or that follows an exception in the resume.
THEOREM ResumesFirst == Spec => []ResumeFirst
<1>1. Init => ResumeFirst
  BY DEF Init, ResumeFirst
<1>2. IInv /\ ResumeFirst /\ [Next]_vars => ResumeFirst'
  BY ResumeFirstStep
<1>3. QED BY <1>1, <1>2, IInvHolds, PTL DEF Spec
=============================================================================
