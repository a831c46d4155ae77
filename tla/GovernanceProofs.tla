-------------------------- MODULE GovernanceProofs --------------------------
(***************************************************************************)
(* Proofs about Governance for every set of follow-ups, every window and   *)
(* limit, and any number of cycles, faults and edits.                      *)
(*                                                                         *)
(* The argument: a dispatch that runs has passed the gate, so the files    *)
(* that shut it say nothing while it runs (GateWasOpen).  The band then    *)
(* has no sample on file, and the alarm of a cascade is not raised before  *)
(* the guardrails of that very cycle: the step that would lift it finds    *)
(* the cascade it was raised for (AlarmKept).  No step that could open the *)
(* gate again is ever reached while it is shut.                            *)
(***************************************************************************)
EXTENDS Governance, FiniteSetTheorems, TLAPS

\* A fresh cycle has passed SKIP_CYCLE; a resumed one has its checkpoint.
Placed ==
  /\ pc \in {"plan", "gate"} => ~open /\ ~SkipShut
  /\ At("regate") => open

GateWasOpen ==
  /\ pc \in Working \cup {"slo", "band", "detect"} => ~ForceShut
  /\ pc \in Working \cup {"slo", "band"} => ~BandShut

BandInv == BandNeverReached /\ (~band.written => band.samples = 0)

CascadeOrder == [file |-> "force", scenario |-> Cascade]

AlarmKept ==
  /\ (~At("enforce") /\ streak >= BreachLimit /\ enforced = "yes") => ForceShut
  /\ At("enforce") =>
       /\ enforced # "yes" /\ todo \subseteq Orders(found)
       /\ streak >= BreachLimit => Cascade \in found
       /\ (enforced = "no" /\ config.guardian /\ Cascade \in found)
            => ForceShut \/ CascadeOrder \in todo
       /\ ForceShut => todo = {} /\ Cascade \in found
  /\ (At("revert") /\ ForceShut) => Cascade \in found

DebtInv ==
  /\ \A e \in ledger : ~e.closed /\ e.severity = "warning"
  /\ \A r \in resolved : ~r.replay
  /\ OneDebtPerFollowUp

IInv == TypeOK /\ Placed /\ GateWasOpen /\ BandInv /\ AlarmKept /\ DebtInv

USE LimitsAssumption, BandAssumption, BoundsAssumption, FollowUpsAssumption

\* The order of the guardrails: the cascade's comes last.
LEMMA CascadeLast ==
  ASSUME todo \subseteq Orders(found), NEW o \in Due, o.file = "force", o.scenario = Cascade
  PROVE  todo = {o}
<1>1. \A q \in todo : q \in Order /\ (q.file = "skip" => q.scenario = Stale)
  BY DEF Orders
<1>2. \A q \in todo : q.scenario = Cascade /\ q.file = "force"
  BY <1>1 DEF Due, Turn, Order, Scenarios, Stale, Cascade
<1> QED
  BY <1>1, <1>2 DEF Due, Order

\* The window of the log.
LEMMA LoggedType ==
  ASSUME TypeOK, NEW b \in BOOLEAN, Logged(b)
  PROVE  log' \in Seq(BOOLEAN) /\ Len(log') <= YieldWindow
<1> DEFINE all == Append(log, b)
<1>1. all \in Seq(BOOLEAN) /\ Len(all) = Len(log) + 1 /\ Len(log) \in Nat
  BY DEF TypeOK
<1>2. CASE Len(all) <= YieldWindow
  BY <1>1, <1>2 DEF Logged
<1>3. CASE ~(Len(all) <= YieldWindow)
  <2>1. all # <<>>
    BY <1>1
  <2>2. Tail(all) \in Seq(BOOLEAN) /\ Len(Tail(all)) = Len(all) - 1
    BY <1>1, <2>1
  <2> QED
    BY <1>1, <1>3, <2>2 DEF Logged, TypeOK
<1> QED
  BY <1>2, <1>3

\* What the ledger's operators make of a ledger is a ledger.
LEMMA LedgerType ==
  ASSUME TypeOK
  PROVE  AutoCloseVerifiedDebt(AddDebtEntries(ledger)) \subseteq Debt
<1>1. \A f \in FollowUps : NewDebt(f) \in Debt
  BY DEF NewDebt, Severity, Debt, TypeOK
<1>2. NewlyOwed(ledger) \subseteq FollowUps
  BY DEF NewlyOwed, TypeOK
<1>3. AddDebtEntries(ledger) \subseteq Debt
  BY <1>1, <1>2 DEF AddDebtEntries, TypeOK
<1>4. \A e \in Debt : [e EXCEPT !.closed = TRUE] \in Debt
  BY DEF Debt
<1> QED
  BY <1>3, <1>4 DEF AutoCloseVerifiedDebt

\* The types are kept.
LEMMA TypeStep ==
  ASSUME TypeOK, [Next]_vars PROVE TypeOK'
<1>1. CASE UNCHANGED vars
  BY <1>1 DEF vars, TypeOK, Between, Working, After, guardrails, slos, debts, local, bounds
<1>2. CASE EditConfig
  BY <1>2 DEF EditConfig, At, guardrails, slos, debts, local, TypeOK, Between, Working,
     After
<1>3. CASE RecomputeBand
  <2>1. band' \in [written : BOOLEAN, samples : Nat, ready : BOOLEAN]
    BY <1>3 DEF RecomputeBand, TypeOK
  <2> QED
    BY <1>3, <2>1 DEF RecomputeBand, At, guardrails, slos, debts, local, TypeOK, Between,
       Working, After
<1>4. CASE StepFails
  BY <1>4 DEF StepFails, Forget, At, Fault, NextStep, guardrails, slos, debts, local,
     TypeOK, Between, Working, After
<1>5. CASE GuardrailFails
  BY <1>5 DEF GuardrailFails, At, Fault, Due, guardrails, slos, debts, TypeOK, Between,
     Working, After
<1>6. CASE Crash
  BY <1>6 DEF Crash, Forget, At, Fault, guardrails, slos, debts, TypeOK, Between, Working,
     After
<1>7. CASE Cycle
  <2>1. CASE StartCycle
    BY <2>1 DEF StartCycle, At, SkipShut, guardrails, slos, debts, local, bounds, TypeOK,
       Between, Working, After
  <2>2. CASE SkipCycle
    BY <2>2 DEF SkipCycle, vars, guardrails, slos, debts, local, bounds, TypeOK, Between,
       Working, After
  <2>3. CASE PlanFails
    BY <2>3 DEF PlanFails, At, guardrails, slos, debts, local, bounds, TypeOK, Between,
       Working, After
  <2>4. CASE PlanReady
    BY <2>4 DEF PlanReady, At, guardrails, slos, debts, local, bounds, TypeOK, Between,
       Working, After
  <2>5. CASE ResumeReady
    BY <2>5 DEF ResumeReady, At, guardrails, slos, debts, local, bounds, TypeOK, Between,
       Working, After
  <2>6. CASE Refused
    BY <2>6 DEF Refused, At, guardrails, slos, debts, local, bounds, TypeOK, Between,
       Working, After
  <2>7. CASE Admitted
    BY <2>7 DEF Admitted, At, guardrails, slos, debts, TypeOK, Between, Working, After
  <2>8. CASE Readmitted
    BY <2>8 DEF Readmitted, At, guardrails, slos, debts, bounds, TypeOK, Between, Working,
       After
  <2> QED
    BY <1>7, <2>1, <2>2, <2>3, <2>4, <2>5, <2>6, <2>7, <2>8 DEF Cycle
<1>8. CASE Dispatch
  <2>1. CASE WorkerSucceeds
    <3>1. Logged(TRUE) /\ Reported
      BY <2>1 DEF WorkerSucceeds
    <3>4. resolved' \subseteq Evidence
      <4>1. CASE resolved' = resolved
        BY <4>1 DEF TypeOK
      <4>2. CASE \E f \in FollowUps, passed, replay \in BOOLEAN :
                   resolved' = resolved \cup {Envelope(f, passed, replay)}
        <5>1. \A f \in FollowUps, passed, replay \in BOOLEAN : Envelope(f, passed, replay)
           \in Evidence
          BY DEF Envelope, Evidence
        <5> QED
          BY <4>2, <5>1 DEF TypeOK
      <4> QED
        BY <2>1, <4>1, <4>2 DEF WorkerSucceeds
    <3>2. log' \in Seq(BOOLEAN) /\ Len(log') <= YieldWindow
      BY <3>1, LoggedType
    <3>3. reports' \subseteq FollowUps
      BY <3>1 DEF Reported, TypeOK
    <3> QED
      BY <2>1, <3>2, <3>3, <3>4 DEF WorkerSucceeds, guardrails, slos, bounds, TypeOK
  <2>2. CASE WorkerFails
    <3>1. Logged(FALSE) /\ Reported
      BY <2>2 DEF WorkerFails
    <3>2. log' \in Seq(BOOLEAN) /\ Len(log') <= YieldWindow
      BY <3>1, LoggedType
    <3>3. reports' \subseteq FollowUps
      BY <3>1 DEF Reported, TypeOK
    <3>4. open' \in BOOLEAN /\ pc' \in Between \cup Working \cup After
      BY <2>2 DEF WorkerFails, TypeOK, Between
    <3> QED
      BY <2>2, <3>2, <3>3, <3>4 DEF WorkerFails, guardrails, slos, local, bounds, TypeOK
  <2>3. CASE DispatchCompletes
    BY <2>3 DEF DispatchCompletes, At, Working, guardrails, slos, debts, local, bounds,
       TypeOK, Between, After
  <2> QED
    BY <1>8, <2>1, <2>2, <2>3 DEF Dispatch
<1>9. CASE CloseCycle
  <2>1. CASE PersistSlo
    BY <2>1 DEF PersistSlo, At, guardrails, debts, local, bounds, TypeOK, Between, Working,
       After
  <2>2. CASE EvaluateBand
    <3>1. band' \in [written : BOOLEAN, samples : Nat, ready : BOOLEAN]
      <4>1. band.samples + 1 \in Nat
        BY DEF TypeOK
      <4>2. CASE config.band
        <5>1. PICK ready \in BOOLEAN :
                band' = [written |-> TRUE, samples |-> band.samples + 1, ready |-> ready]
          BY <2>2, <4>2 DEF EvaluateBand
        <5> QED
          BY <4>1, <5>1
      <4>3. CASE ~config.band
        BY <2>2, <4>3 DEF EvaluateBand, TypeOK
      <4> QED
        BY <4>2, <4>3
    <3> QED
      BY <2>2, <3>1 DEF EvaluateBand, guardrails, slos, debts, local, bounds, TypeOK,
         Between, Working, After
  <2>3. CASE Detect
    <3>1. streak' \in Nat
      BY <2>3 DEF Detect, TypeOK
    <3>2. found' \subseteq Scenarios
      BY <2>3 DEF Detect, Scenarios
    <3>3. todo' \subseteq Order
      BY <2>3 DEF Detect, Orders
    <3> QED
      BY <2>3, <3>1, <3>2, <3>3 DEF Detect, guardrails, debts, bounds, TypeOK, After
  <2>4. CASE ApplyGuardrail
    <3>1. PICK o \in Due : /\ IF o.file = "force" THEN force' = o.scenario /\ UNCHANGED skip
                                                  ELSE skip' = o.scenario /\ UNCHANGED force
                           /\ todo' = todo \ {o}
      BY <2>4 DEF ApplyGuardrail
    <3>2. o \in Order
      BY <3>1 DEF Due, TypeOK
    <3>3. force' \in Guardrail /\ skip' \in Guardrail /\ todo' \subseteq Order
      BY <3>1, <3>2 DEF Order, Guardrail, TypeOK
    <3> QED
      BY <2>4, <3>3 DEF ApplyGuardrail, slos, debts, bounds, TypeOK
  <2>5. CASE EndEnforcement
    BY <2>5 DEF EndEnforcement, At, guardrails, slos, debts, local, bounds, TypeOK, Between,
       Working, After
  <2>6. CASE AutoRevert
    <3>1. force' \in Guardrail
      BY <2>6 DEF AutoRevert, Guardrail, TypeOK
    <3> QED
      BY <2>6, <3>1 DEF AutoRevert, slos, debts, local, bounds, TypeOK, After
  <2>7. CASE RegisterDebt
    <3>1. ledger' \subseteq Debt /\ counter' \in Nat
      BY <2>7, LedgerType DEF RegisterDebt, TypeOK
    <3> QED
      BY <2>7, <3>1 DEF RegisterDebt, Forget, guardrails, slos, bounds, TypeOK, Between
  <2> QED
    BY <1>9, <2>1, <2>2, <2>3, <2>4, <2>5, <2>6, <2>7 DEF CloseCycle
<1> QED
  BY <1>1, <1>2, <1>3, <1>4, <1>5, <1>6, <1>7, <1>8, <1>9 DEF Next

\* The configuration and the files SKIP_CYCLE is read from rest until the dispatch.
LEMMA PlacedStep ==
  ASSUME TypeOK, Placed, [Next]_vars PROVE Placed'
<1>1. CASE UNCHANGED vars
  BY <1>1 DEF vars, Placed, SkipShut, At, guardrails, slos, debts, local, bounds
<1>2. CASE EditConfig
  BY <1>2 DEF EditConfig, At, guardrails, slos, debts, local, Placed, SkipShut
<1>3. CASE RecomputeBand
  BY <1>3 DEF RecomputeBand, At, guardrails, slos, debts, local, Placed, SkipShut
<1>4. CASE StepFails
  BY <1>4 DEF StepFails, Forget, At, Fault, NextStep, guardrails, slos, debts, local,
     Placed, SkipShut
<1>5. CASE GuardrailFails
  BY <1>5 DEF GuardrailFails, At, Fault, Due, guardrails, slos, debts, Placed, SkipShut
<1>6. CASE Crash
  BY <1>6 DEF Crash, Forget, At, Fault, guardrails, slos, debts, Placed, SkipShut
<1>7. CASE Cycle
  <2>1. CASE StartCycle
    BY <2>1 DEF StartCycle, At, SkipShut, guardrails, slos, debts, local, bounds, Placed
  <2>2. CASE SkipCycle
    BY <2>2 DEF SkipCycle, vars, guardrails, slos, debts, local, bounds, Placed, SkipShut,
       At
  <2>3. CASE PlanFails
    BY <2>3 DEF PlanFails, At, guardrails, slos, debts, local, bounds, Placed, SkipShut
  <2>4. CASE PlanReady
    BY <2>4 DEF PlanReady, At, guardrails, slos, debts, local, bounds, Placed, SkipShut
  <2>5. CASE ResumeReady
    BY <2>5 DEF ResumeReady, At, guardrails, slos, debts, local, bounds, Placed, SkipShut
  <2>6. CASE Refused
    BY <2>6 DEF Refused, At, guardrails, slos, debts, local, bounds, Placed, SkipShut
  <2>7. CASE Admitted
    BY <2>7 DEF Admitted, At, guardrails, slos, debts, Placed, SkipShut
  <2>8. CASE Readmitted
    BY <2>8 DEF Readmitted, At, guardrails, slos, debts, bounds, Placed, SkipShut
  <2> QED
    BY <1>7, <2>1, <2>2, <2>3, <2>4, <2>5, <2>6, <2>7, <2>8 DEF Cycle
<1>8. CASE Dispatch
  <2>1. CASE WorkerSucceeds
    BY <2>1 DEF WorkerSucceeds, Reported, Logged, Envelope, Working, guardrails, slos,
       bounds, Placed, SkipShut, At
  <2>2. CASE WorkerFails
    BY <2>2 DEF WorkerFails, Reported, Logged, Working, guardrails, slos, local, bounds,
       Placed, SkipShut, At
  <2>3. CASE DispatchCompletes
    BY <2>3 DEF DispatchCompletes, At, Working, guardrails, slos, debts, local, bounds,
       Placed, SkipShut
  <2> QED
    BY <1>8, <2>1, <2>2, <2>3 DEF Dispatch
<1>9. CASE CloseCycle
  <2>1. CASE PersistSlo
    BY <2>1 DEF PersistSlo, At, guardrails, debts, local, bounds, Placed, SkipShut
  <2>2. CASE EvaluateBand
    BY <2>2 DEF EvaluateBand, At, guardrails, slos, debts, local, bounds, Placed, SkipShut
  <2>3. CASE Detect
    BY <2>3 DEF Detect, At, Orders, guardrails, debts, bounds, Placed, SkipShut
  <2>4. CASE ApplyGuardrail
    BY <2>4 DEF ApplyGuardrail, At, Due, slos, debts, bounds, Placed, SkipShut
  <2>5. CASE EndEnforcement
    BY <2>5 DEF EndEnforcement, At, guardrails, slos, debts, local, bounds, Placed, SkipShut
  <2>6. CASE AutoRevert
    BY <2>6 DEF AutoRevert, At, slos, debts, local, bounds, Placed, SkipShut
  <2>7. CASE RegisterDebt
    BY <2>7 DEF RegisterDebt, Forget, At, guardrails, slos, bounds, Placed, SkipShut
  <2> QED
    BY <1>9, <2>1, <2>2, <2>3, <2>4, <2>5, <2>6, <2>7 DEF CloseCycle
<1> QED
  BY <1>1, <1>2, <1>3, <1>4, <1>5, <1>6, <1>7, <1>8, <1>9 DEF Next

\* Nothing shuts the gate before the close of the cycle that has passed it.
LEMMA GateStep ==
  ASSUME TypeOK, GateWasOpen, BandInv, [Next]_vars PROVE GateWasOpen'
<1>1. CASE UNCHANGED vars
  BY <1>1 DEF vars, GateWasOpen, Working, ForceShut, BandShut, At, guardrails, slos, debts,
     local, bounds
<1>2. CASE EditConfig
  BY <1>2 DEF EditConfig, At, guardrails, slos, debts, local, GateWasOpen, Working,
     ForceShut, BandShut
<1>3. CASE RecomputeBand
  BY <1>3 DEF RecomputeBand, At, guardrails, slos, debts, local, GateWasOpen, Working,
     ForceShut, BandShut
<1>4. CASE StepFails
  BY <1>4 DEF StepFails, Forget, At, Fault, NextStep, guardrails, slos, debts, local,
     GateWasOpen, Working, ForceShut, BandShut
<1>5. CASE GuardrailFails
  BY <1>5 DEF GuardrailFails, At, Fault, Due, guardrails, slos, debts, GateWasOpen, Working,
     ForceShut, BandShut
<1>6. CASE Crash
  BY <1>6 DEF Crash, Forget, At, Fault, guardrails, slos, debts, GateWasOpen, Working,
     ForceShut, BandShut
<1>7. CASE Cycle
  <2>1. CASE StartCycle
    BY <2>1 DEF StartCycle, At, SkipShut, guardrails, slos, debts, local, bounds,
       GateWasOpen, Working, ForceShut, BandShut
  <2>2. CASE SkipCycle
    BY <2>2 DEF SkipCycle, vars, guardrails, slos, debts, local, bounds, GateWasOpen,
       Working, ForceShut, BandShut, At
  <2>3. CASE PlanFails
    BY <2>3 DEF PlanFails, At, guardrails, slos, debts, local, bounds, GateWasOpen, Working,
       ForceShut, BandShut
  <2>4. CASE PlanReady
    BY <2>4 DEF PlanReady, At, guardrails, slos, debts, local, bounds, GateWasOpen, Working,
       ForceShut, BandShut
  <2>5. CASE ResumeReady
    BY <2>5 DEF ResumeReady, At, guardrails, slos, debts, local, bounds, GateWasOpen,
       Working, ForceShut, BandShut
  <2>6. CASE Refused
    BY <2>6 DEF Refused, At, guardrails, slos, debts, local, bounds, GateWasOpen, Working,
       ForceShut, BandShut
  <2>7. CASE Admitted
    <3>1. ~ForceShut /\ ~BandShut
      BY <2>7 DEF Admitted, GateShut
    <3> QED
      BY <2>7, <3>1 DEF Admitted, guardrails, GateWasOpen, ForceShut, BandShut
  <2>8. CASE Readmitted
    <3>1. ~ForceShut /\ ~BandShut
      BY <2>8 DEF Readmitted, GateShut
    <3> QED
      BY <2>8, <3>1 DEF Readmitted, guardrails, GateWasOpen, ForceShut, BandShut
  <2> QED
    BY <1>7, <2>1, <2>2, <2>3, <2>4, <2>5, <2>6, <2>7, <2>8 DEF Cycle
<1>8. CASE Dispatch
  <2>1. CASE WorkerSucceeds
    BY <2>1 DEF WorkerSucceeds, Reported, Logged, Envelope, Working, guardrails, slos,
       bounds, GateWasOpen, ForceShut, BandShut, At
  <2>2. CASE WorkerFails
    BY <2>2 DEF WorkerFails, Reported, Logged, Working, guardrails, slos, local, bounds,
       GateWasOpen, ForceShut, BandShut, At
  <2>3. CASE DispatchCompletes
    BY <2>3 DEF DispatchCompletes, At, Working, guardrails, slos, debts, local, bounds,
       GateWasOpen, ForceShut, BandShut
  <2> QED
    BY <1>8, <2>1, <2>2, <2>3 DEF Dispatch
<1>9. CASE CloseCycle
  <2>1. CASE PersistSlo
    BY <2>1 DEF PersistSlo, At, guardrails, debts, local, bounds, GateWasOpen, Working,
       ForceShut, BandShut
  <2>2. CASE EvaluateBand
    BY <2>2 DEF EvaluateBand, At, guardrails, slos, debts, local, bounds, GateWasOpen,
       Working, ForceShut, BandShut
  <2>3. CASE Detect
    BY <2>3 DEF Detect, At, Orders, guardrails, debts, bounds, GateWasOpen, Working,
       ForceShut, BandShut
  <2>4. CASE ApplyGuardrail
    BY <2>4 DEF ApplyGuardrail, At, Due, slos, debts, bounds, GateWasOpen, Working,
       ForceShut, BandShut
  <2>5. CASE EndEnforcement
    BY <2>5 DEF EndEnforcement, At, guardrails, slos, debts, local, bounds, GateWasOpen,
       Working, ForceShut, BandShut
  <2>6. CASE AutoRevert
    BY <2>6 DEF AutoRevert, At, slos, debts, local, bounds, GateWasOpen, Working, ForceShut,
       BandShut
  <2>7. CASE RegisterDebt
    BY <2>7 DEF RegisterDebt, Forget, At, guardrails, slos, bounds, GateWasOpen, Working,
       ForceShut, BandShut
  <2> QED
    BY <1>9, <2>1, <2>2, <2>3, <2>4, <2>5, <2>6, <2>7 DEF CloseCycle
<1> QED
  BY <1>1, <1>2, <1>3, <1>4, <1>5, <1>6, <1>7, <1>8, <1>9 DEF Next

\* A sample is only added to a file that has none.
LEMMA BandStep ==
  ASSUME TypeOK, GateWasOpen, BandInv, [Next]_vars PROVE BandInv'
<1>1. CASE UNCHANGED vars
  BY <1>1 DEF vars, TypeOK, GateWasOpen, Working, BandShut, BandInv, BandNeverReached, At,
     guardrails, slos, debts, local, bounds
<1>2. CASE EditConfig
  BY <1>2 DEF EditConfig, At, guardrails, slos, debts, local, TypeOK, GateWasOpen, Working,
     BandShut, BandInv, BandNeverReached
<1>3. CASE RecomputeBand
  BY <1>3 DEF RecomputeBand, At, guardrails, slos, debts, local, TypeOK, GateWasOpen,
     Working, BandShut, BandInv, BandNeverReached
<1>4. CASE StepFails
  BY <1>4 DEF StepFails, Forget, At, Fault, NextStep, guardrails, slos, debts, local,
     TypeOK, GateWasOpen, Working, BandShut, BandInv, BandNeverReached
<1>5. CASE GuardrailFails
  BY <1>5 DEF GuardrailFails, At, Fault, Due, guardrails, slos, debts, TypeOK, GateWasOpen,
     Working, BandShut, BandInv, BandNeverReached
<1>6. CASE Crash
  BY <1>6 DEF Crash, Forget, At, Fault, guardrails, slos, debts, TypeOK, GateWasOpen,
     Working, BandShut, BandInv, BandNeverReached
<1>7. CASE Cycle
  <2>1. CASE StartCycle
    BY <2>1 DEF StartCycle, At, SkipShut, guardrails, slos, debts, local, bounds, TypeOK,
       GateWasOpen, Working, BandShut, BandInv, BandNeverReached
  <2>2. CASE SkipCycle
    BY <2>2 DEF SkipCycle, vars, guardrails, slos, debts, local, bounds, TypeOK,
       GateWasOpen, Working, BandShut, BandInv, BandNeverReached, At
  <2>3. CASE PlanFails
    BY <2>3 DEF PlanFails, At, guardrails, slos, debts, local, bounds, TypeOK, GateWasOpen,
       Working, BandShut, BandInv, BandNeverReached
  <2>4. CASE PlanReady
    BY <2>4 DEF PlanReady, At, guardrails, slos, debts, local, bounds, TypeOK, GateWasOpen,
       Working, BandShut, BandInv, BandNeverReached
  <2>5. CASE ResumeReady
    BY <2>5 DEF ResumeReady, At, guardrails, slos, debts, local, bounds, TypeOK,
       GateWasOpen, Working, BandShut, BandInv, BandNeverReached
  <2>6. CASE Refused
    BY <2>6 DEF Refused, At, guardrails, slos, debts, local, bounds, TypeOK, GateWasOpen,
       Working, BandShut, BandInv, BandNeverReached
  <2>7. CASE Admitted
    BY <2>7 DEF Admitted, At, guardrails, slos, debts, TypeOK, GateWasOpen, Working,
       BandShut, BandInv, BandNeverReached
  <2>8. CASE Readmitted
    BY <2>8 DEF Readmitted, At, guardrails, slos, debts, bounds, TypeOK, GateWasOpen,
       Working, BandShut, BandInv, BandNeverReached
  <2> QED
    BY <1>7, <2>1, <2>2, <2>3, <2>4, <2>5, <2>6, <2>7, <2>8 DEF Cycle
<1>8. CASE Dispatch
  <2>1. CASE WorkerSucceeds
    BY <2>1 DEF WorkerSucceeds, Reported, Logged, Envelope, Working, guardrails, slos,
       bounds, TypeOK, GateWasOpen, BandShut, BandInv, BandNeverReached, At
  <2>2. CASE WorkerFails
    BY <2>2 DEF WorkerFails, Reported, Logged, Working, guardrails, slos, local, bounds,
       TypeOK, GateWasOpen, BandShut, BandInv, BandNeverReached, At
  <2>3. CASE DispatchCompletes
    BY <2>3 DEF DispatchCompletes, At, Working, guardrails, slos, debts, local, bounds,
       TypeOK, GateWasOpen, BandShut, BandInv, BandNeverReached
  <2> QED
    BY <1>8, <2>1, <2>2, <2>3 DEF Dispatch
<1>9. CASE CloseCycle
  <2>1. CASE PersistSlo
    BY <2>1 DEF PersistSlo, At, guardrails, debts, local, bounds, TypeOK, GateWasOpen,
       Working, BandShut, BandInv, BandNeverReached
  <2>2. CASE EvaluateBand
    BY <2>2 DEF EvaluateBand, At, guardrails, slos, debts, local, bounds, TypeOK,
       GateWasOpen, Working, BandShut, BandInv, BandNeverReached
  <2>3. CASE Detect
    BY <2>3 DEF Detect, At, Orders, guardrails, debts, bounds, TypeOK, GateWasOpen, Working,
       BandShut, BandInv, BandNeverReached
  <2>4. CASE ApplyGuardrail
    BY <2>4 DEF ApplyGuardrail, At, Due, slos, debts, bounds, TypeOK, GateWasOpen, Working,
       BandShut, BandInv, BandNeverReached
  <2>5. CASE EndEnforcement
    BY <2>5 DEF EndEnforcement, At, guardrails, slos, debts, local, bounds, TypeOK,
       GateWasOpen, Working, BandShut, BandInv, BandNeverReached
  <2>6. CASE AutoRevert
    BY <2>6 DEF AutoRevert, At, slos, debts, local, bounds, TypeOK, GateWasOpen, Working,
       BandShut, BandInv, BandNeverReached
  <2>7. CASE RegisterDebt
    BY <2>7 DEF RegisterDebt, Forget, At, guardrails, slos, bounds, TypeOK, GateWasOpen,
       Working, BandShut, BandInv, BandNeverReached
  <2> QED
    BY <1>9, <2>1, <2>2, <2>3, <2>4, <2>5, <2>6, <2>7 DEF CloseCycle
<1> QED
  BY <1>1, <1>2, <1>3, <1>4, <1>5, <1>6, <1>7, <1>8, <1>9 DEF Next

\* The alarm is raised last and is not lifted.
LEMMA AlarmStep ==
  ASSUME TypeOK, GateWasOpen, AlarmKept, [Next]_vars PROVE AlarmKept'
<1>1. CASE UNCHANGED vars
  BY <1>1 DEF vars, AlarmKept, ForceShut, GateWasOpen, Working, At, guardrails, slos, debts,
     local, bounds
<1>2. CASE EditConfig
  BY <1>2 DEF EditConfig, At, guardrails, slos, debts, local, AlarmKept, ForceShut,
     GateWasOpen, Working
<1>3. CASE RecomputeBand
  BY <1>3 DEF RecomputeBand, At, guardrails, slos, debts, local, AlarmKept, ForceShut,
     GateWasOpen, Working
<1>4. CASE StepFails
  BY <1>4 DEF StepFails, Forget, At, Fault, NextStep, guardrails, slos, debts, local,
     AlarmKept, ForceShut, GateWasOpen, Working
<1>5. CASE GuardrailFails
  BY <1>5 DEF GuardrailFails, At, Fault, Due, guardrails, slos, debts, AlarmKept, ForceShut,
     GateWasOpen, Working
<1>6. CASE Crash
  BY <1>6 DEF Crash, Forget, At, Fault, guardrails, slos, debts, AlarmKept, ForceShut,
     GateWasOpen, Working
<1>7. CASE Cycle
  <2>1. CASE StartCycle
    BY <2>1 DEF StartCycle, At, SkipShut, guardrails, slos, debts, local, bounds, AlarmKept,
       ForceShut, GateWasOpen, Working
  <2>2. CASE SkipCycle
    BY <2>2 DEF SkipCycle, vars, guardrails, slos, debts, local, bounds, AlarmKept,
       ForceShut, GateWasOpen, Working, At
  <2>3. CASE PlanFails
    BY <2>3 DEF PlanFails, At, guardrails, slos, debts, local, bounds, AlarmKept, ForceShut,
       GateWasOpen, Working
  <2>4. CASE PlanReady
    BY <2>4 DEF PlanReady, At, guardrails, slos, debts, local, bounds, AlarmKept, ForceShut,
       GateWasOpen, Working
  <2>5. CASE ResumeReady
    BY <2>5 DEF ResumeReady, At, guardrails, slos, debts, local, bounds, AlarmKept,
       ForceShut, GateWasOpen, Working
  <2>6. CASE Refused
    BY <2>6 DEF Refused, At, guardrails, slos, debts, local, bounds, AlarmKept, ForceShut,
       GateWasOpen, Working
  <2>7. CASE Admitted
    BY <2>7 DEF Admitted, At, guardrails, slos, debts, AlarmKept, ForceShut, GateWasOpen,
       Working
  <2>8. CASE Readmitted
    BY <2>8 DEF Readmitted, At, guardrails, slos, debts, bounds, AlarmKept, ForceShut,
       GateWasOpen, Working
  <2> QED
    BY <1>7, <2>1, <2>2, <2>3, <2>4, <2>5, <2>6, <2>7, <2>8 DEF Cycle
<1>8. CASE Dispatch
  <2>1. CASE WorkerSucceeds
    BY <2>1 DEF WorkerSucceeds, Reported, Logged, Envelope, Working, guardrails, slos,
       bounds, AlarmKept, ForceShut, GateWasOpen, At
  <2>2. CASE WorkerFails
    BY <2>2 DEF WorkerFails, Reported, Logged, Working, guardrails, slos, local, bounds,
       AlarmKept, ForceShut, GateWasOpen, At
  <2>3. CASE DispatchCompletes
    BY <2>3 DEF DispatchCompletes, At, Working, guardrails, slos, debts, local, bounds,
       AlarmKept, ForceShut, GateWasOpen
  <2> QED
    BY <1>8, <2>1, <2>2, <2>3 DEF Dispatch
<1>9. CASE CloseCycle
  <2>1. CASE PersistSlo
    BY <2>1 DEF PersistSlo, At, guardrails, debts, local, bounds, AlarmKept, ForceShut,
       GateWasOpen, Working
  <2>2. CASE EvaluateBand
    BY <2>2 DEF EvaluateBand, At, guardrails, slos, debts, local, bounds, AlarmKept,
       ForceShut, GateWasOpen, Working
  <2>3. CASE Detect
    <3>1. ~ForceShut /\ UNCHANGED guardrails
      BY <2>3 DEF Detect, At, GateWasOpen
    <3>2. ~ForceShut'
      BY <3>1 DEF ForceShut, guardrails
    <3>3. At("enforce")' /\ enforced' = "no" /\ UNCHANGED config
      BY <2>3 DEF Detect, At
    <3>4. streak' >= BreachLimit => Cascade \in found'
      BY <2>3 DEF Detect, Cascading
    <3>5. todo' = IF config.guardian THEN Orders(found') ELSE {}
      BY <2>3 DEF Detect
    <3>6. Orders(found)' = Orders(found')
      BY DEF Orders
    <3>7. Cascade \in found' => CascadeOrder \in Orders(found')
      BY DEF Orders, CascadeOrder, Order, Scenarios
    <3> QED
      BY <3>2, <3>3, <3>4, <3>5, <3>6, <3>7 DEF AlarmKept, At
  <2>4. CASE ApplyGuardrail
    <3>1. At("enforce") /\ At("enforce")'
      BY <2>4 DEF ApplyGuardrail, At
    <3>2. UNCHANGED <<found, enforced, config, streak>>
      BY <2>4 DEF ApplyGuardrail, slos
    <3>3. PICK o \in Due : /\ IF o.file = "force" THEN force' = o.scenario /\ UNCHANGED skip
                                                  ELSE skip' = o.scenario /\ UNCHANGED force
                           /\ todo' = todo \ {o}
      BY <2>4 DEF ApplyGuardrail
    <3>4. o \in todo /\ ~ForceShut /\ todo \subseteq Orders(found)
      BY <3>1, <3>3 DEF Due, AlarmKept
    <3>5. todo' \subseteq Orders(found')
      BY <3>2, <3>3, <3>4
    <3>6. ForceShut' => todo' = {} /\ Cascade \in found'
      <4> SUFFICES ASSUME ForceShut' PROVE todo' = {} /\ Cascade \in found'
        OBVIOUS
      <4>1. o.file = "force" /\ o.scenario = Cascade
        BY <3>3, <3>4 DEF ForceShut
      <4>2. todo = {o}
        BY <3>3, <3>4, <4>1, CascadeLast
      <4> QED
        BY <3>2, <3>3, <3>4, <4>1, <4>2 DEF Orders
    <3>7. (enforced' = "no" /\ config'.guardian /\ Cascade \in found')
            => ForceShut' \/ CascadeOrder \in todo'
      <4>1. CASE o = CascadeOrder
        BY <3>3, <4>1 DEF CascadeOrder, ForceShut
      <4>2. CASE o # CascadeOrder
        BY <3>1, <3>2, <3>3, <3>4, <4>2 DEF AlarmKept
      <4> QED
        BY <4>1, <4>2
    <3>8. Orders(found)' = Orders(found')
      BY DEF Orders
    <3> QED
      BY <3>1, <3>2, <3>5, <3>6, <3>7, <3>8 DEF AlarmKept, At
  <2>5. CASE EndEnforcement
    BY <2>5 DEF EndEnforcement, At, guardrails, slos, debts, local, bounds, AlarmKept,
       ForceShut, GateWasOpen, Working
  <2>6. CASE AutoRevert
    BY <2>6 DEF AutoRevert, At, slos, debts, local, bounds, AlarmKept, ForceShut,
       GateWasOpen, Working
  <2>7. CASE RegisterDebt
    BY <2>7 DEF RegisterDebt, Forget, At, guardrails, slos, bounds, AlarmKept, ForceShut,
       GateWasOpen, Working
  <2> QED
    BY <1>9, <2>1, <2>2, <2>3, <2>4, <2>5, <2>6, <2>7 DEF CloseCycle
<1> QED
  BY <1>1, <1>2, <1>3, <1>4, <1>5, <1>6, <1>7, <1>8, <1>9 DEF Next

\* No evidence carries a replay contract, and open entries keep their follow-up.
LEMMA DebtStep ==
  ASSUME TypeOK, DebtInv, [Next]_vars PROVE DebtInv'
<1>1. CASE UNCHANGED vars
  BY <1>1 DEF vars, DebtInv, OneDebtPerFollowUp, guardrails, slos, debts, local, bounds
<1>2. CASE EditConfig
  BY <1>2 DEF EditConfig, At, guardrails, slos, debts, local, DebtInv, OneDebtPerFollowUp
<1>3. CASE RecomputeBand
  BY <1>3 DEF RecomputeBand, At, guardrails, slos, debts, local, DebtInv, OneDebtPerFollowUp
<1>4. CASE StepFails
  BY <1>4 DEF StepFails, Forget, At, Fault, NextStep, guardrails, slos, debts, local,
     DebtInv, OneDebtPerFollowUp
<1>5. CASE GuardrailFails
  BY <1>5 DEF GuardrailFails, At, Fault, Due, guardrails, slos, debts, DebtInv,
     OneDebtPerFollowUp
<1>6. CASE Crash
  BY <1>6 DEF Crash, Forget, At, Fault, guardrails, slos, debts, DebtInv, OneDebtPerFollowUp
<1>7. CASE Cycle
  <2>1. CASE StartCycle
    BY <2>1 DEF StartCycle, At, SkipShut, guardrails, slos, debts, local, bounds, DebtInv,
       OneDebtPerFollowUp
  <2>2. CASE SkipCycle
    BY <2>2 DEF SkipCycle, vars, guardrails, slos, debts, local, bounds, DebtInv,
       OneDebtPerFollowUp
  <2>3. CASE PlanFails
    BY <2>3 DEF PlanFails, At, guardrails, slos, debts, local, bounds, DebtInv,
       OneDebtPerFollowUp
  <2>4. CASE PlanReady
    BY <2>4 DEF PlanReady, At, guardrails, slos, debts, local, bounds, DebtInv,
       OneDebtPerFollowUp
  <2>5. CASE ResumeReady
    BY <2>5 DEF ResumeReady, At, guardrails, slos, debts, local, bounds, DebtInv,
       OneDebtPerFollowUp
  <2>6. CASE Refused
    BY <2>6 DEF Refused, At, guardrails, slos, debts, local, bounds, DebtInv,
       OneDebtPerFollowUp
  <2>7. CASE Admitted
    BY <2>7 DEF Admitted, At, guardrails, slos, debts, DebtInv, OneDebtPerFollowUp
  <2>8. CASE Readmitted
    BY <2>8 DEF Readmitted, At, guardrails, slos, debts, bounds, DebtInv, OneDebtPerFollowUp
  <2> QED
    BY <1>7, <2>1, <2>2, <2>3, <2>4, <2>5, <2>6, <2>7, <2>8 DEF Cycle
<1>8. CASE Dispatch
  <2>1. CASE WorkerSucceeds
    BY <2>1 DEF WorkerSucceeds, Reported, Logged, Envelope, Working, guardrails, slos,
       bounds, DebtInv, OneDebtPerFollowUp
  <2>2. CASE WorkerFails
    BY <2>2 DEF WorkerFails, Reported, Logged, Working, guardrails, slos, local, bounds,
       DebtInv, OneDebtPerFollowUp
  <2>3. CASE DispatchCompletes
    BY <2>3 DEF DispatchCompletes, At, Working, guardrails, slos, debts, local, bounds,
       DebtInv, OneDebtPerFollowUp
  <2> QED
    BY <1>8, <2>1, <2>2, <2>3 DEF Dispatch
<1>9. CASE CloseCycle
  <2>1. CASE PersistSlo
    BY <2>1 DEF PersistSlo, At, guardrails, debts, local, bounds, DebtInv,
       OneDebtPerFollowUp
  <2>2. CASE EvaluateBand
    BY <2>2 DEF EvaluateBand, At, guardrails, slos, debts, local, bounds, DebtInv,
       OneDebtPerFollowUp
  <2>3. CASE Detect
    BY <2>3 DEF Detect, At, Orders, guardrails, debts, bounds, DebtInv, OneDebtPerFollowUp
  <2>4. CASE ApplyGuardrail
    BY <2>4 DEF ApplyGuardrail, At, Due, slos, debts, bounds, DebtInv, OneDebtPerFollowUp
  <2>5. CASE EndEnforcement
    BY <2>5 DEF EndEnforcement, At, guardrails, slos, debts, local, bounds, DebtInv,
       OneDebtPerFollowUp
  <2>6. CASE AutoRevert
    BY <2>6 DEF AutoRevert, At, slos, debts, local, bounds, DebtInv, OneDebtPerFollowUp
  <2>7. CASE RegisterDebt
    <3>1. ledger' = AddDebtEntries(ledger) /\ resolved' = {}
      <4>1. \A f : ~Verified(f)
        BY DEF Verified, DebtInv
      <4>2. AutoCloseVerifiedDebt(AddDebtEntries(ledger)) = AddDebtEntries(ledger)
        BY <4>1 DEF AutoCloseVerifiedDebt
      <4> QED
        BY <2>7, <4>2 DEF RegisterDebt, Forget
    <3>2. \A f : /\ NewDebt(f).task = f /\ ~NewDebt(f).closed
                 /\ NewDebt(f).severity = "warning"
      BY DEF NewDebt, Severity
    <3>3. \A e \in ledger' : ~e.closed /\ e.severity = "warning"
      BY <3>1, <3>2 DEF AddDebtEntries, DebtInv
    <3>4. \A f \in NewlyOwed(ledger) : \A e \in ledger : e.task # f
      BY DEF NewlyOwed, DebtInv
    <3>5. \A d, e \in ledger' : d.task = e.task => d = e
      BY <3>1, <3>2, <3>4 DEF AddDebtEntries, DebtInv, OneDebtPerFollowUp
    <3> QED
      BY <3>1, <3>3, <3>5 DEF DebtInv, OneDebtPerFollowUp
  <2> QED
    BY <1>9, <2>1, <2>2, <2>3, <2>4, <2>5, <2>6, <2>7 DEF CloseCycle
<1> QED
  BY <1>1, <1>2, <1>3, <1>4, <1>5, <1>6, <1>7, <1>8, <1>9 DEF Next

\* The inductive invariant holds in every reachable state.
THEOREM IInvHolds == Spec => []IInv
<1>1. Init => IInv
  <2> SUFFICES ASSUME Init PROVE IInv
    OBVIOUS
  <2>1. band \in [written : BOOLEAN, samples : Nat, ready : BOOLEAN]
    BY DEF Init, NoBand
  <2>2. log \in Seq(BOOLEAN) /\ Len(log) <= YieldWindow
    BY DEF Init
  <2>3. TypeOK
    BY <2>1, <2>2 DEF Init, TypeOK, Guardrail, Between
  <2>4. Placed /\ GateWasOpen /\ BandInv /\ AlarmKept /\ DebtInv
    BY DEF Init, Placed, GateWasOpen, BandInv, BandNeverReached, AlarmKept, DebtInv,
       OneDebtPerFollowUp, NoBand, At, Working, ForceShut, BandShut, Off, Cascade
  <2> QED
    BY <2>3, <2>4 DEF IInv
<1>2. IInv /\ [Next]_vars => IInv'
  BY TypeStep, PlacedStep, GateStep, BandStep, AlarmStep, DebtStep DEF IInv
<1> QED
  BY <1>1, <1>2, PTL DEF Spec

\* The files, the ledger and the cycle keep their types.
THEOREM TypeCorrect == Spec => []TypeOK
<1>1. IInv => TypeOK
  BY DEF IInv
<1> QED
  BY <1>1, IInvHolds, PTL

\* A streak at its limit, its guardrails applied, has shut the gate.
THEOREM AlarmHolds == Spec => []AlarmRaised
<1>1. IInv => AlarmRaised
  BY DEF IInv, AlarmKept, AlarmRaised, At, Between
<1> QED
  BY <1>1, IInvHolds, PTL

\* With any minimum of samples above one the band is never reached.
THEOREM BandUnreached == Spec => []BandNeverReached
<1>1. IInv => BandNeverReached
  BY DEF IInv, BandInv
<1> QED
  BY <1>1, IInvHolds, PTL

\* One entry per follow-up.
THEOREM OneDebt == Spec => []OneDebtPerFollowUp
<1>1. IInv => OneDebtPerFollowUp
  BY DEF IInv, DebtInv
<1> QED
  BY <1>1, IInvHolds, PTL

\* However late the debt, its gate is open.
THEOREM DebtGateOpen == Spec => []DebtNeverStopsWork
<1>1. IInv => DebtNeverStopsWork
  <2> SUFFICES ASSUME IInv PROVE ~DebtShut
    BY DEF DebtNeverStopsWork
  <2>1. CriticalOverdue = {}
    BY DEF CriticalOverdue, Overdue, IInv, DebtInv
  <2>2. Cardinality(CriticalOverdue) = 0
    BY <2>1, FS_EmptySet
  <2> QED
    BY <2>2 DEF DebtShut
<1> QED
  BY <1>1, IInvHolds, PTL

\* No step closes an entry.
THEOREM DebtKept == Spec => DebtStaysOpen
<1>1. IInv /\ [Next]_vars => [\A e \in ledger : (~e.closed => e \in ledger')]_vars
  <2> SUFFICES ASSUME IInv, Next PROVE ledger \subseteq ledger'
    BY DEF vars, debts
  <2>1. CASE RegisterDebt
    <3>1. \A f : ~Verified(f)
      BY DEF Verified, IInv, DebtInv
    <3>2. AutoCloseVerifiedDebt(AddDebtEntries(ledger)) = AddDebtEntries(ledger)
      BY <3>1 DEF AutoCloseVerifiedDebt
    <3> QED
      BY <2>1, <3>2 DEF RegisterDebt, AddDebtEntries
  <2>2. CASE ~RegisterDebt
    BY <2>2 DEF Next, Cycle, Dispatch, CloseCycle, EditConfig, RecomputeBand, StartCycle,
       SkipCycle, PlanFails, PlanReady, ResumeReady, Refused, Admitted, Readmitted,
       WorkerSucceeds, WorkerFails, DispatchCompletes, PersistSlo, EvaluateBand, Detect,
       ApplyGuardrail, EndEnforcement, AutoRevert, StepFails, GuardrailFails, Crash, vars,
          debts
  <2> QED
    BY <2>1, <2>2
<1> QED
  BY <1>1, IInvHolds, PTL DEF Spec, DebtStaysOpen

\* What the gates read, save for the band's file, says the same if nothing is written.
LEMMA SameGate ==
  ASSUME UNCHANGED <<config, guardrails, log, debts, open>>
  PROVE  /\ ForceShut' = ForceShut /\ SkipShut' = SkipShut
         /\ YieldShut' = YieldShut /\ DebtShut' = DebtShut
<1>1. ForceShut' = ForceShut /\ SkipShut' = SkipShut
  BY DEF ForceShut, SkipShut, guardrails
<1>2. Productive' = Productive
  BY DEF Productive
<1>3. YieldShut' = YieldShut
  BY <1>2 DEF YieldShut
<1>4. Overdue' = Overdue
  BY DEF Overdue, debts
<1>5. CriticalOverdue' = CriticalOverdue
  BY <1>4 DEF CriticalOverdue
<1>6. DebtShut' = DebtShut
  BY <1>5 DEF DebtShut
<1> QED
  BY <1>1, <1>3, <1>6

\* No step of the program opens a gate it finds shut, and no step at all lifts the
\* alarm of a cascade.
THEOREM GatesStayShut == Spec => ShutsForGood
<1>1. ASSUME IInv, Next, ForceShut PROVE ForceShut'
  <2>1. ~(pc \in Working \cup {"slo", "band", "detect"})
    BY <1>1 DEF IInv, GateWasOpen
  <2>2. CASE ApplyGuardrail
    BY <1>1, <2>2 DEF ApplyGuardrail, Due, IInv, AlarmKept
  <2>3. CASE AutoRevert
    BY <1>1, <2>3 DEF AutoRevert, IInv, AlarmKept, ForceShut
  <2>4. CASE ~ApplyGuardrail /\ ~AutoRevert
    BY <1>1, <2>4 DEF Next, Cycle, Dispatch, CloseCycle, EditConfig, RecomputeBand,
       StartCycle,
       SkipCycle, PlanFails, PlanReady, ResumeReady, Refused, Admitted, Readmitted,
       WorkerSucceeds, WorkerFails, DispatchCompletes, PersistSlo, EvaluateBand, Detect,
       EndEnforcement, RegisterDebt, StepFails, GuardrailFails, Crash, vars, guardrails,
          ForceShut
  <2> QED
    BY <2>2, <2>3, <2>4
<1>2. ASSUME IInv, Next, pc \in Between, Shut, config' = config
      PROVE  pc' \in Between /\ Shut'
  <2>1. CASE RecomputeBand
    <3>1. UNCHANGED <<config, guardrails, log, debts, open, pc>>
      BY <2>1 DEF RecomputeBand
    <3>2. ~band'.ready /\ band'.written
      BY <1>2, <2>1 DEF RecomputeBand, IInv, TypeOK, BandInv, BandNeverReached
    <3>3. BandShut => BandShut'
      BY <3>1, <3>2 DEF BandShut
    <3> QED
      BY <1>2, <3>1, <3>3, SameGate DEF Shut, GateShut
  <2>2. CASE Admitted \/ Readmitted
    BY <1>2, <2>2 DEF Admitted, Readmitted, Shut, IInv, Placed, At
  <2>3. CASE StartCycle \/ SkipCycle \/ PlanFails \/ PlanReady \/ ResumeReady \/ Refused \/
     Crash
    <3>1. UNCHANGED <<config, guardrails, band, log, debts, open>> /\ pc' \in Between
      BY <1>2, <2>3 DEF StartCycle, SkipCycle, PlanFails, PlanReady, ResumeReady, Refused,
         Crash, vars, Between
    <3>2. BandShut' = BandShut
      BY <3>1 DEF BandShut
    <3> QED
      BY <1>2, <3>1, <3>2, SameGate DEF Shut, GateShut
  <2>4. ~EditConfig
    BY <1>2 DEF EditConfig
  <2>5. ~(Dispatch \/ CloseCycle \/ StepFails \/ GuardrailFails)
    BY <1>2 DEF Between, Working, At, NextStep, Dispatch, CloseCycle, WorkerSucceeds,
       WorkerFails,
       DispatchCompletes, PersistSlo, EvaluateBand, Detect, ApplyGuardrail, EndEnforcement,
       AutoRevert, RegisterDebt, StepFails, GuardrailFails
  <2> QED
    BY <1>2, <2>1, <2>2, <2>3, <2>4, <2>5 DEF Next, Cycle
<1>3. IInv /\ [Next]_vars =>
        [/\ (pc \in Between /\ Shut /\ config' = config) => (pc' \in Between /\ Shut')
         /\ ForceShut => ForceShut']_vars
  BY <1>1, <1>2
<1> QED
  BY <1>3, IInvHolds, PTL DEF Spec, ShutsForGood
=============================================================================
