------------------------------ MODULE PlanLedger ------------------------------
(***************************************************************************)
(* What the dispatch checkpoint promises about a plan set's worker         *)
(* batches: they succeed in order, a success is recorded after it happened *)
(* and one at a time, and a ledger closes when all of it is recorded, when *)
(* its plan set is waived, or as failed.  It says nothing of processes,    *)
(* crashes, sessions, retries or commands.                                 *)
(***************************************************************************)
EXTENDS Integers

CONSTANTS MaxPlans, Batches

Plans == 1..MaxPlans

VARIABLES
  plan,      \* plan set of the open ledger, 0 before the first
  recorded,  \* batches 1..recorded are recorded as completed
  outcome,
  worked,    \* worked[p]: batches of p that succeeded at least once
  waived     \* plan sets closed without work

vars == <<plan, recorded, outcome, worked, waived>>

Init ==
  /\ plan = 0 /\ recorded = 0 /\ outcome = "none"
  /\ worked = [p \in Plans |-> {}] /\ waived = {}

\* A ledger is opened for a plan set, new or to be worked again.
Open(p) ==
  /\ plan' = p /\ recorded' = 0 /\ outcome' = "dispatching"
  /\ waived' \in {waived, waived \cup {p}}
  /\ UNCHANGED worked

Work ==
  /\ outcome = "dispatching" /\ recorded < Batches[plan]
  /\ worked' = [worked EXCEPT ![plan] = @ \cup {recorded + 1}]
  /\ UNCHANGED <<plan, recorded, outcome, waived>>

Record ==
  /\ outcome = "dispatching" /\ recorded + 1 \in worked[plan]
  /\ recorded' = recorded + 1
  /\ UNCHANGED <<plan, outcome, worked, waived>>

Close ==
  /\ outcome = "dispatching"
  /\ recorded = Batches[plan] \/ plan \in waived
  /\ recorded' = Batches[plan] /\ outcome' = "complete"
  /\ UNCHANGED <<plan, worked, waived>>

Fail ==
  /\ outcome = "dispatching"
  /\ outcome' = "failed_closed"
  /\ UNCHANGED <<plan, recorded, worked, waived>>

Next == (\E p \in Plans : Open(p)) \/ Work \/ Record \/ Close \/ Fail

Spec == Init /\ [][Next]_vars
=============================================================================
