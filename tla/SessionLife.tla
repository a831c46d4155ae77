------------------------------ MODULE SessionLife ------------------------------
(***************************************************************************)
(* What the session files promise about target sessions: one is open at a  *)
(* time, it changes its stage along the rules below or by the operator's   *)
(* hand, it ends when it is recorded as archived or was closed, it never   *)
(* comes back, and workers run for it once its intent is clarified.  It    *)
(* says nothing of processes, copies, crashes, the mode or the deliveries. *)
(***************************************************************************)
EXTENDS Integers

VARIABLES
  current,  \* the session in the session file, 0 when there is none
  stage,
  opened,   \* sessions 1..opened were opened
  recorded, \* sessions on record as archived
  ended,    \* sessions that are over
  ready,    \* sessions whose intent is clarified
  worked,   \* sessions that workers have run for
  moved     \* sessions the operator has set a stage of

vars == <<current, stage, opened, recorded, ended, ready, worked, moved>>

Unready == {"onboarding", "awaiting_credentials", "awaiting_manual_step"}
Asked == "awaiting_intent_clarification"
Executable == {"shadow", "active"}
Closed == {"completed", "completed_with_handoff"}
Stages == Unready \cup {Asked} \cup Executable \cup {"quarantined"} \cup Closed

Init ==
  /\ current = 0 /\ stage = "none" /\ opened = 0
  /\ recorded = {} /\ ended = {} /\ ready = {} /\ worked = {} /\ moved = {}

\* A session is opened when there is none, or over a closed one.
Open ==
  /\ current = 0 \/ stage \in Closed
  /\ opened' = opened + 1 /\ current' = opened + 1 /\ stage' = "onboarding"
  /\ ended' = ended \cup ({current} \ {0})
  /\ UNCHANGED <<recorded, ready, worked, moved>>

\* What saves the session takes its record back.
Enter(to) ==
  /\ current # 0
  /\ stage' = to /\ recorded' = recorded \ {current}
  /\ UNCHANGED <<current, opened, ended, ready, worked>>

\* The session is only saved, is ready for questions or still is not, is asked
\* (again), is clarified, has proved itself, or is complete.
Move(to) ==
  /\ \/ to = stage
     \/ stage \in Unready /\ to \in (Unready \ {"onboarding"}) \cup {Asked}
     \/ stage \in Executable /\ to = Asked
     \/ stage \in {Asked, "shadow"} /\ to \in Executable /\ current \in ready
     \/ stage = "shadow" /\ to = "active"
     \/ to \in Closed /\ current \in worked
  /\ Enter(to)
  /\ UNCHANGED moved

MoveByHand(to) == Enter(to) /\ moved' = moved \cup {current}

Clarify ==
  /\ stage \in {Asked, "shadow"}
  /\ ready' = ready \cup {current}
  /\ UNCHANGED <<current, stage, opened, recorded, ended, worked, moved>>

\* Only a session that nobody has worked on yet gets new questions.
Question ==
  /\ stage \in Unready /\ current \notin worked \ moved
  /\ ready' = ready \ {current}
  /\ UNCHANGED <<current, stage, opened, recorded, ended, worked, moved>>

Work ==
  /\ stage \in Executable /\ current \in ready \cup moved
  /\ worked' = worked \cup {current}
  /\ UNCHANGED <<current, stage, opened, recorded, ended, ready, moved>>

Record ==
  /\ current # 0
  /\ recorded' = recorded \cup {current}
  /\ UNCHANGED <<current, stage, opened, ended, ready, worked, moved>>

Retire ==
  /\ current \in recorded
  /\ current' = 0 /\ stage' = "none" /\ ended' = ended \cup {current}
  /\ UNCHANGED <<opened, recorded, ready, worked, moved>>

Next ==
  \/ Open \/ Clarify \/ Question \/ Work \/ Record \/ Retire
  \/ \E to \in Stages : Move(to) \/ MoveByHand(to)

Spec == Init /\ [][Next]_vars
-----------------------------------------------------------------------------
\* Every session that was opened is the one in the file or is over, and none is both.
OneAtATime == current \in 0..opened /\ ended = (1..opened) \ {current}

\* A session that was worked on is clarified, unless the operator moved it.
WorkedWhenReady == worked \ moved \subseteq ready
=============================================================================
