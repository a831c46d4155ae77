------------------------- MODULE MCDispatchCheckpoint -------------------------
(* The instances of DispatchCheckpoint that TLC checks. *)
EXTENDS DispatchCheckpointProofs

\* A plan set longer than a run segment, then a short one.
MCBatches == [p \in Plans |-> IF p = 1 THEN 3 ELSE 2]
=============================================================================
