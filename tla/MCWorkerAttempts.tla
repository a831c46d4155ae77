--------------------------- MODULE MCWorkerAttempts ---------------------------
(***************************************************************************)
(* WorkerAttempts for TLC: two batches of one role, whose substitute is    *)
(* "evolution", and one of a role exempt from verification.                *)
(***************************************************************************)
EXTENDS WorkerAttempts

MCRoles == {"evolution", "quality", "scan"}
MCRoleOf == <<"quality", "quality", "scan">>
=============================================================================
