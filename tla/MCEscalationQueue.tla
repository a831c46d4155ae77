-------------------------- MODULE MCEscalationQueue --------------------------
(* The instances of EscalationQueue, and of StateFile in it, that TLC checks. *)
EXTENDS EscalationQueue, TLC

NoEntries == <<>>
CallSymmetry == Permutations(Writers)
=============================================================================
