------------------------------ MODULE MCOutbox ------------------------------
(* Small instances of Outbox for TLC. *)
EXTENDS Outbox, TLC

CONSTANTS j1, j2, c1

\* Two jobs that rebuilt the same contract from the same inputs: one claim.
MCOneJob == j1 :> c1
MCSameClaim == (j1 :> c1) @@ (j2 :> c1)

MCSymmetry == Permutations(Job)
=============================================================================
