------------------------------ MODULE MCPhase ------------------------------
(* Small instances of PhaseTransaction for TLC. *)
EXTENDS PhaseTransaction, TLC

BothRoles == {"main", "sub"}

\* Batch contents are interchangeable, and so are the noises of an update.
Symmetric == Permutations(Batches) \cup Permutations(Noise)

=============================================================================
