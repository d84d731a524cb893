--------------------------- MODULE MCExperiment ---------------------------
(* A small instance of Experiment for TLC. *)
EXTENDS Experiment, TLC

Symmetric == Permutations(Configs) \cup Permutations(Contracts)
               \cup Permutations(Evaluators)

=============================================================================
