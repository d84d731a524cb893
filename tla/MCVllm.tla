------------------------------- MODULE MCVllm ------------------------------
(* A small instance of VllmRollout for TLC. *)
EXTENDS VllmRollout

Exported(step, digest) == [version |-> [step |-> step, checkpoint |-> "c"], digest |-> digest]

\* The weights served at first, and those of one later step.
SomeArtifacts == {Exported(0, "d0"), Exported(1, "d1")}

Start == Exported(0, "d0")

=============================================================================
