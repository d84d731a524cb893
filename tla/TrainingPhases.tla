-------------------------- MODULE TrainingPhases ---------------------------
(***************************************************************************)
(* What the phase transaction and its ledger have in common: which role is *)
(* bound to which policy, the update phases of an alternating cycle, and   *)
(* the weights the phases produce.                                         *)
(*                                                                         *)
(* A weight version is the policy it belongs to, where its parameters      *)
(* started and the sequence of optimizer steps applied since; a step is    *)
(* the transaction and batch it was computed from, and the noise that      *)
(* makes two computations of it differ (the checkpoint digest covers the   *)
(* RNG state, so a recomputed update seldom has the digest of the first).  *)
(***************************************************************************)
EXTENDS Integers, Sequences, FiniteSets

CONSTANTS
  MainPolicy,       \* the policy bound to the main role
  SubPolicy,        \* the policy bound to the sub role (the same one when shared)
  TrainableRoles,   \* the roles whose binding is trainable
  Batches,          \* the contents a non-empty rollout batch can have
  Empty,            \* the content of a Sub batch without samples
  Noise,            \* what distinguishes two computations of one update
  MaxCycle          \* bound: alternating cycles in the experiment

Roles == {"main", "sub"}

Policies == {MainPolicy, SubPolicy}

Cycles == 1 .. MaxCycle

Phases == {"main_update", "sub_update", "joint_update"}

ASSUME TrainingAssumption ==
  /\ TrainableRoles \subseteq Roles
  /\ TrainableRoles # {}
  /\ Empty \notin Batches
  /\ MaxCycle \in Nat \ {0}

-----------------------------------------------------------------------------
(* Topology *)

SharedTrainable == MainPolicy = SubPolicy /\ TrainableRoles = Roles

\* The phases of a cycle that have a trainable target.
CyclePhases ==
  IF SharedTrainable
  THEN {"joint_update"}
  ELSE {ph \in {"main_update", "sub_update"} :
          (ph = "main_update" /\ "main" \in TrainableRoles)
          \/ (ph = "sub_update" /\ "sub" \in TrainableRoles)}

SubPhaseFirst == IF SharedTrainable THEN "joint_update" ELSE "sub_update"

FirstPhase ==
  CASE SharedTrainable -> "joint_update"
    [] ~SharedTrainable /\ "main" \in TrainableRoles -> "main_update"
    [] OTHER -> "sub_update"

TargetOf(phase) == IF phase = "sub_update" THEN SubPolicy ELSE MainPolicy

Tx == [cycle : Cycles, phase : Phases]

TxOf(c, phase) == [cycle |-> c, phase |-> phase]

-----------------------------------------------------------------------------
(* Weights *)

Step == [tx : Tx, batch : Batches, noise : Noise]

Weight == [policy : Policies, seed : {"checkpoint", "process"}, steps : Seq(Step)]

\* The audited checkpoint the experiment starts a policy from.
Start(p) == [policy |-> p, seed |-> "checkpoint", steps |-> <<>>]

\* The parameters a fresh process draws before it restores a checkpoint.
Unloaded(p) == [policy |-> p, seed |-> "process", steps |-> <<>>]

Applied(w, t, b, n) ==
  [w EXCEPT !.steps = Append(@, [tx |-> t, batch |-> b, noise |-> n])]

=============================================================================
