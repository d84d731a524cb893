----------------------------- MODULE LocalBackend -----------------------------
(***************************************************************************)
(* The inside of the LocalHF backend: per policy a train adapter with its  *)
(* optimizer, the checkpoint whose weights it claims to hold, a rollout    *)
(* adapter and the revision it claims to serve; on disk the checkpoints    *)
(* and the rollout artifacts made from them for vLLM.  All work runs under *)
(* one lock, so a call is one action, with an action of its own for each   *)
(* way it fails after it changed something.  No field of the backend says  *)
(* that a call failed half way: it is its callers that restore the policy  *)
(* before they go on with it.  The transaction recovers, the commands end. *)
(***************************************************************************)
EXTENDS Integers, Sequences, FiniteSets

CONSTANTS
  Policies,       \* the policies of all topologies
  Topologies,     \* the sets of policies a process may hold
  Batches,        \* ids of policy batches
  Lessons,        \* ids of supervised batches
  MaxSteps,       \* bound: optimizer steps of a policy
  MaxFaults,      \* bound: calls that fail half way, and files that are damaged
  MaxLaunches,    \* bound: processes
  MaxCheckpoints, \* bound: checkpoint directories
  MaxArtifacts    \* bound: rollout artifacts

ASSUME BackendAssumption ==
  /\ Topologies \subseteq SUBSET Policies
  /\ MaxSteps \in Nat /\ MaxFaults \in Nat /\ MaxLaunches \in Nat
  /\ MaxCheckpoints \in Nat /\ MaxArtifacts \in Nat

Ids == Batches \cup Lessons

\* Parameters and optimizer moments are their history: the policy they were initialized
\* for and the batches stepped on since.
Contents == {<<p>> \o s : p \in Policies,
                          s \in UNION {[1 .. n -> Ids] : n \in 0 .. MaxSteps}}

Start(p) == <<p>>

\* What is no weights at all: a damaged file, parameters that are not finite.
Junk == <<>>

\* Where the adapters of a process are: what is fetched from another device is a copy, on
\* the CPU it is the parameters themselves.
Devices == {"cpu", "cuda"}

\* A checkpoint is addressed by the digest of its manifest: by all there is to say of it.
Checkpoint == [policy : Policies, step : 0 .. MaxSteps,
               adapter : Contents, optimizer : Contents]

Saved(p, step, w) ==
  [policy |-> p, step |-> step, adapter |-> w.adapter, optimizer |-> w.optimizer]

WeightsOf(c) == [adapter |-> c.adapter, optimizer |-> c.optimizer]

Initial(p) == [adapter |-> Start(p), optimizer |-> Start(p)]

InitialCheckpoint(p) == Saved(p, 0, Initial(p))

VARIABLES
  dirs,       \* disk: checkpoint directories
  damaged,    \* disk: those whose files are not what their manifest says
  artifacts,  \* disk: rollout artifacts, with what they hold
  loaded,     \* the policies of the running process
  train,      \* per policy: what train adapter and optimizer hold
  weight,     \* per policy: the checkpoint they are labelled with
  served,     \* per policy: what the rollout adapter holds
  rollout,    \* per policy: the checkpoint its revision names
  updates,    \* batch ids with a remembered result
  synced,     \* checkpoints remembered as synchronized
  raised,     \* policies on which a call has failed half way, as their callers know
  faults,     \* bound: such failures, and damages
  launches    \* bound: processes started

disk == <<dirs, damaged, artifacts>>
process == <<loaded, train, weight, served, rollout, updates, synced, raised>>
vars == <<disk, process, faults, launches>>

Artifact == [of : Checkpoint, holds : Contents \cup {Junk}]

Init ==
  /\ dirs = {}
  /\ damaged = {}
  /\ artifacts = {}
  /\ loaded = {}
  /\ train = [p \in Policies |-> Initial(p)]
  /\ weight = [p \in Policies |-> InitialCheckpoint(p)]
  /\ served = [p \in Policies |-> Start(p)]
  /\ rollout = [p \in Policies |-> InitialCheckpoint(p)]
  /\ updates = {}
  /\ synced = {}
  /\ raised = {}
  /\ faults = 0
  /\ launches = 0

-----------------------------------------------------------------------------
(* Processes and files *)

\* Bound: whether there may be these checkpoints too.
Room(cs) == Cardinality(dirs \cup cs) <= MaxCheckpoints

\* The constructor: adapters are initialized, the rollout adapter is a copy of the train
\* adapter, and a checkpoint of step 0 is on disk.
Launch(P) ==
  /\ loaded = {}
  /\ launches < MaxLaunches
  /\ Room({InitialCheckpoint(p) : p \in P})
  /\ launches' = launches + 1
  /\ loaded' = P
  /\ dirs' = dirs \cup {InitialCheckpoint(p) : p \in P}
  /\ UNCHANGED <<damaged, artifacts, train, weight, served, rollout, updates, synced,
                 raised, faults>>

\* The process ends, at any point between two calls or inside one.
Exit ==
  /\ loaded # {}
  /\ loaded' = {}
  /\ train' = [p \in Policies |-> Initial(p)]
  /\ weight' = [p \in Policies |-> InitialCheckpoint(p)]
  /\ served' = [p \in Policies |-> Start(p)]
  /\ rollout' = [p \in Policies |-> InitialCheckpoint(p)]
  /\ updates' = {}
  /\ synced' = {}
  /\ raised' = {}
  /\ UNCHANGED <<disk, faults, launches>>

\* Files of a checkpoint are changed or lost.
Damage(c) ==
  /\ faults < MaxFaults
  /\ c \notin damaged
  /\ faults' = faults + 1
  /\ damaged' = damaged \cup {c}
  /\ UNCHANGED <<dirs, artifacts, process, launches>>

VerifiedBlindly(c) == c \in dirs

\* Manifest and every file are checked against the digests of the reference.
Verified(c) == c \in dirs \ damaged

\* The adapter file in the directory of c.
FileOf(c) == IF c \in damaged THEN Junk ELSE c.adapter

\* The policies a caller goes on with; the code does not ask.
Usable(p) == p \in loaded \ raised

Fails(ps) ==
  /\ faults < MaxFaults
  /\ faults' = faults + 1
  /\ raised' = raised \cup ps

-----------------------------------------------------------------------------
(* Updates *)

Stepped(p, id) ==
  [adapter |-> Append(train[p].adapter, id), optimizer |-> Append(train[p].optimizer, id)]

StepPossibleAgain(p, id) == Usable(p) /\ weight[p].step < MaxSteps

\* A batch is for the checkpoint its rollouts were sampled from. A remembered id returns its
\* result, or raises for another digest, and changes nothing.
StepPossible(p, id) ==
  /\ Usable(p)
  /\ id \notin updates
  /\ weight[p].step < MaxSteps

NextCheckpoint(p, id) == Saved(p, weight[p].step + 1, Stepped(p, id))

\* optimizer.step(), then the checkpoint, then the labels; the directory is renamed into
\* place, or is there already.
StepOn(p, id) ==
  /\ StepPossible(p, id)
  /\ Room({NextCheckpoint(p, id)})
  /\ LET c == NextCheckpoint(p, id) IN
       /\ train' = [train EXCEPT ![p] = Stepped(p, id)]
       /\ dirs' = dirs \cup {c}
       /\ weight' = [weight EXCEPT ![p] = c]
       /\ updates' = updates \cup {id}
  /\ UNCHANGED <<damaged, artifacts, loaded, served, rollout, synced, raised, faults,
                 launches>>

SharedEverywhere(p, device) == Junk

\* The snapshot of the parameters, read after the step overwrote them with values that are
\* not finite: on the CPU it shares their storage and was overwritten with them.
AdapterBefore(p, device) == IF device = "cpu" THEN Junk ELSE train[p].adapter

UndoneAdapterOnly(p, id, device) ==
  [adapter |-> AdapterBefore(p, device), optimizer |-> Stepped(p, id).optimizer]

\* What the call puts back: the snapshot, and a deep copy of the optimizer's state.
Undone(p, id, device) ==
  [adapter |-> AdapterBefore(p, device), optimizer |-> train[p].optimizer]

\* The step leaves the adapter not finite: what can be is undone, and the call raises. Where
\* the adapter is not put back the policy keeps its label, as after any call that failed half
\* way, and must be restored.
StepDiverges(p, id) ==
  /\ StepPossible(p, id)
  /\ \E device \in Devices :
       /\ train' = [train EXCEPT ![p] = Undone(p, id, device)]
       /\ Fails({q \in {p} : device = "cpu"})
  /\ UNCHANGED <<disk, loaded, weight, served, rollout, updates, synced, launches>>

\* The checkpoint of the step cannot be written: the step stays, the labels too.
StepUnsaved(p, id) ==
  /\ StepPossible(p, id)
  /\ Fails({p})
  /\ train' = [train EXCEPT ![p] = Stepped(p, id)]
  /\ UNCHANGED <<disk, loaded, weight, served, rollout, updates, synced, launches>>

Update(p, id) == StepOn(p, id) \/ StepDiverges(p, id) \/ StepUnsaved(p, id)

\* update_policy and update_supervised differ in the loss.
UpdatePolicy(p) == \E id \in Batches : Update(p, id)

UpdateSupervised(p) == \E id \in Lessons : Update(p, id)

-----------------------------------------------------------------------------
(* Synchronization *)

CopiedNothing(p) == served

Copied(p) == [served EXCEPT ![p] = train[p].adapter]

\* Weights synchronized before, or served already, are not copied again.
Sync(p) ==
  /\ Usable(p)
  /\ weight[p] \notin synced
  /\ rollout[p] # weight[p]
  /\ served' = Copied(p)
  /\ rollout' = [rollout EXCEPT ![p] = weight[p]]
  /\ synced' = synced \cup {weight[p]}
  /\ UNCHANGED <<disk, loaded, train, weight, updates, raised, faults, launches>>

ArtifactIn(as, c) == \E a \in as : a.of = c

\* export_rollout_artifact: from the verified files of the checkpoint, not from the adapter;
\* an artifact that is there already must be the same.
Export(p) ==
  /\ Usable(p)
  /\ Verified(weight[p])
  /\ ArtifactIn(artifacts, weight[p]) \/ Cardinality(artifacts) < MaxArtifacts
  /\ LET a == [of |-> weight[p], holds |-> FileOf(weight[p])] IN
       /\ ArtifactIn(artifacts, weight[p]) => a \in artifacts
       /\ artifacts' = artifacts \cup {a}
  /\ UNCHANGED <<dirs, damaged, loaded, train, weight, served, rollout, updates, synced,
                 raised, faults, launches>>

-----------------------------------------------------------------------------
(* Restore and fork *)

\* restore_checkpoint, from a reference to a directory of the policy.
Restore(c) ==
  /\ c.policy \in loaded
  /\ Verified(c)
  /\ train' = [train EXCEPT ![c.policy] = WeightsOf(c)]
  /\ weight' = [weight EXCEPT ![c.policy] = c]
  /\ raised' = raised \ {c.policy}
  /\ UNCHANGED <<disk, loaded, served, rollout, updates, synced, faults, launches>>

\* The adapter is loaded when the optimizer or a random state cannot be read.
RestoreFails(c) ==
  /\ c.policy \in loaded
  /\ Verified(c)
  /\ Fails({c.policy})
  /\ \E optimizer \in {train[c.policy].optimizer, c.optimizer} :
       train' = [train EXCEPT ![c.policy] = [adapter |-> c.adapter, optimizer |-> optimizer]]
  /\ UNCHANGED <<disk, loaded, weight, served, rollout, updates, synced, launches>>

ForkedUnderSource(p, c) == c

\* The target's checkpoint: contents and step of the source under its own identity.
Forked(p, c) == Saved(p, c.step, WeightsOf(c))

\* fork_checkpoint: one source for several policies, other than its own.
Fork(c, targets) ==
  /\ targets # {} /\ \A p \in targets : Usable(p)
  /\ c.policy \notin targets
  /\ Verified(c)
  /\ Room({Forked(p, c) : p \in targets})
  /\ train' = [p \in Policies |-> IF p \in targets THEN WeightsOf(c) ELSE train[p]]
  /\ dirs' = dirs \cup {Forked(p, c) : p \in targets}
  /\ weight' = [p \in Policies |-> IF p \in targets THEN Forked(p, c) ELSE weight[p]]
  /\ UNCHANGED <<damaged, artifacts, loaded, served, rollout, updates, synced, raised,
                 faults, launches>>

\* It fails with some targets overwritten; with all of them, some checkpoints are saved.
ForkFails(c, targets) ==
  /\ targets # {} /\ \A p \in targets : Usable(p)
  /\ c.policy \notin targets
  /\ Verified(c)
  /\ Room({Forked(p, c) : p \in targets})
  /\ \E over \in (SUBSET targets) \ {{}}, done \in SUBSET targets :
       /\ done # {} => over = targets
       /\ done # targets
       /\ train' = [p \in Policies |-> IF p \in over THEN WeightsOf(c) ELSE train[p]]
       /\ dirs' = dirs \cup {Forked(p, c) : p \in done}
       /\ Fails(over)
  /\ UNCHANGED <<damaged, artifacts, loaded, weight, served, rollout, updates, synced,
                 launches>>

-----------------------------------------------------------------------------
Call(p) ==
  \/ UpdatePolicy(p)
  \/ UpdateSupervised(p)
  \/ Sync(p)
  \/ Export(p)

Next ==
  \/ \E P \in Topologies : Launch(P)
  \/ Exit
  \/ \E c \in dirs : Damage(c)
  \/ \E p \in Policies : Call(p)
  \/ \E c \in dirs : Restore(c) \/ RestoreFails(c)
  \/ \E c \in dirs, targets \in SUBSET loaded : Fork(c, targets) \/ ForkFails(c, targets)

Spec == Init /\ [][Next]_vars

-----------------------------------------------------------------------------
(* Properties *)

\* Every part of the state has its type; a policy is labelled with, and serves, checkpoints
\* of its own only.
TypeOK ==
  /\ dirs \subseteq Checkpoint
  /\ damaged \subseteq dirs
  /\ artifacts \subseteq Artifact
  /\ loaded \subseteq Policies
  /\ \A p \in Policies :
       /\ train[p].adapter \in Contents \cup {Junk} /\ train[p].optimizer \in Contents
       /\ weight[p] \in Checkpoint /\ weight[p].policy = p
       /\ rollout[p] \in Checkpoint /\ rollout[p].policy = p
       /\ served[p] \in Contents
  /\ updates \subseteq Ids
  /\ synced \subseteq Checkpoint
  /\ raised \subseteq loaded
  /\ faults \in 0 .. MaxFaults
  /\ launches \in 0 .. MaxLaunches

\* What carries a label holds what it says, whatever failed or was damaged before: a
\* checkpoint has adapter and optimizer of as many steps as it counts; a rollout artifact,
\* which vLLM runs, has the weights of the version it is named after; a policy on which no
\* call failed half way since it was restored is at its version (local_hf/backend.py,
\* update_policy, restore_checkpoint, fork_checkpoint, export_rollout_artifact).
LabelsTrue ==
  /\ \A c \in dirs : c.adapter = c.optimizer /\ c.step = Len(c.adapter) - 1
  /\ \A a \in artifacts : a.holds = a.of.adapter
  /\ \A p \in loaded \ raised : train[p] = WeightsOf(weight[p])

\* The rollout adapter holds the weights its revision names, also after updates, forks or
\* restores that failed half way (design section 7.1, RolloutRevision).
RolloutHolds == \A p \in loaded : served[p] = rollout[p].adapter

\* Nothing is saved, exported, restored or served under the name of other weights, or of
\* another policy.
NamesWhatItHolds == TypeOK /\ LabelsTrue /\ RolloutHolds

\* What callers are told a policy is at, and what they are told it is served by; no version
\* if the name is that of other contents.
VersionOf(p) ==
  IF p \in raised \/ train[p] = WeightsOf(weight[p]) THEN weight[p].adapter ELSE Junk

ServedOf(p) == IF served[p] = rollout[p].adapter THEN served[p] ELSE Junk

CopyOf(c) == [policy |-> c.policy, weights |-> c.adapter]

ExportOf(a) ==
  [policy |-> a.of.policy, weights |-> IF a.holds = a.of.adapter THEN a.holds ELSE Junk]

Versions == [p \in Policies |-> VersionOf(p)]

ServedVersions == [p \in Policies |-> ServedOf(p)]

Copies(cs) == {CopyOf(c) : c \in cs}

Exports == {ExportOf(a) : a \in artifacts}

OneMore(w, id) == {Append(w, id)}

Contract == INSTANCE TrainingBackend
              WITH Given <- {},
                   Fresh <- Start,
                   StepsOf <- OneMore,
                   running <- loaded,
                   version <- Versions,
                   broken <- raised,
                   served <- ServedVersions,
                   stepped <- updates,
                   saved <- Copies(dirs),
                   lost <- Copies(damaged),
                   exported <- Exports

\* Whatever fails half way or is damaged, the backend does what the transactions rely on: no
\* id is stepped on twice, what it says it is at and serves it is at and serves, and every
\* version it returned has its checkpoint (training/base.py, TrainingBackend).
ContractKept == Contract!Spec

=============================================================================
