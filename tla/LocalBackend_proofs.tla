------------------------ MODULE LocalBackend_proofs ------------------------
(***************************************************************************)
(* Proofs about the labels and the types of the LocalHF backend, and that  *)
(* it keeps the contract of a training backend, for any policies,          *)
(* topologies, batches and bounds.                                         *)
(***************************************************************************)
EXTENDS LocalBackend, SequenceTheorems, TLAPS

-----------------------------------------------------------------------------
(* The inductive invariant                                                   *)

Histories == Seq(Policies \cup Ids)

Holding == [adapter : Histories, optimizer : Histories]

Labelled == [policy : Policies, step : Nat, adapter : Histories, optimizer : Histories]

\* As many steps as the label counts, in both parts.
Sound(c) == c.adapter = c.optimizer /\ c.step = Len(c.adapter) - 1

Shape ==
  /\ loaded \subseteq Policies
  /\ raised \subseteq loaded
  /\ train \in [Policies -> Holding]
  /\ weight \in [Policies -> {c \in Labelled : Sound(c)}]
  /\ served = [p \in Policies |-> served[p]]
  /\ rollout = [p \in Policies |-> rollout[p]]

SoundFiles ==
  /\ dirs \subseteq {c \in Labelled : Sound(c)}
  /\ \A a \in artifacts : a.holds = a.of.adapter

\* A policy on which no call failed half way is at its version, in memory or not.
AtVersion == \A p \in Policies \ raised : train[p] = WeightsOf(weight[p])

Serves == \A p \in Policies : served[p] = rollout[p].adapter

BInv == Shape /\ SoundFiles /\ AtVersion /\ Serves

-----------------------------------------------------------------------------
\* The initial contents live up to the initial label.
LEMMA InitialSound ==
  ASSUME NEW p \in Policies
  PROVE  /\ InitialCheckpoint(p) \in Labelled /\ Sound(InitialCheckpoint(p))
         /\ Initial(p) \in Holding
         /\ Initial(p) = WeightsOf(InitialCheckpoint(p))
         /\ Start(p) = InitialCheckpoint(p).adapter
<1>1. Start(p) \in Histories /\ Len(Start(p)) = 1
  BY DEF Start, Histories
<1> QED
  BY <1>1 DEF Initial, InitialCheckpoint, Saved, WeightsOf, Labelled, Holding, Sound

\* A process that has loaded nothing is in its invariant, and so is a new one.
LEMMA BackendInit == Init => BInv
<1> SUFFICES ASSUME Init PROVE BInv
  OBVIOUS
<1>1. Shape
  BY InitialSound DEF Init, Shape
<1>2. SoundFiles /\ AtVersion /\ Serves
  BY InitialSound DEF Init, SoundFiles, AtVersion, Serves
<1> QED
  BY <1>1, <1>2 DEF BInv

\* The end of a process leaves what is on disk, and the next one starts from the initial
\* adapters.
LEMMA ProcessKeeps ==
  ASSUME BInv, Exit \/ \E P \in Topologies : Launch(P)
  PROVE  BInv'
<1>1. CASE Exit
  <2>1. Shape'
    BY <1>1, InitialSound DEF Exit, Shape
  <2>2. SoundFiles' /\ AtVersion' /\ Serves'
    BY <1>1, InitialSound DEF Exit, disk, BInv, SoundFiles, AtVersion, Serves
  <2> QED
    BY <2>1, <2>2 DEF BInv
<1>2. ASSUME NEW P \in Topologies, Launch(P) PROVE BInv'
  <2>1. P \subseteq Policies
    BY BackendAssumption
  <2>2. Shape'
    BY <1>2, <2>1 DEF Launch, BInv, Shape
  <2>3. SoundFiles'
    BY <1>2, <2>1, InitialSound DEF Launch, BInv, SoundFiles
  <2>4. AtVersion' /\ Serves'
    BY <1>2 DEF Launch, BInv, AtVersion, Serves
  <2> QED
    BY <2>2, <2>3, <2>4 DEF BInv
<1> QED
  BY <1>1, <1>2

-----------------------------------------------------------------------------
(* Updates                                                                   *)

\* A step adds its batch to adapter and optimizer alike, and one to the count.
LEMMA StepSound ==
  ASSUME BInv, NEW p \in Policies, NEW id \in Ids, StepPossible(p, id)
  PROVE  /\ Stepped(p, id) \in Holding
         /\ NextCheckpoint(p, id) \in Labelled /\ Sound(NextCheckpoint(p, id))
         /\ Stepped(p, id) = WeightsOf(NextCheckpoint(p, id))
<1>1. train[p] = WeightsOf(weight[p])
  BY DEF BInv, AtVersion, StepPossible, Usable
<1>2. weight[p] \in Labelled /\ Sound(weight[p])
  BY DEF BInv, Shape
<1>3. weight[p].adapter \in Histories /\ weight[p].step \in Nat
  BY <1>2 DEF Labelled
<1>4. /\ Append(weight[p].adapter, id) \in Histories
      /\ Len(Append(weight[p].adapter, id)) = Len(weight[p].adapter) + 1
      /\ Len(weight[p].adapter) \in Nat
  BY <1>3 DEF Histories
<1>5. /\ Stepped(p, id).adapter = Append(weight[p].adapter, id)
      /\ Stepped(p, id).optimizer = Append(weight[p].adapter, id)
  BY <1>1, <1>2 DEF Stepped, WeightsOf, Sound
<1>6. Stepped(p, id) \in Holding
  BY <1>4, <1>5 DEF Stepped, Holding
<1>7. NextCheckpoint(p, id) =
        [policy |-> p, step |-> weight[p].step + 1,
         adapter |-> Append(weight[p].adapter, id),
         optimizer |-> Append(weight[p].adapter, id)]
  BY <1>5 DEF NextCheckpoint, Saved
<1>8. NextCheckpoint(p, id) \in Labelled
  BY <1>3, <1>4, <1>7 DEF Labelled
<1>9. weight[p].step + 1 = Len(Append(weight[p].adapter, id)) - 1
  BY <1>2, <1>3, <1>4 DEF Sound
<1>10. Sound(NextCheckpoint(p, id))
  BY <1>7, <1>9 DEF Sound
<1>11. Stepped(p, id) = WeightsOf(NextCheckpoint(p, id))
  BY DEF NextCheckpoint, Saved, WeightsOf, Stepped
<1> QED
  BY <1>6, <1>8, <1>10, <1>11

\* What a rejected step leaves: the state before it, or parameters that are not finite.
LEMMA RejectedLeaves ==
  ASSUME NEW p \in Policies, NEW id \in Ids, StepDiverges(p, id), train \in [Policies -> Holding]
  PROVE  \/ train' = train /\ raised' = raised
         \/ /\ train' = [train EXCEPT ![p] = [adapter |-> Junk, optimizer |-> train[p].optimizer]]
            /\ raised' = raised \cup {p}
<1>1. PICK device \in Devices :
        /\ train' = [train EXCEPT ![p] = Undone(p, id, device)]
        /\ raised' = raised \cup {q \in {p} : device = "cpu"}
  BY DEF StepDiverges, Fails
<1>2. CASE device = "cpu"
  BY <1>1, <1>2 DEF Undone, AdapterBefore
<1>3. CASE device # "cpu"
  <2>1. Undone(p, id, device) = train[p]
    BY <1>3 DEF Undone, AdapterBefore, Holding
  <2> QED
    BY <1>1, <1>3, <2>1
<1> QED
  BY <1>2, <1>3

\* A step keeps the labels true; one whose checkpoint is lost, or that diverges and cannot be
\* undone, marks its policy.
LEMMA UpdateKeeps ==
  ASSUME BInv, NEW p \in Policies, NEW id \in Ids, Update(p, id)
  PROVE  BInv'
<1>1. StepPossible(p, id)
  BY DEF Update, StepOn, StepDiverges, StepUnsaved
<1>2. /\ Stepped(p, id) \in Holding
      /\ NextCheckpoint(p, id) \in Labelled /\ Sound(NextCheckpoint(p, id))
      /\ Stepped(p, id) = WeightsOf(NextCheckpoint(p, id))
  BY <1>1, StepSound
<1>3. CASE StepOn(p, id)
  <2>1. Shape'
    BY <1>2, <1>3 DEF StepOn, BInv, Shape
  <2>2. SoundFiles'
    BY <1>2, <1>3 DEF StepOn, BInv, SoundFiles
  <2>3. AtVersion'
    BY <1>2, <1>3 DEF StepOn, BInv, Shape, AtVersion
  <2>4. Serves'
    BY <1>3 DEF StepOn, BInv, Serves
  <2> QED
    BY <2>1, <2>2, <2>3, <2>4 DEF BInv
<1>4. CASE StepDiverges(p, id)
  <2>1. p \in loaded /\ UNCHANGED <<dirs, artifacts, loaded, weight, served, rollout>>
    BY <1>1, <1>4 DEF StepDiverges, disk, StepPossible, Usable
  <2>2. CASE train' = train /\ raised' = raised
    BY <2>1, <2>2 DEF BInv, Shape, SoundFiles, AtVersion, Serves
  <2>3. CASE /\ train' = [train EXCEPT ![p] = [adapter |-> Junk, optimizer |-> train[p].optimizer]]
             /\ raised' = raised \cup {p}
    <3>1. [adapter |-> Junk, optimizer |-> train[p].optimizer] \in Holding
      BY DEF BInv, Shape, Holding, Histories, Junk
    <3>2. Shape'
      BY <2>1, <2>3, <3>1 DEF BInv, Shape
    <3>3. AtVersion'
      BY <2>1, <2>3 DEF BInv, Shape, AtVersion
    <3>4. SoundFiles' /\ Serves'
      BY <2>1 DEF BInv, SoundFiles, Serves
    <3> QED
      BY <3>2, <3>3, <3>4 DEF BInv
  <2> QED
    BY <1>4, <2>2, <2>3, RejectedLeaves DEF BInv, Shape
<1>5. CASE StepUnsaved(p, id)
  <2>1. raised' = raised \cup {p} /\ p \in loaded
    BY <1>1, <1>5 DEF StepUnsaved, Fails, StepPossible, Usable
  <2>2. Shape'
    BY <1>2, <1>5, <2>1 DEF StepUnsaved, BInv, Shape
  <2>3. AtVersion'
    BY <1>5, <2>1 DEF StepUnsaved, BInv, Shape, AtVersion
  <2>4. SoundFiles' /\ Serves'
    BY <1>5 DEF StepUnsaved, disk, BInv, SoundFiles, Serves
  <2> QED
    BY <2>2, <2>3, <2>4 DEF BInv
<1> QED
  BY <1>3, <1>4, <1>5 DEF Update

-----------------------------------------------------------------------------
(* Synchronization and artifacts                                             *)

\* A synchronization copies what the label says, an artifact comes from verified files.
LEMMA PublishKeeps ==
  ASSUME BInv, NEW p \in Policies, Sync(p) \/ Export(p)
  PROVE  BInv'
<1>1. CASE Sync(p)
  <2>1. train[p] = WeightsOf(weight[p])
    BY <1>1 DEF Sync, Usable, BInv, AtVersion
  <2>2. /\ served' = [served EXCEPT ![p] = train[p].adapter]
        /\ rollout' = [rollout EXCEPT ![p] = weight[p]]
    BY <1>1 DEF Sync, Copied
  <2>3. Shape'
    BY <1>1, <2>2 DEF Sync, BInv, Shape
  <2>4. train[p].adapter = weight[p].adapter
    BY <2>1 DEF WeightsOf
  <2>5. /\ served' = [q \in Policies |-> IF q = p THEN train[p].adapter ELSE served[q]]
        /\ rollout' = [q \in Policies |-> IF q = p THEN weight[p] ELSE rollout[q]]
    BY <2>2 DEF BInv, Shape
  <2>6. Serves'
    BY <2>4, <2>5 DEF BInv, Serves
  <2>7. SoundFiles' /\ AtVersion'
    BY <1>1 DEF Sync, disk, BInv, SoundFiles, AtVersion
  <2> QED
    BY <2>3, <2>6, <2>7 DEF BInv
<1>2. CASE Export(p)
  <2>1. FileOf(weight[p]) = weight[p].adapter
    BY <1>2 DEF Export, Verified, FileOf
  <2>2. artifacts' = artifacts \cup {[of |-> weight[p], holds |-> weight[p].adapter]}
    BY <1>2, <2>1 DEF Export
  <2>3. SoundFiles'
    BY <1>2, <2>2 DEF Export, BInv, SoundFiles
  <2>4. Shape' /\ AtVersion' /\ Serves'
    BY <1>2 DEF Export, BInv, Shape, AtVersion, Serves
  <2> QED
    BY <2>3, <2>4 DEF BInv
<1> QED
  BY <1>1, <1>2

-----------------------------------------------------------------------------
(* Restore and fork                                                          *)

\* The weights of a sound checkpoint can be held.
LEMMA WeightsHeld ==
  ASSUME NEW c \in Labelled
  PROVE  WeightsOf(c) \in Holding /\ WeightsOf(c).adapter = c.adapter
BY DEF Labelled, Holding, WeightsOf

\* A restored policy is at the version of the checkpoint; one half restored is marked.
LEMMA RestoreKeeps ==
  ASSUME BInv, NEW c \in dirs, Restore(c) \/ RestoreFails(c)
  PROVE  BInv'
<1>1. c \in Labelled /\ Sound(c)
  BY DEF BInv, SoundFiles
<1>2. WeightsOf(c) \in Holding
  BY <1>1, WeightsHeld
<1>3. CASE Restore(c)
  <2>1. /\ c.policy \in loaded
        /\ train' = [train EXCEPT ![c.policy] = WeightsOf(c)]
        /\ weight' = [weight EXCEPT ![c.policy] = c]
        /\ raised' = raised \ {c.policy}
        /\ UNCHANGED <<dirs, artifacts, loaded, served, rollout>>
    BY <1>3 DEF Restore, disk
  <2>2. Shape'
    BY <1>1, <1>2, <2>1 DEF BInv, Shape
  <2>3. AtVersion'
    BY <2>1 DEF BInv, Shape, AtVersion
  <2>4. SoundFiles' /\ Serves'
    BY <2>1 DEF BInv, SoundFiles, Serves
  <2> QED
    BY <2>2, <2>3, <2>4 DEF BInv
<1>4. CASE RestoreFails(c)
  <2>1. PICK optimizer \in {train[c.policy].optimizer, c.optimizer} :
          train' = [train EXCEPT ![c.policy] = [adapter |-> c.adapter, optimizer |-> optimizer]]
    BY <1>4 DEF RestoreFails
  <2>2. /\ c.policy \in loaded
        /\ raised' = raised \cup {c.policy}
        /\ UNCHANGED <<dirs, artifacts, loaded, weight, served, rollout>>
    BY <1>4 DEF RestoreFails, Fails, disk
  <2>3. train[c.policy] \in Holding
    BY <2>2 DEF BInv, Shape
  <2>4. [adapter |-> c.adapter, optimizer |-> optimizer] \in Holding
    BY <1>1, <2>3 DEF Labelled, Holding
  <2>5. Shape'
    BY <2>1, <2>2, <2>4 DEF BInv, Shape
  <2>6. AtVersion'
    BY <2>1, <2>2 DEF BInv, Shape, AtVersion
  <2>7. SoundFiles' /\ Serves'
    BY <2>2 DEF BInv, SoundFiles, Serves
  <2> QED
    BY <2>5, <2>6, <2>7 DEF BInv
<1> QED
  BY <1>3, <1>4

\* A fork has the contents and the count of its source.
LEMMA ForkSound ==
  ASSUME NEW c \in Labelled, Sound(c), NEW p \in Policies
  PROVE  /\ Forked(p, c) \in Labelled /\ Sound(Forked(p, c))
         /\ WeightsOf(Forked(p, c)) = WeightsOf(c)
BY DEF Forked, Saved, Labelled, Sound, WeightsOf

\* Every target of a fork is at its own version; those of a failed one are marked.
LEMMA ForkKeeps ==
  ASSUME BInv, NEW c \in dirs, NEW targets \in SUBSET loaded,
         Fork(c, targets) \/ ForkFails(c, targets)
  PROVE  BInv'
<1>1. c \in Labelled /\ Sound(c)
  BY DEF BInv, SoundFiles
<1>2. WeightsOf(c) \in Holding
  BY <1>1, WeightsHeld
<1>3. targets \subseteq Policies
  BY DEF BInv, Shape
<1>4. CASE Fork(c, targets)
  <2>1. /\ train' = [p \in Policies |-> IF p \in targets THEN WeightsOf(c) ELSE train[p]]
        /\ dirs' = dirs \cup {Forked(p, c) : p \in targets}
        /\ weight' = [p \in Policies |-> IF p \in targets THEN Forked(p, c) ELSE weight[p]]
        /\ UNCHANGED <<artifacts, loaded, served, rollout, raised>>
    BY <1>4 DEF Fork
  <2>2. Shape'
    BY <1>1, <1>2, <2>1, ForkSound DEF BInv, Shape
  <2>3. SoundFiles'
    BY <1>1, <1>3, <2>1, ForkSound DEF BInv, SoundFiles
  <2>4. AtVersion'
    BY <1>1, <2>1, ForkSound DEF BInv, AtVersion
  <2>5. Serves'
    BY <2>1 DEF BInv, Serves
  <2> QED
    BY <2>2, <2>3, <2>4, <2>5 DEF BInv
<1>5. CASE ForkFails(c, targets)
  <2>1. PICK over \in SUBSET targets, done \in SUBSET targets :
          /\ train' = [p \in Policies |-> IF p \in over THEN WeightsOf(c) ELSE train[p]]
          /\ dirs' = dirs \cup {Forked(p, c) : p \in done}
          /\ raised' = raised \cup over
    BY <1>5 DEF ForkFails, Fails
  <2>2. UNCHANGED <<artifacts, loaded, weight, served, rollout>>
    BY <1>5 DEF ForkFails
  <2>3. Shape'
    BY <1>2, <2>1, <2>2 DEF BInv, Shape
  <2>4. SoundFiles'
    BY <1>1, <1>3, <2>1, <2>2, ForkSound DEF BInv, SoundFiles
  <2>5. AtVersion'
    BY <2>1, <2>2 DEF BInv, AtVersion
  <2>6. Serves'
    BY <2>2 DEF BInv, Serves
  <2> QED
    BY <2>3, <2>4, <2>5, <2>6 DEF BInv
<1> QED
  BY <1>4, <1>5

-----------------------------------------------------------------------------
\* Every call, failure, damage, launch and end keeps the invariant.
THEOREM BackendStep == BInv /\ [Next]_vars => BInv'
<1> SUFFICES ASSUME BInv, [Next]_vars PROVE BInv'
  OBVIOUS
<1>1. CASE UNCHANGED vars
  BY <1>1 DEF vars, disk, process, BInv, Shape, SoundFiles, AtVersion, Serves
<1>2. CASE Exit \/ \E P \in Topologies : Launch(P)
  BY <1>2, ProcessKeeps
<1>3. CASE \E c \in dirs : Damage(c)
  BY <1>3 DEF Damage, process, BInv, Shape, SoundFiles, AtVersion, Serves
<1>4. CASE \E p \in Policies : Call(p)
  <2>1. PICK p \in Policies : Call(p)
    BY <1>4
  <2>2. CASE UpdatePolicy(p) \/ UpdateSupervised(p)
    BY <2>2, UpdateKeeps DEF UpdatePolicy, UpdateSupervised, Ids
  <2>3. CASE Sync(p) \/ Export(p)
    BY <2>3, PublishKeeps
  <2> QED
    BY <2>1, <2>2, <2>3 DEF Call
<1>5. CASE \E c \in dirs : Restore(c) \/ RestoreFails(c)
  BY <1>5, RestoreKeeps
<1>6. CASE \E c \in dirs, targets \in SUBSET loaded : Fork(c, targets) \/ ForkFails(c, targets)
  BY <1>6, ForkKeeps
<1> QED
  BY <1>1, <1>2, <1>3, <1>4, <1>5, <1>6 DEF Next

\* Checkpoints, artifacts and policies hold what their labels say, for any topologies and
\* any number of failures and damages (local_hf/backend.py, update_policy,
\* restore_checkpoint, fork_checkpoint, export_rollout_artifact).
THEOREM LabelsTrueHolds == Spec => []LabelsTrue
<1>1. BInv => LabelsTrue
  BY DEF BInv, Shape, SoundFiles, AtVersion, Sound, LabelsTrue
<1> QED
  BY BackendInit, BackendStep, <1>1, PTL DEF Spec

\* The rollout adapter holds the weights of the revision it is served under
\* (local_hf/backend.py, sync_rollout_weights).
THEOREM RolloutHoldsAlways == Spec => []RolloutHolds
<1>1. BInv => RolloutHolds
  BY DEF BInv, Shape, Serves, RolloutHolds
<1> QED
  BY BackendInit, BackendStep, <1>1, PTL DEF Spec

-----------------------------------------------------------------------------
(* The types                                                                 *)

\* Contents are an initialization and at most as many steps as the bound allows.
LEMMA ContentsAre ==
  ASSUME NEW w
  PROVE  w \in Contents <=>
           \E p \in Policies, n \in 0 .. MaxSteps : \E s \in [1 .. n -> Ids] : w = <<p>> \o s
<1> DEFINE Tails == UNION {[1 .. n -> Ids] : n \in 0 .. MaxSteps}
<1>1. Contents = {<<p>> \o s : p \in Policies, s \in Tails}
  BY DEF Contents
<1>2. ASSUME NEW s
      PROVE  s \in Tails <=> \E n \in 0 .. MaxSteps : s \in [1 .. n -> Ids]
  BY Zenon
<1> HIDE DEF Tails
<1>3. w \in Contents <=> \E p \in Policies, s \in Tails : w = <<p>> \o s
  BY <1>1
<1> QED
  BY <1>2, <1>3, Zenon

\* The contents of a step's size, and no others, have room for one batch more.
LEMMA ContentsGrow ==
  ASSUME NEW w \in Contents, Len(w) - 1 < MaxSteps, NEW id \in Ids
  PROVE  Append(w, id) \in Contents
<1>1. PICK p \in Policies, n \in 0 .. MaxSteps :
             \E s \in [1 .. n -> Ids] : w = <<p>> \o s
  BY ContentsAre
<1>2. PICK s \in [1 .. n -> Ids] : w = <<p>> \o s
  BY <1>1
<1>3. n \in Nat /\ MaxSteps \in Nat
  BY BackendAssumption
<1>4. s \in Seq(Ids) /\ Len(s) = n
  BY <1>2, <1>3
<1> DEFINE All == Policies \cup Ids
           t == Append(s, id)
<1>5. <<p>> \in Seq(All) /\ s \in Seq(All) /\ id \in All /\ Len(<<p>>) = 1
  BY <1>4
<1>6. Len(w) = 1 + n
  BY <1>2, <1>4, <1>5
<1>7. n + 1 \in 0 .. MaxSteps
  BY <1>3, <1>6
<1>8. t \in Seq(Ids) /\ Len(t) = n + 1
  BY <1>4
<1>9. t \in [1 .. (n + 1) -> Ids]
  BY <1>8, LenProperties
<1>10. Append(w, id) = <<p>> \o t
  <2>1. w \in Seq(All) /\ t \in Seq(All)
    BY <1>2, <1>5
  <2>2. Append(w, id) \in Seq(All) /\ Len(Append(w, id)) = n + 2
    BY <2>1, <1>3, <1>5, <1>6
  <2>3. <<p>> \o t \in Seq(All) /\ Len(<<p>> \o t) = n + 2
    BY <2>1, <1>3, <1>5, <1>8
  <2>4. ASSUME NEW i \in 1 .. n + 2 PROVE Append(w, id)[i] = (<<p>> \o t)[i]
    <3>1. CASE i = n + 2
      BY <3>1, <2>1, <1>3, <1>4, <1>5, <1>6, <1>8
    <3>2. CASE i = 1
      BY <3>2, <2>1, <1>2, <1>3, <1>4, <1>5, <1>6, <1>8
    <3>3. CASE i # 1 /\ i # n + 2
      <4>1. i - 1 \in 1 .. n /\ i \in 1 .. n + 1
        BY <3>3, <1>3
      <4>2. Append(w, id)[i] = w[i] /\ w[i] = s[i - 1]
        BY <3>3, <4>1, <2>1, <1>2, <1>3, <1>4, <1>5, <1>6
      <4>3. (<<p>> \o t)[i] = t[i - 1] /\ t[i - 1] = s[i - 1]
        BY <3>3, <4>1, <2>1, <1>3, <1>4, <1>5, <1>8
      <4> QED
        BY <4>2, <4>3
    <3> QED
      BY <3>1, <3>2, <3>3
  <2> HIDE DEF t, All
  <2> QED
    BY <2>2, <2>3, <2>4, SeqEqual
<1> QED
  BY <1>7, <1>9, <1>10, ContentsAre, Zenon

OnDisk ==
  /\ dirs \subseteq Checkpoint
  /\ damaged \subseteq dirs
  /\ artifacts \subseteq Artifact

InMemory ==
  \A p \in Policies :
    /\ train[p].adapter \in Contents \cup {Junk} /\ train[p].optimizer \in Contents
    /\ weight[p] \in Checkpoint /\ weight[p].policy = p
    /\ rollout[p] \in Checkpoint /\ rollout[p].policy = p
    /\ served[p] \in Contents

Remembered ==
  /\ updates \subseteq Ids
  /\ synced \subseteq Checkpoint
  /\ faults \in 0 .. MaxFaults
  /\ launches \in 0 .. MaxLaunches

\* The types, and what they rest on: a step extends the contents of its label, and the
\* label counts them.
TInv == BInv /\ OnDisk /\ InMemory /\ Remembered

\* The initial checkpoint is one of its policy.
LEMMA InitialTyped ==
  ASSUME NEW p \in Policies
  PROVE  /\ Start(p) \in Contents
         /\ InitialCheckpoint(p) \in Checkpoint /\ InitialCheckpoint(p).policy = p
         /\ Initial(p).adapter \in Contents /\ Initial(p).optimizer \in Contents
<1>1. <<>> \in [1 .. 0 -> Ids] /\ 0 \in 0 .. MaxSteps
  BY BackendAssumption
<1>2. <<p>> = <<p>> \o <<>>
  <2>1. <<p>> \in Seq(Policies) /\ <<>> \in Seq(Policies)
    OBVIOUS
  <2> QED
    BY <2>1
<1>3. Start(p) \in Contents
  BY <1>1, <1>2, ContentsAre, Zenon DEF Start
<1> QED
  BY <1>1, <1>3 DEF Initial, InitialCheckpoint, Saved, Checkpoint

\* Weights of a checkpoint, under the same label or another policy's, are typed.
LEMMA ForkTyped ==
  ASSUME NEW c \in Checkpoint, NEW p \in Policies
  PROVE  /\ WeightsOf(c).adapter \in Contents /\ WeightsOf(c).optimizer \in Contents
         /\ Forked(p, c) \in Checkpoint /\ Forked(p, c).policy = p
BY DEF Checkpoint, WeightsOf, Forked, Saved

\* A step that the bound allows leaves typed contents, and a checkpoint of its policy.
LEMMA StepTyped ==
  ASSUME TInv, NEW p \in Policies, NEW id \in Ids, StepPossible(p, id)
  PROVE  /\ Stepped(p, id).adapter \in Contents /\ Stepped(p, id).optimizer \in Contents
         /\ NextCheckpoint(p, id) \in Checkpoint /\ NextCheckpoint(p, id).policy = p
<1>1. train[p] = WeightsOf(weight[p])
  BY DEF TInv, BInv, AtVersion, StepPossible, Usable
<1>2. weight[p] \in Checkpoint /\ Sound(weight[p])
  BY DEF TInv, BInv, Shape, InMemory
<1>3. weight[p].adapter \in Contents /\ weight[p].step \in 0 .. MaxSteps
  BY <1>2 DEF Checkpoint
<1>4. Len(weight[p].adapter) - 1 < MaxSteps
  BY <1>2 DEF Sound, StepPossible
<1>5. Append(weight[p].adapter, id) \in Contents
  BY <1>3, <1>4, ContentsGrow
<1>6. /\ Stepped(p, id).adapter = Append(weight[p].adapter, id)
      /\ Stepped(p, id).optimizer = Append(weight[p].adapter, id)
  BY <1>1, <1>2 DEF Stepped, WeightsOf, Sound
<1>7. weight[p].step + 1 \in 0 .. MaxSteps
  BY <1>3, BackendAssumption DEF StepPossible
<1>8. NextCheckpoint(p, id) \in Checkpoint /\ NextCheckpoint(p, id).policy = p
  BY <1>5, <1>6, <1>7 DEF NextCheckpoint, Saved, Checkpoint
<1> QED
  BY <1>5, <1>6, <1>8

LEMMA TypesInit == Init => TInv
<1> SUFFICES ASSUME Init PROVE TInv
  OBVIOUS
<1>1. OnDisk
  BY DEF Init, OnDisk
<1>2. InMemory
  BY InitialTyped DEF Init, InMemory
<1>3. Remembered
  BY BackendAssumption DEF Init, Remembered
<1> QED
  BY <1>1, <1>2, <1>3, BackendInit DEF TInv

\* A step, also one that is lost or rejected, leaves memory and disk typed.
LEMMA UpdateTyped ==
  ASSUME TInv, NEW p \in Policies, NEW id \in Ids, Update(p, id)
  PROVE  OnDisk' /\ InMemory' /\ Remembered'
<1>1. StepPossible(p, id)
  BY DEF Update, StepOn, StepDiverges, StepUnsaved
<1>2. /\ Stepped(p, id).adapter \in Contents /\ Stepped(p, id).optimizer \in Contents
      /\ NextCheckpoint(p, id) \in Checkpoint /\ NextCheckpoint(p, id).policy = p
  BY <1>1, StepTyped
<1>3. train \in [Policies -> Holding] /\ weight = [q \in Policies |-> weight[q]]
  BY DEF TInv, BInv, Shape
<1>4. CASE StepOn(p, id)
  <2>1. /\ train' = [train EXCEPT ![p] = Stepped(p, id)]
        /\ dirs' = dirs \cup {NextCheckpoint(p, id)}
        /\ weight' = [weight EXCEPT ![p] = NextCheckpoint(p, id)]
        /\ updates' = updates \cup {id}
        /\ UNCHANGED <<damaged, artifacts, served, rollout, synced, faults, launches>>
    BY <1>4 DEF StepOn
  <2>2. OnDisk'
    BY <1>2, <2>1 DEF TInv, OnDisk
  <2>3. InMemory'
    BY <1>2, <1>3, <2>1 DEF TInv, InMemory
  <2>4. Remembered'
    BY <2>1 DEF TInv, Remembered
  <2> QED
    BY <2>2, <2>3, <2>4
<1>5. CASE StepDiverges(p, id)
  <2>1. \/ train' = train
        \/ train' = [train EXCEPT ![p] = [adapter |-> Junk, optimizer |-> train[p].optimizer]]
    BY <1>3, <1>5, RejectedLeaves
  <2>2. /\ faults < MaxFaults /\ faults' = faults + 1
        /\ UNCHANGED <<dirs, damaged, artifacts, weight, served, rollout, updates, synced,
                       launches>>
    BY <1>5 DEF StepDiverges, Fails, disk
  <2>3. OnDisk' /\ InMemory'
    BY <1>3, <2>1, <2>2 DEF TInv, OnDisk, InMemory
  <2>4. Remembered'
    BY <2>2, BackendAssumption DEF TInv, Remembered
  <2> QED
    BY <2>3, <2>4
<1>6. CASE StepUnsaved(p, id)
  <2>1. /\ train' = [train EXCEPT ![p] = Stepped(p, id)]
        /\ faults < MaxFaults /\ faults' = faults + 1
        /\ UNCHANGED <<dirs, damaged, artifacts, weight, served, rollout, updates, synced,
                       launches>>
    BY <1>6 DEF StepUnsaved, Fails, disk
  <2>2. InMemory'
    BY <1>2, <1>3, <2>1 DEF TInv, InMemory
  <2>3. OnDisk'
    BY <2>1 DEF TInv, OnDisk
  <2>4. Remembered'
    BY <2>1, BackendAssumption DEF TInv, Remembered
  <2> QED
    BY <2>2, <2>3, <2>4
<1> QED
  BY <1>4, <1>5, <1>6 DEF Update

\* What is published is a checkpoint of the policy, and its contents or a damaged file's.
LEMMA PublishTyped ==
  ASSUME TInv, NEW p \in Policies, Sync(p) \/ Export(p)
  PROVE  OnDisk' /\ InMemory' /\ Remembered'
<1>1. CASE Sync(p)
  <2>1. /\ served' = [served EXCEPT ![p] = train[p].adapter]
        /\ rollout' = [rollout EXCEPT ![p] = weight[p]]
        /\ synced' = synced \cup {weight[p]}
        /\ UNCHANGED <<dirs, damaged, artifacts, train, weight, updates, faults, launches>>
    BY <1>1 DEF Sync, Copied, disk
  <2>2. /\ served = [q \in Policies |-> served[q]]
        /\ rollout = [q \in Policies |-> rollout[q]]
    BY DEF TInv, BInv, Shape
  <2>3. train[p] = WeightsOf(weight[p]) /\ weight[p] \in Checkpoint
    BY <1>1 DEF Sync, Usable, TInv, BInv, AtVersion, InMemory
  <2>4. train[p].adapter \in Contents
    BY <2>3 DEF WeightsOf, Checkpoint
  <2>5. InMemory'
    BY <2>1, <2>2, <2>4 DEF TInv, InMemory
  <2>6. OnDisk' /\ Remembered'
    BY <2>1 DEF TInv, InMemory, OnDisk, Remembered
  <2> QED
    BY <2>5, <2>6
<1>2. CASE Export(p)
  <2>1. [of |-> weight[p], holds |-> FileOf(weight[p])] \in Artifact
    BY DEF TInv, InMemory, FileOf, Checkpoint, Artifact
  <2>2. artifacts' = artifacts \cup {[of |-> weight[p], holds |-> FileOf(weight[p])]}
    BY <1>2 DEF Export
  <2>3. UNCHANGED <<dirs, damaged, train, weight, served, rollout, updates, synced, faults,
                    launches>>
    BY <1>2 DEF Export
  <2>4. OnDisk'
    BY <2>1, <2>2, <2>3 DEF TInv, OnDisk
  <2>5. InMemory' /\ Remembered'
    BY <2>3 DEF TInv, InMemory, Remembered
  <2> QED
    BY <2>4, <2>5
<1> QED
  BY <1>1, <1>2

\* A policy is restored from a checkpoint of its own, as a whole or half way.
LEMMA RestoreTyped ==
  ASSUME TInv, NEW c \in dirs, Restore(c) \/ RestoreFails(c)
  PROVE  OnDisk' /\ InMemory' /\ Remembered'
<1>1. c \in Checkpoint /\ c.adapter \in Contents /\ c.optimizer \in Contents
  BY DEF TInv, OnDisk, Checkpoint
<1>2. train \in [Policies -> Holding] /\ weight = [q \in Policies |-> weight[q]]
  BY DEF TInv, BInv, Shape
<1>3. c.policy \in Policies
  BY <1>1 DEF Checkpoint
<1>4. CASE Restore(c)
  <2>1. /\ train' = [train EXCEPT ![c.policy] = WeightsOf(c)]
        /\ weight' = [weight EXCEPT ![c.policy] = c]
        /\ UNCHANGED <<dirs, damaged, artifacts, served, rollout, updates, synced, faults,
                       launches>>
    BY <1>4 DEF Restore, disk
  <2>2. InMemory'
    BY <1>1, <1>2, <1>3, <2>1 DEF TInv, InMemory, WeightsOf
  <2>3. OnDisk' /\ Remembered'
    BY <2>1 DEF TInv, OnDisk, Remembered
  <2> QED
    BY <2>2, <2>3
<1>5. CASE RestoreFails(c)
  <2>1. PICK optimizer \in {train[c.policy].optimizer, c.optimizer} :
          train' = [train EXCEPT ![c.policy] = [adapter |-> c.adapter, optimizer |-> optimizer]]
    BY <1>5 DEF RestoreFails
  <2>2. /\ faults < MaxFaults /\ faults' = faults + 1
        /\ UNCHANGED <<dirs, damaged, artifacts, weight, served, rollout, updates, synced,
                       launches>>
    BY <1>5 DEF RestoreFails, Fails, disk
  <2>3. optimizer \in Contents
    BY <1>1, <1>3 DEF TInv, InMemory
  <2>4. InMemory'
    BY <1>1, <1>2, <1>3, <2>1, <2>2, <2>3 DEF TInv, InMemory
  <2>5. OnDisk'
    BY <2>2 DEF TInv, OnDisk
  <2>6. Remembered'
    BY <2>2, BackendAssumption DEF TInv, Remembered
  <2> QED
    BY <2>4, <2>5, <2>6
<1> QED
  BY <1>4, <1>5

\* The targets of a fork hold the source's weights and are labelled with forks of their own.
LEMMA ForkKeepsTypes ==
  ASSUME TInv, NEW c \in dirs, NEW targets \in SUBSET loaded,
         Fork(c, targets) \/ ForkFails(c, targets)
  PROVE  OnDisk' /\ InMemory' /\ Remembered'
<1>1. c \in Checkpoint
  BY DEF TInv, OnDisk
<1>2. targets \subseteq Policies
  BY DEF TInv, BInv, Shape
<1>3. CASE Fork(c, targets)
  <2>1. /\ train' = [p \in Policies |-> IF p \in targets THEN WeightsOf(c) ELSE train[p]]
        /\ dirs' = dirs \cup {Forked(p, c) : p \in targets}
        /\ weight' = [p \in Policies |-> IF p \in targets THEN Forked(p, c) ELSE weight[p]]
        /\ UNCHANGED <<damaged, artifacts, served, rollout, updates, synced, faults,
                       launches>>
    BY <1>3 DEF Fork
  <2>2. InMemory'
    BY <1>1, <2>1, ForkTyped DEF TInv, InMemory
  <2>3. OnDisk'
    BY <1>1, <1>2, <2>1, ForkTyped DEF TInv, OnDisk
  <2>4. Remembered'
    BY <2>1 DEF TInv, Remembered
  <2> QED
    BY <2>2, <2>3, <2>4
<1>4. CASE ForkFails(c, targets)
  <2>1. PICK over \in SUBSET targets, done \in SUBSET targets :
          /\ train' = [p \in Policies |-> IF p \in over THEN WeightsOf(c) ELSE train[p]]
          /\ dirs' = dirs \cup {Forked(p, c) : p \in done}
          /\ faults < MaxFaults /\ faults' = faults + 1
    BY <1>4 DEF ForkFails, Fails
  <2>2. UNCHANGED <<damaged, artifacts, weight, served, rollout, updates, synced, launches>>
    BY <1>4 DEF ForkFails
  <2>3. InMemory'
    BY <1>1, <2>1, <2>2, ForkTyped DEF TInv, InMemory
  <2>4. OnDisk'
    BY <1>1, <1>2, <2>1, <2>2, ForkTyped DEF TInv, OnDisk
  <2>5. Remembered'
    BY <2>1, <2>2, BackendAssumption DEF TInv, Remembered
  <2> QED
    BY <2>3, <2>4, <2>5
<1> QED
  BY <1>3, <1>4

\* A new process is initialized, an ended one forgets.
LEMMA ProcessTyped ==
  ASSUME TInv, Exit \/ \E P \in Topologies : Launch(P)
  PROVE  OnDisk' /\ InMemory' /\ Remembered'
<1>1. CASE Exit
  <2>1. OnDisk'
    BY <1>1 DEF Exit, disk, TInv, OnDisk
  <2>2. InMemory'
    BY <1>1, InitialTyped DEF Exit, InMemory
  <2>3. Remembered'
    BY <1>1 DEF Exit, TInv, Remembered
  <2> QED
    BY <2>1, <2>2, <2>3
<1>2. ASSUME NEW P \in Topologies, Launch(P) PROVE OnDisk' /\ InMemory' /\ Remembered'
  <2>1. P \subseteq Policies
    BY BackendAssumption
  <2>2. OnDisk'
    BY <1>2, <2>1, InitialTyped DEF Launch, TInv, OnDisk
  <2>3. InMemory'
    BY <1>2 DEF Launch, TInv, InMemory
  <2>4. Remembered'
    BY <1>2, BackendAssumption DEF Launch, TInv, Remembered
  <2> QED
    BY <2>2, <2>3, <2>4
<1> QED
  BY <1>1, <1>2

\* Every call, failure, damage, launch and end keeps the types.
THEOREM TypesStep == TInv /\ [Next]_vars => TInv'
<1> SUFFICES ASSUME TInv, [Next]_vars PROVE TInv'
  OBVIOUS
<1>1. BInv'
  BY BackendStep DEF TInv
<1> SUFFICES OnDisk' /\ InMemory' /\ Remembered'
  BY <1>1 DEF TInv
<1>2. CASE UNCHANGED vars
  BY <1>2 DEF vars, disk, process, TInv, OnDisk, InMemory, Remembered
<1>3. CASE Exit \/ \E P \in Topologies : Launch(P)
  BY <1>3, ProcessTyped
<1>4. ASSUME NEW c \in dirs, Damage(c) PROVE OnDisk' /\ InMemory' /\ Remembered'
  <2>1. OnDisk' /\ InMemory'
    BY <1>4 DEF Damage, process, TInv, OnDisk, InMemory
  <2>2. Remembered'
    BY <1>4, BackendAssumption DEF Damage, process, TInv, Remembered
  <2> QED
    BY <2>1, <2>2
<1>5. CASE \E p \in Policies : Call(p)
  <2>1. PICK p \in Policies : Call(p)
    BY <1>5
  <2>2. CASE UpdatePolicy(p) \/ UpdateSupervised(p)
    BY <2>2, UpdateTyped DEF UpdatePolicy, UpdateSupervised, Ids
  <2>3. CASE Sync(p) \/ Export(p)
    BY <2>3, PublishTyped
  <2> QED
    BY <2>1, <2>2, <2>3 DEF Call
<1>6. CASE \E c \in dirs : Restore(c) \/ RestoreFails(c)
  BY <1>6, RestoreTyped
<1>7. CASE \E c \in dirs, targets \in SUBSET loaded : Fork(c, targets) \/ ForkFails(c, targets)
  BY <1>7, ForkKeepsTypes
<1> QED
  BY <1>2, <1>3, <1>4, <1>5, <1>6, <1>7 DEF Next

\* Files, adapters, optimizers and labels have their types, and every policy is labelled with
\* and serves checkpoints of its own, whatever failed (local_hf/backend.py, the backend's
\* state per policy).
THEOREM TypeCorrect == Spec => []TypeOK
<1>1. TInv => TypeOK
  BY DEF TInv, BInv, Shape, OnDisk, InMemory, Remembered, TypeOK
<1> QED
  BY TypesInit, TypesStep, <1>1, PTL DEF Spec

\* Nothing is saved, exported, restored or served under the name of other weights, for any
\* topologies and any number of failures, damages and processes (local_hf/backend.py).
THEOREM NamesWhatItHoldsAlways == Spec => []NamesWhatItHolds
  BY TypeCorrect, LabelsTrueHolds, RolloutHoldsAlways, PTL DEF NamesWhatItHolds

-----------------------------------------------------------------------------
(* The contract                                                              *)

\* A policy no process has loaded is as a fresh process draws it.
Undrawn ==
  \A p \in Policies \ loaded :
    weight[p] = InitialCheckpoint(p) /\ rollout[p] = InitialCheckpoint(p)

\* The policies a process has not loaded stay as they are.
LEMMA UndrawnStep == TInv /\ Undrawn /\ [Next]_vars => Undrawn'
<1> SUFFICES ASSUME TInv, Undrawn, [Next]_vars PROVE Undrawn'
  OBVIOUS
<1>1. loaded \subseteq Policies /\ weight = [q \in Policies |-> weight[q]]
      /\ rollout = [q \in Policies |-> rollout[q]]
  BY DEF TInv, BInv, Shape
<1>2. CASE UNCHANGED vars
  BY <1>2 DEF vars, process, Undrawn
<1>3. CASE Exit \/ \E P \in Topologies : Launch(P)
  BY <1>3 DEF Exit, Launch, Undrawn
<1>4. CASE \E c \in dirs : Damage(c)
  BY <1>4 DEF Damage, process, Undrawn
<1>5. CASE \E p \in Policies : Call(p)
  <2>1. PICK p \in Policies : Call(p)
    BY <1>5
  <2>2. p \in loaded /\ UNCHANGED loaded
    BY <2>1 DEF Call, UpdatePolicy, UpdateSupervised, Update, StepOn, StepDiverges,
      StepUnsaved, StepPossible, Usable, Sync, Export
  <2>3. \A q \in Policies \ {p} : weight'[q] = weight[q] /\ rollout'[q] = rollout[q]
    BY <1>1, <2>1 DEF Call, UpdatePolicy, UpdateSupervised, Update, StepOn, StepDiverges,
      StepUnsaved, Sync, Export
  <2> QED
    BY <2>2, <2>3 DEF Undrawn
<1>6. CASE \E c \in dirs : Restore(c) \/ RestoreFails(c)
  BY <1>1, <1>6 DEF Restore, RestoreFails, Undrawn
<1>7. CASE \E c \in dirs, targets \in SUBSET loaded : Fork(c, targets) \/ ForkFails(c, targets)
  BY <1>1, <1>7 DEF Fork, ForkFails, Undrawn
<1> QED
  BY <1>2, <1>3, <1>4, <1>5, <1>6, <1>7 DEF Next

\* Nothing goes under the name of other contents, so callers are told what the labels say.
LEMMA ToldAsLabelled ==
  ASSUME BInv
  PROVE  /\ Versions = [p \in Policies |-> weight[p].adapter]
         /\ ServedVersions = [p \in Policies |-> rollout[p].adapter]
         /\ Exports = Copies({a.of : a \in artifacts})
<1>1. \A p \in Policies : VersionOf(p) = weight[p].adapter /\ ServedOf(p) = rollout[p].adapter
  BY DEF BInv, AtVersion, Serves, VersionOf, ServedOf
<1>2. \A a \in artifacts : ExportOf(a) = CopyOf(a.of)
  BY DEF BInv, SoundFiles, ExportOf, CopyOf
<1> QED
  BY <1>1, <1>2 DEF Versions, ServedVersions, Exports, Copies

LEMMA ToldAsLabelledNext ==
  ASSUME BInv'
  PROVE  /\ Versions' = [p \in Policies |-> weight'[p].adapter]
         /\ ServedVersions' = [p \in Policies |-> rollout'[p].adapter]
         /\ Exports' = Copies({a.of : a \in artifacts'})
<1>1. \A p \in Policies :
        VersionOf(p)' = weight'[p].adapter /\ ServedOf(p)' = rollout'[p].adapter
  BY DEF BInv, AtVersion, Serves, VersionOf, ServedOf
<1>2. \A a \in artifacts' : ExportOf(a) = CopyOf(a.of)
  BY DEF BInv, SoundFiles, ExportOf, CopyOf
<1> QED
  BY <1>1, <1>2 DEF Versions, ServedVersions, Exports, Copies

\* A checkpoint is determined by its policy and its weights, so a verified one is whole.
LEMMA VerifiedWhole ==
  ASSUME TInv, NEW c \in dirs, Verified(c)
  PROVE  CopyOf(c) \in Contract!Whole
<1>1. CopyOf(c) \in Copies(dirs)
  BY DEF Copies
<1>2. ASSUME NEW d \in damaged, CopyOf(d) = CopyOf(c) PROVE FALSE
  <2>1. d \in dirs
    BY DEF TInv, OnDisk
  <2>2. c \in Labelled /\ d \in Labelled /\ Sound(c) /\ Sound(d)
    BY <2>1 DEF TInv, BInv, SoundFiles
  <2>3. c.policy = d.policy /\ c.adapter = d.adapter
    BY <1>2 DEF CopyOf
  <2>4. c.step = d.step /\ c.optimizer = d.optimizer
    BY <2>2, <2>3 DEF Sound
  <2>5. c = d
    BY <2>2, <2>3, <2>4 DEF Labelled
  <2> QED
    BY <2>5 DEF Verified
<1> QED
  BY <1>1, <1>2 DEF Contract!Whole, Copies

\* Copies of more checkpoints are more copies.
LEMMA CopiesGrow ==
  ASSUME NEW S, NEW T
  PROVE  Copies(S \cup T) = Copies(S) \cup Copies(T)
BY DEF Copies

\* The checkpoint of a step and the forks are copies of what the policies are at.
LEMMA CopiesOfPolicies ==
  ASSUME NEW p, NEW step, NEW w, NEW c
  PROVE  /\ CopyOf(Saved(p, step, w)) = Contract!Copy(p, w.adapter)
         /\ CopyOf(Forked(p, c)) = Contract!Copy(p, c.adapter)
BY DEF CopyOf, Saved, Forked, WeightsOf, Contract!Copy

\* A process begins with what it drew and saved.
LEMMA LaunchBegins ==
  ASSUME TInv, TInv', Undrawn, NEW P \in Topologies, Launch(P)
  PROVE  [Contract!Next]_Contract!contract
<1>1. /\ loaded = {} /\ loaded' = P
      /\ dirs' = dirs \cup {InitialCheckpoint(p) : p \in P}
      /\ UNCHANGED <<damaged, artifacts, train, weight, served, rollout, updates, raised>>
  BY DEF Launch
<1>2. P \subseteq Policies
  BY BackendAssumption
<1>3. /\ \A p \in Policies : weight[p].adapter = Start(p) /\ rollout[p].adapter = Start(p)
      /\ Versions' = Versions /\ ServedVersions' = ServedVersions /\ Exports' = Exports
  <2>1. \A p \in Policies : weight[p].adapter = Start(p) /\ rollout[p].adapter = Start(p)
    BY <1>1, InitialSound DEF Undrawn
  <2> QED
    BY <1>1, <2>1, ToldAsLabelled, ToldAsLabelledNext DEF TInv
<1>4. Copies(damaged)' = Copies(damaged)
  BY <1>1 DEF Copies
<1>5. Copies(dirs)' = Copies(dirs) \cup {Contract!Copy(p, Start(p)) : p \in P}
  <2>1. Copies(dirs') = Copies(dirs) \cup Copies({InitialCheckpoint(p) : p \in P})
    BY <1>1, CopiesGrow
  <2>2. \A p \in P : CopyOf(InitialCheckpoint(p)) = Contract!Copy(p, Start(p))
    BY CopiesOfPolicies DEF InitialCheckpoint, Initial
  <2>3. Copies({InitialCheckpoint(p) : p \in P}) = {Contract!Copy(p, Start(p)) : p \in P}
    BY <2>2 DEF Copies
  <2> QED
    BY <2>1, <2>3 DEF Copies
<1>6. CASE P = {}
  <2>1. Copies(dirs)' = Copies(dirs)
    BY <1>5, <1>6
  <2> QED
    BY <1>1, <1>3, <1>4, <1>6, <2>1 DEF Contract!contract
<1>7. CASE P # {}
  <2> DEFINE none == [p \in {} |-> InitialCheckpoint(p)]
  <2>1. none \in Contract!Loads(P) /\ DOMAIN none = {}
    BY DEF Contract!Loads
  <2>2. /\ Versions' = [p \in Policies |-> IF p \in DOMAIN none THEN none[p].weights
                                                                ELSE Start(p)]
        /\ ServedVersions' = [p \in Policies |-> IF p \in {} THEN Start(p) ELSE Versions'[p]]
    BY <1>1, <1>3, <2>1, ToldAsLabelled DEF TInv
  <2>3. \E load \in Contract!Loads(P), behind \in SUBSET Policies :
          /\ Versions' = [p \in Policies |-> IF p \in DOMAIN load THEN load[p].weights
                                                                  ELSE Start(p)]
          /\ ServedVersions' = [p \in Policies |-> IF p \in behind THEN Start(p)
                                                                   ELSE Versions'[p]]
    <3> HIDE DEF none
    <3> QED
      BY <2>1, <2>2
  <2>4. Contract!Begin(P)
    BY <1>1, <1>3, <1>4, <1>5, <2>3 DEF Contract!Begin
  <2> QED
    BY <1>2, <2>4 DEF Contract!Next
<1> QED
  BY <1>6, <1>7

\* A process that ends leaves its files.
LEMMA ExitEnds ==
  ASSUME TInv, TInv', Exit
  PROVE  Contract!End
<1>1. /\ loaded # {} /\ loaded' = {} /\ updates' = {} /\ raised' = {}
      /\ weight' = [p \in Policies |-> InitialCheckpoint(p)]
      /\ rollout' = [p \in Policies |-> InitialCheckpoint(p)]
      /\ UNCHANGED <<dirs, damaged, artifacts>>
  BY DEF Exit, disk
<1>2. \A p \in Policies : InitialCheckpoint(p).adapter = Start(p)
  BY InitialSound
<1>3. Versions' = Contract!AllFresh /\ ServedVersions' = Contract!AllFresh
  BY <1>1, <1>2, ToldAsLabelledNext DEF TInv, Contract!AllFresh
<1>4. UNCHANGED <<Copies(dirs), Copies(damaged), Exports>>
  BY <1>1, ToldAsLabelled, ToldAsLabelledNext DEF TInv, Copies
<1> QED
  BY <1>1, <1>3, <1>4 DEF Contract!End


\* A damaged checkpoint is lost; it stays on disk.
LEMMA DamageLoses ==
  ASSUME TInv, TInv', NEW c \in dirs, Damage(c)
  PROVE  Contract!Next
<1>1. /\ damaged' = damaged \cup {c}
      /\ UNCHANGED <<dirs, artifacts, loaded, train, weight, served, rollout, updates, raised>>
  BY DEF Damage, process
<1>2. CopyOf(c) \in Copies(dirs)
  BY DEF Copies
<1>3. Copies(damaged)' = Copies(damaged) \cup {CopyOf(c)}
  BY <1>1 DEF Copies
<1>4. UNCHANGED <<Versions, ServedVersions, Exports, Copies(dirs)>>
  BY <1>1, ToldAsLabelled, ToldAsLabelledNext DEF TInv, Copies
<1>5. Contract!Lose(CopyOf(c))
  BY <1>1, <1>3, <1>4 DEF Contract!Lose
<1> QED
  BY <1>2, <1>5 DEF Contract!Next

\* An update is a step; one that is rejected is undone or, like one that could not be saved,
\* breaks its policy.
LEMMA UpdateSteps ==
  ASSUME TInv, TInv', NEW p \in Policies, NEW id \in Ids, Update(p, id)
  PROVE  [Contract!Next]_Contract!contract
<1>1. StepPossible(p, id)
  BY DEF Update, StepOn, StepDiverges, StepUnsaved
<1>2. p \in loaded /\ p \in Contract!Usable /\ id \notin updates
  BY <1>1 DEF StepPossible, Usable, Contract!Usable
<1>3. weight = [q \in Policies |-> weight[q]] /\ train \in [Policies -> Holding]
  BY DEF TInv, BInv, Shape
<1>4. CASE StepOn(p, id)
  <2>1. /\ dirs' = dirs \cup {NextCheckpoint(p, id)}
        /\ weight' = [weight EXCEPT ![p] = NextCheckpoint(p, id)]
        /\ updates' = updates \cup {id}
        /\ UNCHANGED <<damaged, artifacts, loaded, rollout, raised>>
    BY <1>4 DEF StepOn
  <2>2. NextCheckpoint(p, id).adapter = Append(Versions[p], id)
    <3>1. train[p] = WeightsOf(weight[p])
      BY <1>2 DEF Contract!Usable, TInv, BInv, AtVersion
    <3>2. Versions[p] = weight[p].adapter
      BY ToldAsLabelled DEF TInv
    <3> QED
      BY <3>1, <3>2 DEF NextCheckpoint, Saved, Stepped, WeightsOf
  <2> DEFINE w == Append(Versions[p], id)
  <2>3. w \in OneMore(Versions[p], id)
    BY DEF OneMore
  <2>4. Versions' = [Versions EXCEPT ![p] = w]
    BY <1>3, <2>1, <2>2, ToldAsLabelled, ToldAsLabelledNext DEF TInv
  <2>5. Copies(dirs)' = Copies(dirs) \cup {Contract!Copy(p, w)}
    <3>1. Copies(dirs') = Copies(dirs) \cup Copies({NextCheckpoint(p, id)})
      BY <2>1, CopiesGrow
    <3>2. CopyOf(NextCheckpoint(p, id)) = Contract!Copy(p, w)
      BY <2>2 DEF NextCheckpoint, Saved, CopyOf, Contract!Copy
    <3> QED
      BY <3>1, <3>2 DEF Copies
  <2>6. UNCHANGED <<ServedVersions, Exports, Copies(damaged)>>
    BY <2>1, ToldAsLabelled, ToldAsLabelledNext DEF TInv, Copies
  <2>7. Contract!Step(p, id)
    <3> HIDE DEF w
    <3> QED
      BY <1>2, <2>1, <2>3, <2>4, <2>5, <2>6 DEF Contract!Step
  <2> QED
    BY <1>2, <2>7 DEF Contract!Next
<1>5. CASE StepDiverges(p, id)
  <2>1. UNCHANGED <<dirs, damaged, artifacts, loaded, weight, rollout, updates>>
    BY <1>5 DEF StepDiverges, disk
  <2>2. UNCHANGED <<Versions, ServedVersions, Exports, Copies(dirs), Copies(damaged)>>
    BY <2>1, ToldAsLabelled, ToldAsLabelledNext DEF TInv, Copies
  <2>3. CASE raised' = raised
    BY <2>1, <2>2, <2>3 DEF Contract!contract
  <2>4. CASE raised' = raised \cup {p}
    <3>1. Contract!Break({p})
      BY <1>2, <2>1, <2>2, <2>4 DEF Contract!Break
    <3> QED
      BY <1>2, <3>1 DEF Contract!Next
  <2> QED
    BY <1>3, <1>5, <2>3, <2>4, RejectedLeaves
<1>6. CASE StepUnsaved(p, id)
  <2>1. /\ raised' = raised \cup {p}
        /\ UNCHANGED <<dirs, damaged, artifacts, loaded, weight, rollout, updates>>
    BY <1>6 DEF StepUnsaved, Fails, disk
  <2>2. UNCHANGED <<Versions, ServedVersions, Exports, Copies(dirs), Copies(damaged)>>
    BY <2>1, ToldAsLabelled, ToldAsLabelledNext DEF TInv, Copies
  <2>3. Contract!Break({p})
    BY <1>2, <2>1, <2>2 DEF Contract!Break
  <2> QED
    BY <1>2, <2>3 DEF Contract!Next
<1> QED
  BY <1>4, <1>5, <1>6 DEF Update

\* A synchronization serves the version, an export hands out its whole checkpoint.
LEMMA PublishServes ==
  ASSUME TInv, TInv', NEW p \in Policies, Sync(p) \/ Export(p)
  PROVE  Contract!Next
<1>1. p \in loaded /\ p \in Contract!Usable
  BY DEF Sync, Export, Usable, Contract!Usable
<1>2. CASE Sync(p)
  <2>1. /\ rollout' = [rollout EXCEPT ![p] = weight[p]]
        /\ UNCHANGED <<dirs, damaged, artifacts, loaded, weight, updates, raised>>
    BY <1>2 DEF Sync, disk
  <2>2. ServedVersions' = [ServedVersions EXCEPT ![p] = Versions[p]]
    <3>1. rollout = [q \in Policies |-> rollout[q]]
      BY DEF TInv, BInv, Shape
    <3> QED
      BY <2>1, <3>1, ToldAsLabelled, ToldAsLabelledNext DEF TInv
  <2>3. UNCHANGED <<Versions, Exports, Copies(dirs), Copies(damaged)>>
    BY <2>1, ToldAsLabelled, ToldAsLabelledNext DEF TInv, Copies
  <2>4. Contract!Serve(p)
    BY <1>1, <2>1, <2>2, <2>3 DEF Contract!Serve
  <2> QED
    BY <1>1, <2>4 DEF Contract!Next
<1>3. CASE Export(p)
  <2> DEFINE a == [of |-> weight[p], holds |-> FileOf(weight[p])]
  <2>1. /\ artifacts' = artifacts \cup {a} /\ Verified(weight[p])
        /\ UNCHANGED <<dirs, damaged, loaded, weight, rollout, updates, raised>>
    BY <1>3 DEF Export
  <2>2. CopyOf(weight[p]) = Contract!Copy(p, Versions[p])
    BY ToldAsLabelled DEF TInv, InMemory, CopyOf, Contract!Copy
  <2>3. Contract!Copy(p, Versions[p]) \in Contract!Whole
    BY <2>1, <2>2, VerifiedWhole DEF Verified
  <2>4. Exports' = Exports \cup {Contract!Copy(p, Versions[p])}
    <3>1. {b.of : b \in artifacts'} = {b.of : b \in artifacts} \cup {weight[p]}
      <4>1. a.of = weight[p]
        OBVIOUS
      <4> HIDE DEF a
      <4> QED
        BY <2>1, <4>1
    <3>2. Copies({b.of : b \in artifacts'})
            = Copies({b.of : b \in artifacts}) \cup Copies({weight[p]})
      BY <3>1, CopiesGrow
    <3>3. Copies({weight[p]}) = {CopyOf(weight[p])}
      BY DEF Copies
    <3> QED
      BY <2>2, <3>2, <3>3, ToldAsLabelled, ToldAsLabelledNext DEF TInv
  <2>5. UNCHANGED <<Versions, ServedVersions, Copies(dirs), Copies(damaged)>>
    BY <2>1, ToldAsLabelled, ToldAsLabelledNext DEF TInv, Copies
  <2>6. Contract!Export(p)
    BY <1>1, <2>1, <2>3, <2>4, <2>5 DEF Contract!Export
  <2> QED
    BY <1>1, <2>6 DEF Contract!Next
<1> QED
  BY <1>2, <1>3

\* A policy is restored to a whole checkpoint, or broken.
LEMMA RestoreRestores ==
  ASSUME TInv, TInv', NEW c \in dirs, Restore(c) \/ RestoreFails(c)
  PROVE  Contract!Next
<1>1. c.policy \in loaded /\ CopyOf(c) \in Contract!Whole
  BY VerifiedWhole DEF Restore, RestoreFails
<1>2. c.policy \in Policies /\ CopyOf(c).policy = c.policy /\ CopyOf(c).weights = c.adapter
  BY DEF TInv, OnDisk, Checkpoint, CopyOf
<1>3. weight = [q \in Policies |-> weight[q]]
  BY DEF TInv, BInv, Shape
<1>4. CASE Restore(c)
  <2>1. /\ weight' = [weight EXCEPT ![c.policy] = c]
        /\ raised' = raised \ {c.policy}
        /\ UNCHANGED <<dirs, damaged, artifacts, loaded, rollout, updates>>
    BY <1>4 DEF Restore, disk
  <2>2. Versions' = [Versions EXCEPT ![c.policy] = c.adapter]
    BY <1>2, <1>3, <2>1, ToldAsLabelled, ToldAsLabelledNext DEF TInv
  <2>3. UNCHANGED <<ServedVersions, Exports, Copies(dirs), Copies(damaged)>>
    BY <2>1, ToldAsLabelled, ToldAsLabelledNext DEF TInv, Copies
  <2>4. Contract!Restore(CopyOf(c))
    BY <1>1, <1>2, <2>1, <2>2, <2>3 DEF Contract!Restore
  <2> QED
    BY <1>1, <2>4 DEF Contract!Next
<1>5. CASE RestoreFails(c)
  <2>1. /\ raised' = raised \cup {c.policy}
        /\ UNCHANGED <<dirs, damaged, artifacts, loaded, weight, rollout, updates>>
    BY <1>5 DEF RestoreFails, Fails, disk
  <2>2. UNCHANGED <<Versions, ServedVersions, Exports, Copies(dirs), Copies(damaged)>>
    BY <2>1, ToldAsLabelled, ToldAsLabelledNext DEF TInv, Copies
  <2>3. Contract!Break({c.policy})
    BY <1>1, <2>1, <2>2 DEF Contract!Break
  <2> QED
    BY <1>1, <2>3 DEF Contract!Next
<1> QED
  BY <1>4, <1>5

\* The targets of a fork get copies of their own; those of one that fails are broken.
LEMMA ForkForks ==
  ASSUME TInv, TInv', NEW c \in dirs, NEW targets \in SUBSET loaded,
         Fork(c, targets) \/ ForkFails(c, targets)
  PROVE  Contract!Next
<1>1. /\ CopyOf(c) \in Contract!Whole
      /\ CopyOf(c).policy = c.policy /\ CopyOf(c).weights = c.adapter
  BY VerifiedWhole DEF Fork, ForkFails, CopyOf
<1>2. targets \subseteq Contract!Usable \ {c.policy}
  BY DEF Fork, ForkFails, Usable, Contract!Usable
<1>3. \A p : Forked(p, c).adapter = c.adapter
  BY DEF Forked, Saved, WeightsOf
<1>4. ASSUME NEW S
      PROVE  Copies(dirs \cup {Forked(p, c) : p \in S})
               = Copies(dirs) \cup {Contract!Copy(p, c.adapter) : p \in S}
  <2>1. Copies({Forked(p, c) : p \in S}) = {Contract!Copy(p, c.adapter) : p \in S}
    BY CopiesOfPolicies DEF Copies
  <2> QED
    BY <2>1, CopiesGrow
<1>5. CASE Fork(c, targets)
  <2>1. /\ dirs' = dirs \cup {Forked(p, c) : p \in targets}
        /\ weight' = [p \in Policies |-> IF p \in targets THEN Forked(p, c) ELSE weight[p]]
        /\ UNCHANGED <<damaged, artifacts, loaded, rollout, updates, raised>>
    BY <1>5 DEF Fork
  <2>2. Versions' = [p \in Policies |-> IF p \in targets THEN c.adapter ELSE Versions[p]]
    BY <1>3, <2>1, ToldAsLabelled, ToldAsLabelledNext DEF TInv
  <2>3. Copies(dirs)' = Copies(dirs) \cup {Contract!Copy(p, c.adapter) : p \in targets}
    BY <1>4, <2>1 DEF Copies
  <2>4. UNCHANGED <<ServedVersions, Exports, Copies(damaged)>>
    BY <2>1, ToldAsLabelled, ToldAsLabelledNext DEF TInv, Copies
  <2>5. Contract!Fork(CopyOf(c), targets)
    BY <1>1, <1>2, <2>1, <2>2, <2>3, <2>4 DEF Contract!Fork
  <2> QED
    BY <1>1, <2>5 DEF Contract!Next
<1>6. CASE ForkFails(c, targets)
  <2>1. PICK over \in (SUBSET targets) \ {{}}, done \in SUBSET targets :
          /\ done # {} => over = targets
          /\ dirs' = dirs \cup {Forked(p, c) : p \in done}
          /\ raised' = raised \cup over
    BY <1>6 DEF ForkFails, Fails
  <2>2. UNCHANGED <<damaged, artifacts, loaded, weight, rollout, updates>>
    BY <1>6 DEF ForkFails
  <2>3. UNCHANGED <<Versions, ServedVersions, Exports, Copies(damaged)>>
    BY <2>2, ToldAsLabelled, ToldAsLabelledNext DEF TInv, Copies
  <2>4. Copies(dirs)' = Copies(dirs) \cup {Contract!Copy(p, CopyOf(c).weights) : p \in done}
    BY <1>1, <1>4, <2>1 DEF Copies
  <2>5. done \in SUBSET over /\ over \in SUBSET loaded /\ over # {}
    BY <2>1
  <2>6. Contract!Break(over)
    BY <1>1, <2>1, <2>2, <2>3, <2>4, <2>5 DEF Contract!Break
  <2> QED
    BY <2>5, <2>6 DEF Contract!Next
<1> QED
  BY <1>5, <1>6

\* Every step of the backend is one of the contract, or leaves it as it is.
LEMMA ContractStep ==
  TInv /\ TInv' /\ Undrawn /\ [Next]_vars => [Contract!Next]_Contract!contract
<1> SUFFICES ASSUME TInv, TInv', Undrawn, [Next]_vars
             PROVE  [Contract!Next]_Contract!contract
  OBVIOUS
<1>1. CASE UNCHANGED vars
  <2>1. UNCHANGED <<dirs, damaged, artifacts, loaded, weight, rollout, updates, raised>>
    BY <1>1 DEF vars, disk, process
  <2>2. UNCHANGED <<Versions, ServedVersions, Exports, Copies(dirs), Copies(damaged)>>
    BY <2>1, ToldAsLabelled, ToldAsLabelledNext DEF TInv, Copies
  <2> QED
    BY <2>1, <2>2 DEF Contract!contract
<1>2. CASE \E P \in Topologies : Launch(P)
  BY <1>2, LaunchBegins
<1>3. CASE Exit
  BY <1>3, ExitEnds DEF Contract!Next
<1>4. CASE \E c \in dirs : Damage(c)
  BY <1>4, DamageLoses
<1>5. CASE \E p \in Policies : Call(p)
  <2>1. PICK p \in Policies : Call(p)
    BY <1>5
  <2>2. CASE UpdatePolicy(p) \/ UpdateSupervised(p)
    BY <2>2, UpdateSteps DEF UpdatePolicy, UpdateSupervised, Ids
  <2>3. CASE Sync(p) \/ Export(p)
    BY <2>3, PublishServes
  <2> QED
    BY <2>1, <2>2, <2>3 DEF Call
<1>6. CASE \E c \in dirs : Restore(c) \/ RestoreFails(c)
  BY <1>6, RestoreRestores
<1>7. CASE \E c \in dirs, targets \in SUBSET loaded : Fork(c, targets) \/ ForkFails(c, targets)
  BY <1>7, ForkForks
<1> QED
  BY <1>1, <1>2, <1>3, <1>4, <1>5, <1>6, <1>7 DEF Next

\* The LocalHF backend does what the transactions rely on, whatever fails half way or is
\* damaged, over any topologies and processes (training/base.py, TrainingBackend;
\* local_hf/backend.py).
THEOREM ContractHolds == Spec => ContractKept
<1>1. Init => TInv /\ Undrawn
  BY TypesInit DEF Init, Undrawn
<1>2. TInv /\ Undrawn /\ [Next]_vars => (TInv /\ Undrawn)'
  BY TypesStep, UndrawnStep
<1>3. Init => Contract!Init
  <2> SUFFICES ASSUME Init PROVE Contract!Init
    OBVIOUS
  <2>1. Versions = Contract!AllFresh /\ ServedVersions = Contract!AllFresh
    BY ToldAsLabelled, BackendInit, InitialSound DEF Init, Contract!AllFresh
  <2>2. Copies(dirs) = {} /\ Copies(damaged) = {} /\ Exports = {}
    BY DEF Init, Copies, Exports
  <2> QED
    BY <2>1, <2>2 DEF Init, Contract!Init
<1>4. TInv /\ TInv' /\ Undrawn /\ [Next]_vars => [Contract!Next]_Contract!contract
  BY ContractStep
<1> QED
  BY <1>1, <1>2, <1>3, <1>4, PTL DEF Spec, ContractKept, Contract!Spec

\* Whoever keeps the contract keeps what it is at, serves or hands out on disk, as long as
\* versions are those of policies.
LEMMA BackedStep ==
  Contract!Backed /\ loaded \subseteq Policies /\ [Contract!Next]_Contract!contract
    => Contract!Backed'
<1> SUFFICES ASSUME Contract!Backed, loaded \subseteq Policies,
                    [Contract!Next]_Contract!contract
             PROVE  Contract!Backed'
  OBVIOUS
<1>1. /\ Versions = [p \in Policies |-> Versions[p]]
      /\ ServedVersions = [p \in Policies |-> ServedVersions[p]]
  BY DEF Versions, ServedVersions
<1> DEFINE Kept(p, w, S) == w = Start(p) \/ Contract!Copy(p, w) \in S
           old == Copies(dirs)
           new == Copies(dirs)'
<1>2. /\ \A p \in loaded : Kept(p, Versions[p], old) /\ Kept(p, ServedVersions[p], old)
      /\ Exports \subseteq old
  BY DEF Contract!Backed
<1>3. ASSUME \A p \in loaded' : Kept(p, Versions'[p], new) /\ Kept(p, ServedVersions'[p], new),
             Exports' \subseteq new
      PROVE  Contract!Backed'
  BY <1>3 DEF Contract!Backed
<1>4. ASSUME NEW S, NEW T, S \subseteq T, NEW p, NEW w, Kept(p, w, S)
      PROVE  Kept(p, w, T)
  BY <1>4
<1>5. ASSUME NEW P \in SUBSET Policies, Contract!Begin(P) PROVE Contract!Backed'
  <2>1. PICK from \in Contract!Loads(P), behind \in SUBSET Policies :
          /\ Versions' = [p \in Policies |-> IF p \in DOMAIN from THEN from[p].weights
                                                                  ELSE Start(p)]
          /\ ServedVersions' = [p \in Policies |-> IF p \in behind THEN Start(p)
                                                                   ELSE Versions'[p]]
    BY <1>5 DEF Contract!Begin
  <2>2. /\ loaded' = P /\ Exports' = Exports /\ Copies(dirs) \subseteq Copies(dirs)'
    BY <1>5 DEF Contract!Begin
  <2>3. ASSUME NEW p \in DOMAIN from PROVE Contract!Copy(p, from[p].weights) \in Copies(dirs)
    <3>1. from[p] \in Copies(dirs) /\ from[p].policy = p
      BY DEF Contract!Loads, Contract!Whole
    <3>2. from[p] = Contract!Copy(p, from[p].weights)
      BY <3>1 DEF Copies, CopyOf, Contract!Copy
    <3> QED
      BY <3>1, <3>2
  <2>4. ASSUME NEW p \in Policies 
        PROVE  Kept(p, Versions'[p], new) /\ Kept(p, ServedVersions'[p], new)
    BY <2>1, <2>2, <2>3
  <2> QED
    BY <1>2, <1>3, <2>2, <2>4
<1>6. CASE Contract!End
  BY <1>2, <1>3, <1>6 DEF Contract!End
<1>7. ASSUME NEW p \in loaded, Contract!Serve(p) PROVE Contract!Backed'
  <2>1. /\ \A q \in loaded : ServedVersions'[q] = IF q = p THEN Versions[p] ELSE ServedVersions[q]
        /\ UNCHANGED <<loaded, Versions, Copies(dirs), Exports>>
    BY <1>1, <1>7 DEF Contract!Serve
  <2> QED
    BY <1>2, <1>3, <2>1
<1>8. ASSUME NEW p \in loaded, Contract!Export(p) PROVE Contract!Backed'
  BY <1>2, <1>3, <1>8 DEF Contract!Export, Contract!Whole
<1>9. ASSUME NEW p \in loaded, NEW id \in Ids, Contract!Step(p, id) PROVE Contract!Backed'
  <2>1. PICK w \in OneMore(Versions[p], id) :
          /\ Versions' = [Versions EXCEPT ![p] = w]
          /\ Copies(dirs)' = Copies(dirs) \cup {Contract!Copy(p, w)}
    BY <1>9 DEF Contract!Step
  <2>2. UNCHANGED <<loaded, ServedVersions, Exports>>
    BY <1>9 DEF Contract!Step
  <2>3. \A q \in loaded : Versions'[q] = IF q = p THEN w ELSE Versions[q]
    BY <1>1, <2>1
  <2> QED
    BY <1>2, <1>3, <1>4, <2>1, <2>2, <2>3
<1>10. ASSUME NEW c \in Contract!Whole, Contract!Restore(c) PROVE Contract!Backed'
  <2>1. /\ \A q \in loaded : Versions'[q] = IF q = c.policy THEN c.weights ELSE Versions[q]
        /\ UNCHANGED <<loaded, ServedVersions, Copies(dirs), Exports>>
    BY <1>1, <1>10 DEF Contract!Restore
  <2>2. Contract!Copy(c.policy, c.weights) \in Copies(dirs)
    BY DEF Contract!Whole, Copies, CopyOf, Contract!Copy
  <2> QED
    BY <1>2, <1>3, <2>1, <2>2
<1>11. ASSUME NEW c \in Contract!Whole, NEW P \in SUBSET loaded, Contract!Fork(c, P)
       PROVE  Contract!Backed'
  <2>1. /\ \A q \in loaded : Versions'[q] = IF q \in P THEN c.weights ELSE Versions[q]
        /\ Copies(dirs)' = Copies(dirs) \cup {Contract!Copy(p, c.weights) : p \in P}
        /\ UNCHANGED <<loaded, ServedVersions, Exports>>
    BY <1>11 DEF Contract!Fork
  <2>2. \A q \in P : Contract!Copy(q, c.weights) \in Copies(dirs)'
    BY <2>1
  <2>3. Copies(dirs) \subseteq Copies(dirs)'
    BY <2>1
  <2> QED
    BY <1>2, <1>3, <1>4, <2>1, <2>2, <2>3
<1>12. ASSUME NEW P \in SUBSET loaded, Contract!Break(P) PROVE Contract!Backed'
  <2>1. Copies(dirs) \subseteq Copies(dirs)' /\ UNCHANGED <<loaded, Versions, ServedVersions, Exports>>
    BY <1>12 DEF Contract!Break
  <2> QED
    BY <1>2, <1>3, <1>4, <2>1
<1>13. ASSUME NEW c, Contract!Lose(c) PROVE Contract!Backed'
  BY <1>2, <1>3, <1>13 DEF Contract!Lose
<1>14. CASE UNCHANGED Contract!contract
  BY <1>2, <1>3, <1>14 DEF Contract!contract
<1> QED
  BY <1>5, <1>6, <1>7, <1>8, <1>9, <1>10, <1>11, <1>12, <1>13, <1>14 DEF Contract!Next

\* Contents of a policy can be had again: they are initial, or those of a checkpoint.
HadAgain(p, w) == w = Start(p) \/ \E c \in dirs : c.policy = p /\ c.adapter = w

ContentsBacked ==
  /\ \A p \in loaded :
       /\ HadAgain(p, weight[p].adapter)
       /\ HadAgain(p, rollout[p].adapter) /\ HadAgain(p, served[p])
  /\ \A p \in loaded \ raised : HadAgain(p, train[p].adapter)
  /\ \A a \in artifacts : \E c \in dirs : c.policy = a.of.policy /\ c.adapter = a.holds

\* What the contract says of versions is so of the contents behind them.
LEMMA BackedContents == TInv /\ Contract!Backed => ContentsBacked
<1> SUFFICES ASSUME TInv, Contract!Backed PROVE ContentsBacked
  OBVIOUS
<1>1. /\ Versions = [p \in Policies |-> weight[p].adapter]
      /\ ServedVersions = [p \in Policies |-> rollout[p].adapter]
      /\ Exports = Copies({a.of : a \in artifacts})
      /\ loaded \subseteq Policies
  BY ToldAsLabelled DEF TInv, BInv, Shape
<1>2. ASSUME NEW p, NEW w, Contract!Copy(p, w) \in Copies(dirs)
      PROVE  \E c \in dirs : c.policy = p /\ c.adapter = w
  BY <1>2 DEF Contract!Copy, Copies, CopyOf
<1>3. ASSUME NEW p \in loaded
      PROVE  HadAgain(p, weight[p].adapter) /\ HadAgain(p, rollout[p].adapter)
  <2>1. /\ Versions[p] = weight[p].adapter /\ ServedVersions[p] = rollout[p].adapter
    BY <1>1
  <2>2. /\ weight[p].adapter = Start(p)
             \/ Contract!Copy(p, weight[p].adapter) \in Copies(dirs)
        /\ rollout[p].adapter = Start(p)
             \/ Contract!Copy(p, rollout[p].adapter) \in Copies(dirs)
    BY <2>1 DEF Contract!Backed
  <2> QED
    BY <1>2, <2>2 DEF HadAgain
<1>4. \A p \in loaded : served[p] = rollout[p].adapter
  BY <1>1 DEF TInv, BInv, Serves
<1>5. ASSUME NEW p \in loaded \ raised PROVE train[p].adapter = weight[p].adapter
  <2>1. train[p] = WeightsOf(weight[p])
    BY <1>1 DEF TInv, BInv, AtVersion
  <2> QED
    BY <2>1 DEF WeightsOf
<1>6. ASSUME NEW a \in artifacts
      PROVE  \E c \in dirs : c.policy = a.of.policy /\ c.adapter = a.holds
  <2>1. a.holds = a.of.adapter
    BY DEF TInv, BInv, SoundFiles
  <2>2. CopyOf(a.of) \in Exports
    BY <1>1 DEF Copies
  <2>3. Contract!Copy(a.of.policy, a.of.adapter) \in Copies(dirs)
    BY <2>2 DEF Contract!Backed, CopyOf, Contract!Copy
  <2> QED
    BY <1>2, <2>1, <2>3
<1> QED
  BY <1>3, <1>4, <1>5, <1>6 DEF ContentsBacked

\* Whatever answered generations or was exported, and whatever a policy on which no call
\* failed half way has been trained to, is in a checkpoint or is what a fresh process draws;
\* of the others it is so of the version they are labelled with (local_hf/backend.py,
\* _save_checkpoint and its callers).
THEOREM BackedHolds == Spec => []ContentsBacked
<1>1. Init => TInv /\ Undrawn /\ Contract!Backed
  <2>1. Init => Contract!Backed
    BY DEF Init, Contract!Backed, Exports
  <2> QED
    BY <2>1, TypesInit DEF Init, Undrawn
<1>2. TInv => loaded \subseteq Policies
  BY DEF TInv, BInv, Shape
<1>3. TInv /\ Undrawn /\ Contract!Backed /\ [Next]_vars
        => (TInv /\ Undrawn /\ Contract!Backed)'
  <2> SUFFICES ASSUME TInv, Undrawn, Contract!Backed, [Next]_vars
               PROVE  (TInv /\ Undrawn /\ Contract!Backed)'
    OBVIOUS
  <2>1. TInv' /\ Undrawn'
    BY TypesStep, UndrawnStep
  <2>2. [Contract!Next]_Contract!contract
    BY <2>1, ContractStep
  <2>3. Contract!Backed'
    BY <1>2, <2>2, BackedStep
  <2> QED
    BY <2>1, <2>3
<1> QED
  BY <1>1, <1>3, BackedContents, PTL DEF Spec

=============================================================================
