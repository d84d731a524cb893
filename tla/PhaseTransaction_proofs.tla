--------------------- MODULE PhaseTransaction_proofs ----------------------
(***************************************************************************)
(* Theorems of PhaseTransaction, for every topology, batch and noise set,  *)
(* number of cycles and bound on faults: its invariants, that it           *)
(* implements the ledger of commits, and that it uses a backend that keeps *)
(* its contract.                                                           *)
(***************************************************************************)
EXTENDS PhaseTransaction, WellFoundedInduction, TLAPS

-----------------------------------------------------------------------------
(* Types of the operators *)

\* The phases of every topology are phases with a bound target policy.
LEMMA PhasesTyped ==
  /\ FirstPhase \in Phases
  /\ CyclePhases \subseteq Phases
  /\ \A ph \in Phases : TargetOf(ph) \in Policies
  /\ \A c \in Cycles, ph \in Phases : TxOf(c, ph) \in Tx
BY TrainingAssumption
DEF FirstPhase, Phases, CyclePhases, TargetOf, Policies, TxOf, Tx, Roles

\* The weights a policy or a process starts from are weights.
LEMMA WeightsTyped ==
  ASSUME NEW p \in Policies
  PROVE  Start(p) \in Weight /\ Unloaded(p) \in Weight
BY DEF Start, Unloaded, Weight

\* An optimizer step on a non-empty batch gives a weight.
LEMMA AppliedTyped ==
  ASSUME NEW w \in Weight, NEW t \in Tx, NEW b \in Batches, NEW n \in Noise
  PROVE  Applied(w, t, b, n) \in Weight
<1>1. [tx |-> t, batch |-> b, noise |-> n] \in Step
  BY DEF Step
<1>2. Append(w.steps, [tx |-> t, batch |-> b, noise |-> n]) \in Seq(Step)
  BY <1>1 DEF Weight
<1> QED
  BY <1>2 DEF Applied, Weight

\* A non-empty set of naturals has a least element.
LEMMA LeastNatural ==
  ASSUME NEW T, T \subseteq Nat, T # {}
  PROVE  \E x \in T : \A y \in T : ~(y < x)
<1> DEFINE R == {ss \in Nat \X Nat : ss[1] < ss[2]}
<1>1. IsWellFoundedOn(R, Nat)
  BY NatLessThanWellFounded, Zenon DEF OpToRel
<1>2. \E x \in T : \A y \in T : ~(<<y, x>> \in R)
  <2> HIDE DEF R
  <2> QED
    BY <1>1, WFMin, Zenon
<1>3. PICK x \in T : \A y \in T : ~(<<y, x>> \in R)
  BY <1>2
<1>4. \A y \in T : ~(y < x)
  <2> TAKE y \in T
  <2>1. y < x => <<y, x>> \in R
    OBVIOUS
  <2> QED
    BY <1>3, <2>1
<1> QED
  BY <1>4

\* Of records that carry a cycle, some carry the latest one.
LEMMA LatestExists ==
  ASSUME NEW S, S # {}, \A m \in S : m.tx.cycle \in Cycles
  PROVE  Latest(S) # {}
<1> DEFINE T == {MaxCycle - m.tx.cycle : m \in S}
<1>1. T \subseteq Nat /\ T # {}
  BY TrainingAssumption DEF Cycles
<1>2. PICK x \in T : \A y \in T : ~(y < x)
  <2> HIDE DEF T
  <2> QED
    BY <1>1, LeastNatural
<1>3. PICK m \in S : x = MaxCycle - m.tx.cycle
  OBVIOUS
<1>4. \A n \in S : n.tx.cycle <= m.tx.cycle
  <2> TAKE n \in S
  <2>1. ~(MaxCycle - n.tx.cycle < MaxCycle - m.tx.cycle)
    BY <1>2, <1>3
  <2>2. n.tx.cycle \in Int /\ m.tx.cycle \in Int /\ MaxCycle \in Int
    BY TrainingAssumption DEF Cycles
  <2> HIDE DEF T
  <2> QED
    BY <2>1, <2>2
<1> QED
  BY <1>4 DEF Latest

\* The checkpoint a policy is taken up from is its start or one of its manifests'.
LEMMA CommittedWeightOf ==
  ASSUME NEW S, S \subseteq Manifest, NEW p
  PROVE  \/ S = {} /\ CommittedWeight(S, p) = Start(p)
         \/ \E m \in S : CommittedWeight(S, p) = m.weight
<1>1. CASE S = {}
  BY <1>1 DEF CommittedWeight
<1>2. CASE S # {}
  <2>1. \A m \in S : m.tx.cycle \in Cycles
    BY DEF Manifest, Tx
  <2>2. Latest(S) # {} /\ Latest(S) \subseteq S
    BY <1>2, <2>1, LatestExists DEF Latest
  <2>3. (CHOOSE m \in Latest(S) : TRUE) \in Latest(S)
    BY <2>2
  <2> QED
    BY <1>2, <2>2, <2>3 DEF CommittedWeight
<1> QED
  BY <1>1, <1>2

\* The checkpoint the experiment hands to a cycle is a weight of the policy's type.
LEMMA CheckpointForTyped ==
  ASSUME commits \subseteq Manifest, NEW c, NEW p \in Policies
  PROVE  CheckpointFor(c, p) \in Weight
<1> DEFINE S == {m \in CommittedFor(p) : m.tx.cycle < c}
<1>1. S \subseteq Manifest
  BY DEF CommittedFor
<1>2. \/ CommittedWeight(S, p) = Start(p)
      \/ \E m \in S : CommittedWeight(S, p) = m.weight
  <2> HIDE DEF S
  <2> QED
    BY <1>1, CommittedWeightOf
<1>3. CommittedWeight(S, p) \in Weight
  BY <1>1, <1>2, WeightsTyped DEF Manifest
<1> QED
  BY <1>3 DEF CheckpointFor

-----------------------------------------------------------------------------
(* Type correctness *)

\* While a cycle runs, the job in progress is of that cycle.
OnCycle == mode = "cycle" /\ pc \notin Idle \cup {"none"} => job.tx.cycle = at

\* Only a phase with samples reaches the optimizer.
Trains == pc \in {"update", "record", "reload"} => job.batch # Empty

TInv == TypeOK /\ OnCycle /\ Trains

\* What a process holds before it loads anything has the types of the variables.
LEMMA ColdTyped ==
  ASSUME NEW d \in Nat
  PROVE  /\ ColdRollout(d) \in [Policies -> Revision]
         /\ ColdRollout(0)[MainPolicy] \in Revision
         /\ ColdJob \in Input
<1>1. \A e \in Nat : ColdRollout(e) \in [Policies -> Revision]
  BY WeightsTyped DEF ColdRollout, Revision
<1>2. MainPolicy \in Policies /\ TxOf(1, "main_update") \in Tx
  BY TrainingAssumption DEF Policies, TxOf, Tx, Cycles, Phases
<1> QED
  BY <1>1, <1>2, WeightsTyped DEF ColdJob, Input

\* The initial state has the types, with no cycle or transaction in hand (Init is the
\* state before the first process starts).
THEOREM TypeInit == Init => TInv
<1> SUFFICES ASSUME Init PROVE TInv
  OBVIOUS
<1> USE DEF Init
<1>1. MainPolicy \in Policies /\ 0 \in Nat
  BY DEF Policies
<1>2. inputs \subseteq Input /\ pendings \subseteq Pending /\ commits \subseteq Manifest
      /\ recoveries \subseteq Recovery /\ saved \subseteq Weight
  BY WeightsTyped
<1>3. weight \in [Policies -> Weight] /\ rollout \in [Policies -> Revision]
      /\ registry \in [Policies -> Revision] /\ job \in Input /\ rev \in Revision
      /\ version \in Weight
  BY <1>1, ColdTyped, WeightsTyped
<1>4. updates \subseteq [job : Input, result : Weight] /\ synced \subseteq Revision
      /\ at \in 1 .. (MaxCycle + 1) /\ faults \in 0 .. MaxFaults /\ pc \in Control
  BY TrainingAssumption, BoundsAssumption DEF Control
<1> QED
  BY <1>2, <1>3, <1>4 DEF TInv, TypeOK, OnCycle, Trains

\* A process that ends leaves well-typed variables behind (Vanish).
LEMMA VanishTyped ==
  ASSUME TInv, Vanish, faults' \in 0 .. MaxFaults
  PROVE  TInv'
<1> USE DEF TInv, TypeOK, durable, Vanish, Return
<1>1. MainPolicy \in Policies /\ 0 \in Nat
  BY DEF Policies
<1>2. /\ weight' \in [Policies -> Weight] /\ rollout' \in [Policies -> Revision]
      /\ registry' \in [Policies -> Revision] /\ job' \in Input /\ rev' \in Revision
      /\ version' \in Weight
  BY <1>1, ColdTyped, WeightsTyped
<1>3. at' \in 1 .. (MaxCycle + 1) /\ pc' \in Control
  BY TrainingAssumption DEF Control
<1> QED
  BY <1>2, <1>3 DEF OnCycle, Trains

\* The result of an update, remembered or computed, is a weight.
LEMMA UpdateTyped ==
  ASSUME TInv, Update
  PROVE  /\ weight' \in [Policies -> Weight]
         /\ saved' \subseteq Weight
         /\ updates' \subseteq [job : Input, result : Weight]
         /\ version' \in Weight
<1> USE DEF TInv, TypeOK
<1>1. CASE /\ \E u \in updates : u.job = job /\ version' = u.result
           /\ UNCHANGED <<saved, weight, updates>>
  BY <1>1
<1>2. ASSUME NEW n \in Noise, NEW w, w = Stepped(weight[job.target], job.tx, job.batch, n),
             /\ weight' = [weight EXCEPT ![job.target] = w]
             /\ saved' = SavedWith(w)
             /\ updates' = updates \cup {[job |-> job, result |-> w]}
             /\ version' = w
      PROVE  /\ weight' \in [Policies -> Weight]
             /\ saved' \subseteq Weight
             /\ updates' \subseteq [job : Input, result : Weight]
             /\ version' \in Weight
  <2>1. job.tx \in Tx /\ job.target \in Policies /\ job.batch \in Batches
    BY DEF Update, Trains, Input
  <2>2. w \in Weight
    BY <1>2, <2>1, AppliedTyped DEF Stepped
  <2> QED
    BY <1>2, <2>1, <2>2 DEF SavedWith
<1> QED
  BY <1>1, <1>2 DEF Update

\* Every step of the coordinator, the manager and the processes keeps the types.
LEMMA TypeStep == TInv /\ [Next]_vars => TInv'
<1> SUFFICES ASSUME TInv, [Next]_vars PROVE TInv'
  OBVIOUS
<1> USE DEF TInv, TypeOK, OnCycle, Trains, durable, backend, frame, Idle, Control
<1>0. MainPolicy \in Policies /\ MaxCycle \in Nat \ {0} /\ MaxFaults \in Nat
  BY TrainingAssumption, BoundsAssumption DEF Policies
<1>1. ASSUME NEW c \in Cycles, LaunchTrain(c) PROVE TInv'
  <2>1. \A p \in Policies : CheckpointFor(c, p) \in Weight
    BY CheckpointForTyped
  <2>2. PICK d \in FreshDeployments, k \in {0, 1} :
          /\ rollout' = LaunchRollout(c, d, k)
          /\ synced' = IF k = 0 THEN {} ELSE {rollout'[p] : p \in Policies}
          /\ registry' = rollout'
    BY <1>1 DEF LaunchTrain
  <2>3. rollout' \in [Policies -> Revision]
    BY <2>1, <2>2 DEF LaunchRollout, Revision, FreshDeployments
  <2>4. synced' \subseteq Revision /\ registry' \in [Policies -> Revision]
    BY <2>2, <2>3
  <2> QED
    BY <1>0, <1>1, <2>1, <2>3, <2>4 DEF LaunchTrain, Cycles
<1>2. ASSUME NEW t \in Tx, LaunchTool(t) PROVE TInv'
  <2>1. PICK i \in inputs :
          /\ weight' = [weight EXCEPT ![i.target] = i.base]
          /\ registry' = i.snap
          /\ job' = i
    BY <1>2 DEF LaunchTool
  <2>2. weight' \in [Policies -> Weight] /\ registry' \in [Policies -> Revision]
        /\ job' \in Input
    BY <2>1 DEF Input
  <2>3. rollout' \in [Policies -> Revision]
    BY <1>2, ColdTyped DEF LaunchTool, FreshDeployments
  <2> QED
    BY <1>2, <2>2, <2>3 DEF LaunchTool
<1>3. ASSUME NEW t \in Tx, Recover(t) PROVE TInv'
  <2>1. PICK i \in inputs :
          LET point == Resumption(i) IN
          /\ i.tx = t
          /\ point.from \in saved
          /\ job' = i
          /\ version' = point.from
          /\ weight' = [weight EXCEPT ![i.target] = point.from]
          /\ mode' = point.mode
          /\ pc' = point.next
    BY <1>3 DEF Recover
  <2>2. /\ Resumption(i).mode \in {"recover", "restore"}
        /\ Resumption(i).next \in {"sync", "update"}
        /\ Resumption(i).next = "update" => i.batch # Empty
    BY DEF Resumption, ResumePoint
  <2>3. weight' \in [Policies -> Weight] /\ version' \in Weight /\ job' \in Input
    BY <2>1 DEF Input
  <2> QED
    BY <1>3, <2>1, <2>2, <2>3 DEF Recover
<1>4. CASE Exit
  BY <1>4, VanishTyped DEF Exit
<1>5. CASE Crash
  BY <1>0, <1>5, VanishTyped DEF Crash
<1>6. CASE Fault
  BY <1>0, <1>6, ColdTyped, WeightsTyped DEF Fault, Return
<1>7. CASE StartCycle
  <2>1. at \in Cycles
    BY <1>0, <1>7 DEF StartCycle, Cycles
  <2>2. PhaseJob(at, FirstPhase, registry) \in Input
    BY <2>1, PhasesTyped DEF PhaseJob, Input, Revision
  <2>3. PhaseJob(at, FirstPhase, registry).tx.cycle = at
    BY DEF PhaseJob, TxOf
  <2> QED
    BY <1>7, <2>2, <2>3 DEF StartCycle
<1>8. CASE Raise
  BY <1>0, <1>8, ColdTyped, WeightsTyped DEF Raise, Return
<1>9. CASE Rollout
  <2>1. job' \in Input /\ job'.tx = job.tx
    BY <1>9 DEF Rollout, Input
  <2> QED
    BY <1>9, <2>1 DEF Rollout
<1>10. CASE Prepare
  BY <1>10 DEF Prepare, EmptyPhase, Input
<1>11. CASE Update
  BY <1>11, UpdateTyped DEF Update
<1>12. CASE RecordUpdate
  <2>1. PendingOf \in Pending
    BY DEF PendingOf, Pending, Input
  <2> QED
    BY <1>12, <2>1 DEF RecordUpdate, WithPending, AfterRecord
<1>13. CASE Reload
  BY <1>13 DEF Reload, Input
<1>14. CASE Sync
  <2>1. job.target \in Policies
    BY DEF Input
  <2>2. NewRevision(job.target) \in Revision
    BY <2>1 DEF NewRevision, Revision
  <2>3. rollout' \in [Policies -> Revision] /\ synced' \subseteq Revision
        /\ rev' \in Revision
    BY <1>14, <2>1, <2>2 DEF Sync, Serve, Remembered
  <2>4. pc' \in {"advance", "publish", "commit"}
    BY <1>14 DEF Sync, AfterSync
  <2> QED
    BY <1>14, <2>3, <2>4 DEF Sync
<1>15. CASE Publish
  BY <1>15 DEF Publish, Recovery, Input
<1>16. CASE Commit
  <2>1. ManifestOf \in Manifest
    BY DEF ManifestOf, Manifest, Input
  <2>2. job.tx.cycle \in 1 .. MaxCycle
    BY DEF Input, Tx, Cycles
  <2>3. version' \in Weight /\ rev' \in Revision
    BY <1>0, <1>16, ColdTyped, WeightsTyped DEF Commit, Return
  <2>4. pc' \in {"idle", "advance"} /\ at' \in 1 .. (MaxCycle + 1)
        /\ (pc' = "advance" => at' = at)
    BY <1>0, <1>16, <2>2 DEF Commit
  <2> QED
    BY <1>16, <2>1, <2>3, <2>4 DEF Commit
<1>17. CASE Advance
  <2>1. job.target \in Policies /\ job.tx.cycle \in 1 .. MaxCycle
    BY DEF Input, Tx, Cycles
  <2>2. registry' \in [Policies -> Revision]
    BY <1>17, <2>1 DEF Advance
  <2>3. version' \in Weight /\ rev' \in Revision
    BY <1>0, <1>17, ColdTyped, WeightsTyped DEF Advance, Return
  <2>4. mode = "cycle" => PhaseJob(at, "sub_update", registry') \in Input
    BY <1>17, <2>1, <2>2, PhasesTyped DEF Advance, PhaseJob, Input, Revision, Phases, Cycles
  <2>5. PhaseJob(at, "sub_update", registry').tx.cycle = at
    BY DEF PhaseJob, TxOf
  <2>6. job' \in Input /\ pc' \in {"recovered", "rollout", "idle"}
        /\ at' \in 1 .. (MaxCycle + 1) /\ (pc' = "rollout" => job'.tx.cycle = at')
    BY <1>0, <1>17, <2>1, <2>4, <2>5 DEF Advance, CycleComplete
  <2> QED
    BY <1>17, <2>2, <2>3, <2>6 DEF Advance
<1>18. CASE UNCHANGED vars
  BY <1>18 DEF vars
<1> QED
  BY <1>1, <1>2, <1>3, <1>4, <1>5, <1>6, <1>7, <1>8, <1>9, <1>10, <1>11, <1>12, <1>13,
     <1>14, <1>15, <1>16, <1>17, <1>18 DEF Next, PhaseStep

\* Every variable keeps its type: records refer to phases, policies and weights that
\* exist, and the cycle number stays in its range through recoveries and retries.
THEOREM TypeCorrect == Spec => []TypeOK
<1>1. TInv => TypeOK
  BY DEF TInv
<1> QED
  BY TypeInit, TypeStep, <1>1, PTL DEF Spec

-----------------------------------------------------------------------------
(* The records of a transaction                                              *)

\* A process that runs has a place in its operation, and the place fits the mode.
Placed ==
  /\ proc = "none" => pc = "none"
  /\ pc \in {"rollout", "prepare"} => mode = "cycle"
  /\ pc \in {"update", "record", "commit"} => mode # "restore"
  /\ pc = "reload" => mode = "recover"
  /\ pc = "publish" => mode = "restore"
  /\ mode = "cycle" /\ pc \notin Idle \cup {"none"} => proc = "train"

\* From the update on, the job in progress is the input the store holds.
JobDurable ==
  pc \in {"update", "record", "reload", "sync", "publish", "commit", "advance"}
    => job \in inputs

SteppedFrom(i, w) == \E n \in Noise : w = Applied(i.base, i.tx, i.batch, n)

\* What the backend remembers of a batch is one step from the base of its input.
UpdatesStepped ==
  \A u \in updates : u.job \in inputs /\ SteppedFrom(u.job, u.result)

PendingsStepped ==
  \A u \in pendings : u.input.batch # Empty /\ SteppedFrom(u.input, u.result)

\* The version in hand is the one the records allow to publish.
InHand ==
  /\ pc = "record" => SteppedFrom(job, version)
  /\ pc \in {"reload", "sync", "commit"} /\ mode # "restore" =>
       IF job.batch = Empty THEN version = job.base ELSE PendingOf \in pendings
  /\ pc \in {"sync", "publish"} /\ mode = "restore" =>
       \E m \in commits : m.tx = job.tx /\ m.weight = version
  /\ pc = "advance" =>
       /\ \E m \in commits : m.tx = job.tx /\ m.weight = version
       /\ rev.weight = version
       /\ rev \in {r.rev : r \in commits \cup recoveries}

RInv ==
  /\ Placed
  /\ JobDurable
  /\ UpdatesStepped
  /\ PendingsStepped
  /\ InHand
  /\ UniqueRecords
  /\ RecordsAgree

\* No record exists at first, so they agree.
LEMMA RecordsInit == Init => RInv
BY DEF Init, RInv, Placed, JobDurable, UpdatesStepped, PendingsStepped, InHand,
       UniqueRecords, RecordsAgree

\* Every step keeps records unique and in agreement: one case per action.
LEMMA RecordsStep == TInv /\ RInv /\ [Next]_vars => RInv'
<1> SUFFICES ASSUME TInv, RInv, [Next]_vars PROVE RInv'
  OBVIOUS
<1> USE DEF RInv, Placed, JobDurable, UpdatesStepped, PendingsStepped, InHand, SteppedFrom,
            UniqueRecords, RecordsAgree, durable, backend, frame, Idle
<1>1. ASSUME NEW c \in Cycles, LaunchTrain(c) PROVE RInv'
  BY <1>1 DEF LaunchTrain
<1>2. ASSUME NEW t \in Tx, LaunchTool(t) PROVE RInv'
  BY <1>2 DEF LaunchTool
<1>3. ASSUME NEW t \in Tx, Recover(t) PROVE RInv'
  <2>1. PICK i \in inputs :
          LET point == Resumption(i) IN
          /\ i.tx = t
          /\ point.from \in saved
          /\ job' = i
          /\ version' = point.from
          /\ weight' = [weight EXCEPT ![i.target] = point.from]
          /\ mode' = point.mode
          /\ pc' = point.next
    BY <1>3 DEF Recover
  <2>2. CASE HasRecord(commits, i.tx)
    <3>1. PICK m \in commits : m.tx = i.tx /\ version' = m.weight
      BY <2>1, <2>2 DEF Resumption, ResumePoint, HasRecord
    <3>2. mode' = "restore" /\ pc' = "sync"
      BY <2>1, <2>2 DEF Resumption, ResumePoint
    <3> QED
      BY <1>3, <2>1, <3>1, <3>2 DEF Recover, Recoverable
  <2>3. CASE ~HasRecord(commits, i.tx) /\ HasRecord(pendings, i.tx)
    <3>1. PICK u \in pendings : u.tx = i.tx /\ version' = u.result
      BY <2>1, <2>3 DEF Resumption, ResumePoint, HasRecord
    <3>2. u.input = i /\ u = [tx |-> i.tx, input |-> i, result |-> u.result]
      BY <2>1, <3>1 DEF TInv, TypeOK, Pending
    <3>3. mode' = "recover" /\ pc' = "sync"
      BY <2>1, <2>3 DEF Resumption, ResumePoint
    <3> QED
      BY <1>3, <2>1, <3>1, <3>2, <3>3 DEF Recover, Recoverable, PendingOf
  <2>4. CASE ~HasRecord(commits, i.tx) /\ ~HasRecord(pendings, i.tx)
    <3>1. /\ mode' = "recover" /\ version' = i.base
          /\ pc' = IF i.batch = Empty THEN "sync" ELSE "update"
      BY <2>1, <2>4 DEF Resumption, ResumePoint
    <3> QED
      BY <1>3, <2>1, <3>1 DEF Recover, Recoverable
  <2> QED
    BY <2>2, <2>3, <2>4
<1>4. CASE Exit
  BY <1>4 DEF Exit, Vanish
<1>5. CASE Crash
  BY <1>5 DEF Crash, Vanish
<1>6. CASE Fault
  BY <1>6 DEF Fault
<1>7. CASE StartCycle
  BY <1>7 DEF StartCycle
<1>8. CASE Raise
  BY <1>8 DEF Raise, Raises
<1>9. CASE Rollout
  BY <1>9 DEF Rollout
<1>10. CASE Prepare
  BY <1>10 DEF Prepare, EmptyPhase, Raises, Conflicts
<1>11. CASE Update
  BY <1>11 DEF Update, Raises, Stepped, TInv, TypeOK, Input
<1>12. CASE RecordUpdate
  BY <1>12 DEF RecordUpdate, WithPending, AfterRecord, Raises, Conflicts, PendingOf, TInv, Trains
<1>13. CASE Reload
  BY <1>13 DEF Reload, PendingOf
<1>14. CASE Sync
  BY <1>14 DEF Sync, AfterSync, Remembered, NewRevision, PendingOf
<1>15. CASE Publish
  <2>1. PICK m \in commits : m.tx = job.tx /\ m.weight = version
    BY <1>15 DEF Publish
  <2>2. rev.weight = version
    BY <1>15 DEF Publish, Raises
  <2> DEFINE r == [tx |-> job.tx, rev |-> rev]
  <2>3. r.tx = job.tx /\ r.rev = rev /\ recoveries' = recoveries \cup {r}
    BY <1>15 DEF Publish
  <2> HIDE DEF r
  <2>4. RecordsAgree'
    BY <1>15, <2>1, <2>2, <2>3 DEF Publish
  <2>5. InHand'
    BY <1>15, <2>1, <2>2, <2>3 DEF Publish
  <2> QED
    BY <1>15, <2>4, <2>5 DEF Publish
<1>16. CASE Commit
  <2> DEFINE n == ManifestOf
  <2>1. /\ n.tx = job.tx /\ n.input = job /\ n.weight = version /\ n.rev = rev
        /\ commits' = commits \cup {n}
    BY <1>16 DEF Commit, ManifestOf
  <2>2. rev.weight = version /\ \A m \in commits : m.tx = n.tx => m = n
    BY <1>16, <2>1 DEF Commit, Raises, Conflicts, ManifestOf
  <2>3. /\ job \in inputs
        /\ IF job.batch = Empty THEN version = job.base ELSE PendingOf \in pendings
    BY <1>16 DEF Commit
  <2> HIDE DEF n
  <2>4. UniqueRecords'
    BY <1>16, <2>1, <2>2 DEF Commit
  <2>5. RecordsAgree'
    BY <1>16, <2>1, <2>2, <2>3 DEF Commit, PendingOf
  <2>6. InHand'
    <3>1. pc' \in {"idle", "advance"} /\ (pc' = "advance" => version' = version /\ rev' = rev)
      BY <1>16 DEF Commit
    <3>2. job' = job /\ recoveries' = recoveries
      BY <1>16 DEF Commit
    <3> QED
      BY <2>1, <2>2, <3>1, <3>2
  <2> QED
    BY <1>16, <2>4, <2>5, <2>6 DEF Commit
<1>17. CASE Advance
  BY <1>17 DEF Advance
<1>18. CASE UNCHANGED vars
  BY <1>18 DEF vars, PendingOf
<1> QED
  BY <1>1, <1>2, <1>3, <1>4, <1>5, <1>6, <1>7, <1>8, <1>9, <1>10, <1>11, <1>12, <1>13,
     <1>14, <1>15, <1>16, <1>17, <1>18 DEF Next, PhaseStep

\* A transaction keeps one input, one update result and one manifest, and they agree.
THEOREM RecordsCorrect == Spec => [](UniqueRecords /\ RecordsAgree)
<1>1. Init => TInv /\ RInv
  BY TypeInit, RecordsInit
<1>2. TInv /\ RInv /\ [Next]_vars => (TInv /\ RInv)'
  BY TypeStep, RecordsStep
<1>3. RInv => UniqueRecords /\ RecordsAgree
  BY DEF RInv
<1> QED
  BY <1>1, <1>2, <1>3, PTL DEF Spec

\* Within a process the registry only advances to a revision some published manifest,
\* or recovery manifest, names.
THEOREM AdvancesPublishedHolds == Spec => AdvancesPublished
<1> DEFINE A == proc' = proc =>
                  \A p \in Policies :
                    registry'[p] # registry[p] =>
                      registry'[p] \in {r.rev : r \in commits \cup recoveries}
<1>1. Init => TInv /\ RInv
  BY TypeInit, RecordsInit
<1>2. TInv /\ RInv /\ [Next]_vars => (TInv /\ RInv)'
  BY TypeStep, RecordsStep
<1>3. TInv /\ RInv /\ [Next]_vars => [A]_vars
  <2> SUFFICES ASSUME TInv, RInv, Next PROVE A
    OBVIOUS
  <2>1. CASE \E c \in Cycles : LaunchTrain(c)
    BY <2>1 DEF LaunchTrain
  <2>2. CASE \E t \in Tx : LaunchTool(t)
    BY <2>2 DEF LaunchTool
  <2>3. CASE Exit \/ Crash
    BY <2>3 DEF Exit, Crash, Vanish, RInv, Placed, Idle
  <2>4. CASE Advance
    <3>1. rev \in {r.rev : r \in commits \cup recoveries}
      BY <2>4 DEF Advance, RInv, InHand
    <3>2. registry' = [registry EXCEPT ![job.target] = rev]
      BY <2>4 DEF Advance
    <3>3. registry \in [Policies -> Revision]
      BY DEF TInv, TypeOK
    <3> QED
      BY <3>1, <3>2, <3>3
  <2>5. CASE registry' = registry
    BY <2>5
  <2> QED
    BY <2>1, <2>2, <2>3, <2>4, <2>5
    DEF Next, PhaseStep, Recover, Fault, StartCycle, Raise, Rollout, Prepare, Update,
        RecordUpdate, Reload, Sync, Publish, Commit
<1> QED
  BY <1>1, <1>2, <1>3, PTL DEF Spec, AdvancesPublished

-----------------------------------------------------------------------------
(* One optimizer step per transaction                                        *)

TxsOf(w) == {w.steps[k].tx : k \in DOMAIN w.steps}

CommittedTxs == {m.tx : m \in commits}

\* Weights made of committed steps only.
Public(w) == TxsOf(w) \subseteq CommittedTxs

\* Only public weights are in manifests, in the registry and in the snapshots taken
\* from it, so the base of an input never contains a step of its own transaction.
BInv ==
  /\ \A m \in commits : Public(m.weight)
  /\ \A p \in Policies : Public(registry[p].weight)
  /\ \A i \in inputs :
       /\ i.base = i.snap[i.target].weight
       /\ \A p \in Policies : Public(i.snap[p].weight)
       /\ i.tx \notin TxsOf(i.base)
  /\ pc \in {"rollout", "prepare"} =>
       /\ job.base = job.snap[job.target].weight
       /\ \A p \in Policies : Public(job.snap[p].weight)

\* A policy's starting weights hold no optimizer step, committed or not.
LEMMA StartPublic ==
  ASSUME NEW p
  PROVE  Public(Start(p)) /\ Public(Unloaded(p))
BY DEF Public, TxsOf, Start, Unloaded

\* One optimizer step adds exactly its own transaction to those of a weight.
LEMMA TxsOfApplied ==
  ASSUME NEW w \in Weight, NEW t \in Tx, NEW b \in Batches, NEW n \in Noise
  PROVE  TxsOf(Applied(w, t, b, n)) = TxsOf(w) \cup {t}
<1> DEFINE e == [tx |-> t, batch |-> b, noise |-> n]
           s == w.steps
<1>1. s \in Seq(Step) /\ e \in Step
  BY DEF Weight, Step
<1>2. Applied(w, t, b, n).steps = Append(s, e)
  BY DEF Applied, Weight
<1>3. e.tx = t
  OBVIOUS
<1> HIDE DEF s, e
<1>4. /\ DOMAIN Append(s, e) = 1 .. (Len(s) + 1)
      /\ DOMAIN s = 1 .. Len(s)
      /\ \A k \in 1 .. Len(s) : Append(s, e)[k] = s[k]
      /\ Append(s, e)[Len(s) + 1] = e
      /\ Len(s) \in Nat
  BY <1>1
<1>5. {Append(s, e)[k].tx : k \in 1 .. (Len(s) + 1)} = {s[k].tx : k \in 1 .. Len(s)} \cup {t}
  BY <1>3, <1>4
<1> QED
  BY <1>2, <1>4, <1>5 DEF TxsOf, s

\* The checkpoint a cycle is handed holds steps of committed transactions only.
LEMMA CheckpointPublic ==
  ASSUME TInv, BInv, NEW c, NEW p \in Policies
  PROVE  Public(CheckpointFor(c, p))
<1> DEFINE S == {m \in CommittedFor(p) : m.tx.cycle < c}
<1>1. S \subseteq commits
  BY DEF CommittedFor
<1>2. S \subseteq Manifest
  BY <1>1 DEF TInv, TypeOK
<1>3. \/ CommittedWeight(S, p) = Start(p)
      \/ \E m \in S : CommittedWeight(S, p) = m.weight
  <2> HIDE DEF S
  <2> QED
    BY <1>2, CommittedWeightOf
<1>4. Public(CommittedWeight(S, p))
  <2> HIDE DEF S
  <2> QED
    BY <1>1, <1>3, StartPublic DEF BInv
<1> QED
  BY <1>4 DEF CheckpointFor

\* No input, update or result exists at first.
LEMMA BasesInit == Init => BInv
<1> SUFFICES ASSUME Init PROVE BInv
  OBVIOUS
<1>1. \A p \in Policies : registry[p].weight = Unloaded(p)
  BY DEF Init, ColdRollout
<1> QED
  BY <1>1, StartPublic DEF Init, BInv

\* Every step keeps the bases of inputs free of their own transaction: one case per
\* action.
LEMMA BasesStep == TInv /\ RInv /\ BInv /\ [Next]_vars => BInv'
<1> SUFFICES ASSUME TInv, RInv, BInv, [Next]_vars PROVE BInv'
  OBVIOUS
<1> USE DEF durable, backend, frame, Idle
<1>a. ASSUME UNCHANGED <<inputs, commits, registry>>,
             pc' \in {"rollout", "prepare"} =>
               pc \in {"rollout", "prepare"} /\ job'.base = job.base /\ job'.snap = job.snap
               /\ job'.target = job.target
      PROVE  BInv'
  BY <1>a DEF BInv, Public, CommittedTxs
<1>1. ASSUME NEW c \in Cycles, LaunchTrain(c) PROVE BInv'
  <2>1. \A p \in Policies : registry'[p].weight = CheckpointFor(c, p)
    BY <1>1 DEF LaunchTrain, LaunchRollout
  <2>2. \A p \in Policies : Public(CheckpointFor(c, p))
    BY CheckpointPublic
  <2>3. UNCHANGED <<inputs, commits>> /\ pc' = "idle"
    BY <1>1 DEF LaunchTrain
  <2> HIDE DEF Idle
  <2> QED
    BY <2>1, <2>2, <2>3 DEF BInv, Public, CommittedTxs
<1>2. ASSUME NEW t \in Tx, LaunchTool(t) PROVE BInv'
  <2>1. PICK i \in inputs : registry' = i.snap
    BY <1>2 DEF LaunchTool
  <2> QED
    BY <1>2, <2>1 DEF LaunchTool, BInv, Public, CommittedTxs
<1>3. ASSUME NEW t \in Tx, Recover(t) PROVE BInv'
  <2>1. pc' \in {"sync", "update"}
    BY <1>3 DEF Recover, Resumption, ResumePoint
  <2> QED
    BY <1>3, <1>a, <2>1 DEF Recover
<1>4. CASE Exit \/ Crash
  <2>1. UNCHANGED <<inputs, commits>> /\ pc' = "none" /\ registry' = ColdRollout(0)
    BY <1>4 DEF Exit, Crash, Vanish
  <2>2. \A p \in Policies : registry'[p].weight = Unloaded(p)
    BY <2>1 DEF ColdRollout
  <2> QED
    BY <2>1, <2>2, StartPublic DEF BInv, Public, CommittedTxs
<1>6. CASE Fault
  BY <1>6, <1>a DEF Fault
<1>7. CASE StartCycle
  <2>1. job'.snap = registry /\ job'.base = registry[job'.target].weight
    BY <1>7 DEF StartCycle, PhaseJob
  <2> QED
    BY <1>7, <2>1 DEF StartCycle, BInv, Public, CommittedTxs
<1>8. CASE Raise
  BY <1>8, <1>a DEF Raise
<1>9. CASE Rollout
  <2>1. job'.base = job.base /\ job'.snap = job.snap /\ job'.target = job.target
    BY <1>9 DEF Rollout, TInv, TypeOK, Input
  <2> QED
    BY <1>9, <1>a, <2>1 DEF Rollout
<1>10. CASE Prepare
  <2>1. /\ inputs' = inputs \cup {job} /\ UNCHANGED <<commits, registry>>
        /\ pc' \in {"commit", "update"}
    BY <1>10 DEF Prepare
  <2>2. /\ job.base = job.snap[job.target].weight
        /\ \A p \in Policies : Public(job.snap[p].weight)
    BY <1>10 DEF Prepare, BInv
  <2>3. job.tx \notin TxsOf(job.base)
    <3>1. CASE \E i \in inputs : i.tx = job.tx
      BY <1>10, <3>1 DEF Prepare, Raises, Conflicts, BInv
    <3>2. CASE \A i \in inputs : i.tx # job.tx
      <4>1. job.tx \notin CommittedTxs
        <5>1. \A m \in commits : m.input \in inputs /\ m.input.tx = m.tx
          BY DEF RInv, RecordsAgree
        <5> QED
          BY <3>2, <5>1 DEF CommittedTxs
      <4>2. job.target \in Policies
        BY DEF TInv, TypeOK, Input
      <4> QED
        BY <2>2, <4>1, <4>2 DEF Public
    <3> QED
      BY <3>1, <3>2
  <2> QED
    BY <2>1, <2>2, <2>3 DEF BInv, Public, CommittedTxs
<1>11. CASE Update
  BY <1>11, <1>a DEF Update
<1>12. CASE RecordUpdate
  BY <1>12, <1>a DEF RecordUpdate, AfterRecord
<1>13. CASE Reload
  BY <1>13, <1>a DEF Reload
<1>14. CASE Sync
  <2>1. pc' \in {"advance", "publish", "commit"}
    BY <1>14 DEF Sync, AfterSync
  <2> QED
    BY <1>14, <1>a, <2>1 DEF Sync
<1>15. CASE Publish
  BY <1>15, <1>a DEF Publish
<1>16. CASE Commit
  <2>1. /\ commits' = commits \cup {ManifestOf}
        /\ UNCHANGED <<inputs, registry, job>>
        /\ pc' \in {"idle", "advance"}
    BY <1>16 DEF Commit
  <2>2. ManifestOf.weight = version /\ ManifestOf.tx = job.tx
    BY DEF ManifestOf
  <2>3. /\ job \in inputs
        /\ IF job.batch = Empty THEN version = job.base ELSE PendingOf \in pendings
    BY <1>16 DEF Commit, RInv, Placed, JobDurable, InHand
  <2>4. Public(job.base)
    BY <2>3 DEF BInv, TInv, TypeOK, Input
  <2>5. TxsOf(version) \subseteq TxsOf(job.base) \cup {job.tx}
    <3>1. CASE job.batch = Empty
      BY <2>3, <3>1
    <3>2. CASE job.batch # Empty
      <4>1. PICK n \in Noise : version = Applied(job.base, job.tx, job.batch, n)
        BY <2>3, <3>2 DEF PendingOf, RInv, PendingsStepped, SteppedFrom
      <4>2. job.base \in Weight /\ job.tx \in Tx /\ job.batch \in Batches
        BY <3>2 DEF TInv, TypeOK, Input
      <4> QED
        BY <4>1, <4>2, TxsOfApplied
    <3> QED
      BY <3>1, <3>2
  <2>6. CommittedTxs' = CommittedTxs \cup {job.tx}
    BY <2>1, <2>2 DEF CommittedTxs
  <2>7. TxsOf(version) \subseteq CommittedTxs'
    BY <2>4, <2>5, <2>6 DEF Public
  <2>8. CommittedTxs \subseteq CommittedTxs'
    BY <2>6
  <2>9. (\A m \in commits : Public(m.weight))'
    <3>1. \A m \in commits : TxsOf(m.weight) \subseteq CommittedTxs'
      BY <2>8 DEF BInv, Public
    <3>2. \A m \in commits' : TxsOf(m.weight) \subseteq CommittedTxs'
      BY <2>1, <2>2, <2>7, <3>1
    <3> QED
      BY <3>2 DEF Public
  <2>10. /\ \A p \in Policies : TxsOf(registry[p].weight) \subseteq CommittedTxs'
         /\ \A i \in inputs, p \in Policies :
              TxsOf(i.snap[p].weight) \subseteq CommittedTxs'
    BY <2>8 DEF BInv, Public
  <2>11. (\A p \in Policies : Public(registry[p].weight))'
    BY <2>1, <2>10 DEF Public
  <2>12. \A i \in inputs :
           /\ i.base = i.snap[i.target].weight
           /\ i.tx \notin TxsOf(i.base)
    BY DEF BInv
  <2>13. (\A i \in inputs :
            /\ i.base = i.snap[i.target].weight
            /\ \A p \in Policies : Public(i.snap[p].weight)
            /\ i.tx \notin TxsOf(i.base))'
    BY <2>1, <2>10, <2>12 DEF Public
  <2>14. pc' \notin {"rollout", "prepare"}
    BY <2>1
  <2> QED
    BY <2>9, <2>11, <2>13, <2>14 DEF BInv
<1>17. CASE Advance
  <2>1. PICK m \in commits : m.tx = job.tx /\ m.weight = rev.weight
    BY <1>17 DEF Advance, RInv, InHand
  <2>2. \A p \in Policies : Public(registry'[p].weight)
    BY <1>17, <2>1 DEF Advance, BInv, TInv, TypeOK, Input
  <2>3. pc' = "rollout" => job'.snap = registry' /\ job'.base = registry'[job'.target].weight
    <3>1. pc' = "rollout" => job' = PhaseJob(at, "sub_update", registry')
      BY <1>17 DEF Advance
    <3>2. \A R : /\ PhaseJob(at, "sub_update", R).snap = R
                /\ PhaseJob(at, "sub_update", R).base
                     = R[PhaseJob(at, "sub_update", R).target].weight
      BY DEF PhaseJob
    <3> QED
      BY <3>1, <3>2
  <2> QED
    BY <1>17, <2>2, <2>3 DEF Advance, BInv, Public, CommittedTxs
<1>18. CASE UNCHANGED vars
  BY <1>18, <1>a DEF vars
<1> QED
  BY <1>1, <1>2, <1>3, <1>4, <1>6, <1>7, <1>8, <1>9, <1>10, <1>11, <1>12, <1>13,
     <1>14, <1>15, <1>16, <1>17, <1>18 DEF Next, PhaseStep

\* The optimizer advances once per transaction: a recorded result is the base of its
\* input and one step of its batch, and that base holds no step of the transaction.
THEOREM OneStepHolds == Spec => []OneStep
<1>1. Init => TInv /\ RInv /\ BInv
  BY TypeInit, RecordsInit, BasesInit
<1>2. TInv /\ RInv /\ BInv /\ [Next]_vars => (TInv /\ RInv /\ BInv)'
  BY TypeStep, RecordsStep, BasesStep
<1>3. RInv /\ BInv => OneStep
  BY DEF RInv, RecordsAgree, PendingsStepped, SteppedFrom, BInv, OneStep, TxsOf
<1> QED
  BY <1>1, <1>2, <1>3, PTL DEF Spec

-----------------------------------------------------------------------------
(* Checkpoints                                                               *)

\* Whatever a record, the registry or the backend refers to has its checkpoint.
SInv ==
  /\ \A p \in Policies : Start(p) \in saved
  /\ CheckpointsSaved
  /\ \A u \in updates : u.result \in saved
  /\ pc = "record" => version \in saved
  /\ proc = "train" => \A p \in Policies : registry[p].weight \in saved
  /\ pc \in {"rollout", "prepare"} => \A p \in Policies : job.snap[p].weight \in saved

\* The checkpoint a cycle is handed is on disk.
LEMMA CheckpointForSaved ==
  ASSUME TInv, SInv, NEW c, NEW p \in Policies
  PROVE  CheckpointFor(c, p) \in saved
<1> DEFINE S == {m \in CommittedFor(p) : m.tx.cycle < c}
<1>1. S \subseteq commits
  BY DEF CommittedFor
<1>2. S \subseteq Manifest
  BY <1>1 DEF TInv, TypeOK
<1>3. \/ CommittedWeight(S, p) = Start(p)
      \/ \E m \in S : CommittedWeight(S, p) = m.weight
  <2> HIDE DEF S
  <2> QED
    BY <1>2, CommittedWeightOf
<1>4. CommittedWeight(S, p) \in saved
  <2> HIDE DEF S
  <2> QED
    BY <1>1, <1>3 DEF SInv, CheckpointsSaved
<1> QED
  BY <1>4 DEF CheckpointFor

\* The audited starting checkpoints are on disk.
LEMMA SavedInit == Init => SInv
BY DEF Init, SInv, CheckpointsSaved

\* Every step keeps the weights in use and in records on disk: one case per action.
LEMMA SavedStep == TInv /\ RInv /\ BInv /\ SInv /\ [Next]_vars => SInv'
<1> SUFFICES ASSUME TInv, RInv, BInv, SInv, [Next]_vars PROVE SInv'
  OBVIOUS
<1> USE DEF SInv, CheckpointsSaved, durable, backend, frame, Idle
<1>1. ASSUME NEW c \in Cycles, LaunchTrain(c) PROVE SInv'
  <2>1. \A p \in Policies : registry'[p].weight = CheckpointFor(c, p)
    BY <1>1 DEF LaunchTrain, LaunchRollout
  <2>2. \A p \in Policies : CheckpointFor(c, p) \in saved
    BY CheckpointForSaved
  <2> QED
    BY <1>1, <2>1, <2>2 DEF LaunchTrain
<1>2. ASSUME NEW t \in Tx, LaunchTool(t) PROVE SInv'
  BY <1>2 DEF LaunchTool
<1>3. ASSUME NEW t \in Tx, Recover(t) PROVE SInv'
  BY <1>3 DEF Recover, Resumption, ResumePoint
<1>4. CASE Exit
  BY <1>4 DEF Exit, Vanish
<1>5. CASE Crash
  BY <1>5 DEF Crash, Vanish
<1>6. CASE Fault
  BY <1>6 DEF Fault
<1>7. CASE StartCycle
  BY <1>7 DEF StartCycle, PhaseJob
<1>8. CASE Raise
  BY <1>8 DEF Raise
<1>9. CASE Rollout
  BY <1>9 DEF Rollout, TInv, TypeOK, Input
<1>10. CASE Prepare
  <2>1. job.base \in saved
    BY <1>10 DEF Prepare, BInv, TInv, TypeOK, Input
  <2> QED
    BY <1>10, <2>1 DEF Prepare
<1>11. CASE Update
  BY <1>11 DEF Update, SavedWith
<1>12. CASE RecordUpdate
  BY <1>12 DEF RecordUpdate, WithPending, PendingOf, AfterRecord
<1>13. CASE Reload
  BY <1>13 DEF Reload
<1>14. CASE Sync
  <2>1. pc' \in {"advance", "publish", "commit"}
    BY <1>14 DEF Sync, AfterSync
  <2> QED
    BY <1>14, <2>1 DEF Sync
<1>15. CASE Publish
  BY <1>15 DEF Publish
<1>16. CASE Commit
  <2>1. /\ job \in inputs
        /\ IF job.batch = Empty THEN version = job.base ELSE PendingOf \in pendings
    BY <1>16 DEF Commit, RInv, Placed, JobDurable, InHand
  <2>2. version \in saved
    BY <2>1 DEF PendingOf
  <2>3. ManifestOf.weight = version
    BY DEF ManifestOf
  <2> QED
    BY <1>16, <2>2, <2>3 DEF Commit
<1>17. CASE Advance
  <2>1. rev.weight \in saved
    BY <1>17 DEF Advance, RInv, InHand
  <2>2. registry' = [registry EXCEPT ![job.target] = rev] /\ registry \in [Policies -> Revision]
    BY <1>17 DEF Advance, TInv, TypeOK
  <2>3. proc = "train" => \A p \in Policies : registry'[p].weight \in saved
    BY <2>1, <2>2
  <2>4. pc' = "rollout" => job' = PhaseJob(at, "sub_update", registry') /\ mode = "cycle"
    BY <1>17 DEF Advance
  <2>5. pc' = "rollout" => job'.snap = registry'
    BY <2>4 DEF PhaseJob
  <2> QED
    BY <1>17, <2>3, <2>4, <2>5 DEF Advance, RInv, Placed
<1>18. CASE UNCHANGED vars
  BY <1>18 DEF vars
<1> QED
  BY <1>1, <1>2, <1>3, <1>4, <1>5, <1>6, <1>7, <1>8, <1>9, <1>10, <1>11, <1>12, <1>13,
     <1>14, <1>15, <1>16, <1>17, <1>18 DEF Next, PhaseStep

\* Every weight a persisted record refers to has its checkpoint on disk.
THEOREM CheckpointsSavedHolds == Spec => []CheckpointsSaved
<1>1. Init => TInv /\ RInv /\ BInv /\ SInv
  BY TypeInit, RecordsInit, BasesInit, SavedInit
<1>2. TInv /\ RInv /\ BInv /\ SInv /\ [Next]_vars => (TInv /\ RInv /\ BInv /\ SInv)'
  BY TypeStep, RecordsStep, BasesStep, SavedStep
<1>3. SInv => CheckpointsSaved
  BY DEF SInv
<1> QED
  BY <1>1, <1>2, <1>3, PTL DEF Spec

\* The records belong together, and the checkpoints they refer to are on disk.
THEOREM RecordsSoundHolds == Spec => []RecordsSound
<1>1. UniqueRecords /\ RecordsAgree /\ CheckpointsSaved => RecordsSound
  BY DEF RecordsSound
<1> QED
  BY <1>1, RecordsCorrect, CheckpointsSavedHolds, PTL

\* A phase leaves one record of each kind and one optimizer step.
THEOREM AppliedOnceHolds == Spec => []AppliedOnce
<1>1. UniqueRecords /\ RecordsAgree /\ OneStep => AppliedOnce
  BY DEF AppliedOnce
<1> QED
  BY <1>1, RecordsCorrect, OneStepHolds, PTL

-----------------------------------------------------------------------------
(* Recovery                                                                  *)

\* A recovery in progress holds the weights its next step asks for, and the records
\* it is going to write are not there yet.
VInv ==
  /\ mode # "cycle" =>
       /\ pc = "update" => weight[job.target] = job.base
       /\ pc \in {"update", "record"} => ~HasRecord(pendings, job.tx)
       /\ pc \in {"sync", "commit", "publish", "advance"} => weight[job.target] = version
       /\ pc \in {"commit", "publish"} => rev.weight = version
  /\ mode = "recover" /\ pc \in {"update", "record", "reload", "sync", "commit"} =>
       ~HasRecord(commits, job.tx)
  /\ proc = "none" => synced = {}
  /\ proc = "tool" =>
       /\ pc \in {"idle", "update", "record", "reload", "sync"} => synced = {}
       /\ pc \in {"commit", "publish", "advance"} => rollout[job.target] = rev
  /\ RecoveredState

\* No recovery runs at first.
LEMMA RecoveryInit == Init => VInv
BY DEF Init, VInv, RecoveredState, Recovered

\* Every step keeps a recovery on its way: one case per action.
LEMMA RecoveryStep == TInv /\ RInv /\ VInv /\ [Next]_vars => VInv'
<1> SUFFICES ASSUME TInv, RInv, VInv, [Next]_vars PROVE VInv'
  OBVIOUS
<1> USE DEF VInv, RecoveredState, Recovered, HasRecord, durable, backend, frame, Idle
<1>1. ASSUME NEW c \in Cycles, LaunchTrain(c) PROVE VInv'
  BY <1>1 DEF LaunchTrain, RInv, Placed
<1>2. ASSUME NEW t \in Tx, LaunchTool(t) PROVE VInv'
  BY <1>2 DEF LaunchTool
<1>3. ASSUME NEW t \in Tx, Recover(t) PROVE VInv'
  <2>1. PICK i \in inputs :
          LET point == Resumption(i) IN
          /\ i.tx = t
          /\ point.from \in saved
          /\ job' = i
          /\ version' = point.from
          /\ weight' = [weight EXCEPT ![i.target] = point.from]
          /\ mode' = point.mode
          /\ pc' = point.next
    BY <1>3 DEF Recover
  <2>2. /\ Resumption(i).next \in {"sync", "update"}
        /\ Resumption(i).next = "update" => Resumption(i).from = i.base
        /\ Resumption(i).next = "update" => ~HasRecord(pendings, i.tx)
        /\ Resumption(i).mode = "recover" => ~HasRecord(commits, i.tx)
    BY DEF Resumption, ResumePoint
  <2>3. weight'[i.target] = version'
    BY <2>1 DEF TInv, TypeOK, Input
  <2> QED
    BY <1>3, <2>1, <2>2, <2>3 DEF Recover, Recoverable
<1>4. CASE Exit
  BY <1>4 DEF Exit, Vanish
<1>5. CASE Crash
  BY <1>5 DEF Crash, Vanish
<1>6. CASE Fault
  BY <1>6 DEF Fault
<1>7. CASE StartCycle
  BY <1>7 DEF StartCycle
<1>8. CASE Raise
  BY <1>8 DEF Raise
<1>9. CASE Rollout
  BY <1>9 DEF Rollout, RInv, Placed
<1>10. CASE Prepare
  BY <1>10 DEF Prepare, RInv, Placed
<1>11. CASE Update
  BY <1>11 DEF Update
<1>12. CASE RecordUpdate
  BY <1>12 DEF RecordUpdate, AfterRecord, RInv, Placed, TInv, TypeOK
<1>13. CASE Reload
  BY <1>13 DEF Reload, TInv, TypeOK, Input
<1>14. CASE Sync
  <2>1. pc' \in {"advance", "publish", "commit"}
        /\ (pc' = "publish" => mode = "restore")
    BY <1>14 DEF Sync, AfterSync
  <2>2. rev'.weight = version
    BY <1>14 DEF Sync, Remembered, NewRevision
  <2>3. proc = "tool" => rollout'[job.target] = rev'
    BY <1>14 DEF Sync, Remembered, Serve, TInv, TypeOK, Input
  <2> QED
    BY <1>14, <2>1, <2>2, <2>3 DEF Sync, RInv, Placed, TInv, TypeOK
<1>15. CASE Publish
  BY <1>15 DEF Publish
<1>16. CASE Commit
  BY <1>16 DEF Commit, RInv, Placed
<1>17. CASE Advance
  <2>1. mode # "cycle" => registry'[job.target] = rev
    BY <1>17 DEF Advance, TInv, TypeOK, Input
  <2>2. rev.weight = version /\ \E m \in commits : m.tx = job.tx /\ m.weight = version
    BY <1>17 DEF Advance, RInv, InHand
  <2>3. /\ pc' \in {"recovered", "rollout", "idle"}
        /\ (pc' = "recovered" => mode # "cycle" /\ job' = job)
        /\ (pc' = "idle" => mode = "cycle")
    BY <1>17 DEF Advance
  <2> QED
    BY <1>17, <2>1, <2>2, <2>3 DEF Advance, RInv, Placed
<1>18. CASE UNCHANGED vars
  BY <1>18 DEF vars
<1> QED
  BY <1>1, <1>2, <1>3, <1>4, <1>5, <1>6, <1>7, <1>8, <1>9, <1>10, <1>11, <1>12, <1>13,
     <1>14, <1>15, <1>16, <1>17, <1>18 DEF Next, PhaseStep

\* Once recover found its input no step of it is refused, and when it returns the
\* train weights, the registry and a manifest agree (and so does what the recovery
\* command serves).
THEOREM RecoveryCorrect == Spec => []RecoverySound
<1>1. Init => TInv /\ RInv /\ VInv
  BY TypeInit, RecordsInit, RecoveryInit
<1>2. TInv /\ RInv /\ VInv /\ [Next]_vars => (TInv /\ RInv /\ VInv)'
  BY TypeStep, RecordsStep, RecoveryStep
<1>3. TInv /\ RInv /\ VInv => RecoveryCompletes
  <2> SUFFICES ASSUME TInv, RInv, VInv, mode # "cycle", Raises PROVE FALSE
    BY DEF RecoveryCompletes
  <2> USE DEF RInv, Placed, JobDurable, UpdatesStepped, UniqueRecords, VInv
  <2>1. pc \notin {"rollout", "prepare"}
    OBVIOUS
  <2>2. CASE pc = "update"
    BY <2>2 DEF Raises
  <2>3. CASE pc = "record"
    BY <2>3 DEF Raises, Conflicts, PendingOf, HasRecord
  <2>4. CASE pc = "commit"
    <3>1. mode = "recover"
      BY <2>4 DEF TInv, TypeOK
    <3> QED
      BY <2>4, <3>1 DEF Raises, Conflicts, ManifestOf, HasRecord
  <2>5. CASE pc \in {"sync", "publish"}
    BY <2>5 DEF Raises
  <2> QED
    BY <2>1, <2>2, <2>3, <2>4, <2>5 DEF Raises
<1>4. VInv => RecoveredState
  BY DEF VInv
<1>5. TInv /\ RInv /\ VInv => RecoverySound
  BY <1>3, <1>4 DEF RecoverySound
<1> QED
  BY <1>1, <1>2, <1>5, PTL DEF Spec

-----------------------------------------------------------------------------
(* Fresh rollouts                                                            *)

BothPhases == {"main_update", "sub_update"} \subseteq CyclePhases

\* i is a Sub phase whose snapshot has the Main weights its cycle committed.
FreshMain(i) ==
  BothPhases /\ i.tx.phase = "sub_update" =>
    \E m \in commits :
      /\ m.tx = TxOf(i.tx.cycle, "main_update")
      /\ i.snap[MainPolicy].weight = m.weight

FInv ==
  /\ \A i \in inputs : FreshMain(i)
  /\ pc \in {"rollout", "prepare"} => FreshMain(job)
  /\ mode = "cycle" /\ pc \notin Idle \cup {"none"} => job.target = TargetOf(job.tx.phase)

\* No Sub phase is prepared at first.
LEMMA FreshInit == Init => FInv
BY DEF Init, FInv

\* A cycle with both phases starts with Main's.
LEMMA MainFirst == BothPhases => FirstPhase # "sub_update"
BY DEF BothPhases, CyclePhases, FirstPhase

\* Every step keeps Sub phases behind the manifest of their cycle's Main phase: one
\* case per action.
LEMMA FreshStep == TInv /\ RInv /\ FInv /\ [Next]_vars => FInv'
<1> SUFFICES ASSUME TInv, RInv, FInv, [Next]_vars PROVE FInv'
  OBVIOUS
<1> USE DEF FInv, FreshMain, durable, backend, frame, Idle
<1>1. ASSUME NEW c \in Cycles, LaunchTrain(c) PROVE FInv'
  BY <1>1 DEF LaunchTrain
<1>2. ASSUME NEW t \in Tx, LaunchTool(t) PROVE FInv'
  BY <1>2 DEF LaunchTool
<1>3. ASSUME NEW t \in Tx, Recover(t) PROVE FInv'
  BY <1>3 DEF Recover, Resumption, ResumePoint
<1>4. CASE Exit
  BY <1>4 DEF Exit, Vanish
<1>5. CASE Crash
  BY <1>5 DEF Crash, Vanish
<1>6. CASE Fault
  BY <1>6 DEF Fault
<1>7. CASE StartCycle
  <2>1. /\ PhaseJob(at, FirstPhase, registry).tx.phase = FirstPhase
        /\ PhaseJob(at, FirstPhase, registry).target = TargetOf(FirstPhase)
    BY DEF PhaseJob, TxOf
  <2> QED
    BY <1>7, <2>1, MainFirst DEF StartCycle
<1>8. CASE Raise
  BY <1>8 DEF Raise
<1>9. CASE Rollout
  BY <1>9 DEF Rollout, TInv, TypeOK, Input
<1>10. CASE Prepare
  BY <1>10 DEF Prepare
<1>11. CASE Update
  BY <1>11 DEF Update
<1>12. CASE RecordUpdate
  BY <1>12 DEF RecordUpdate, AfterRecord
<1>13. CASE Reload
  BY <1>13 DEF Reload
<1>14. CASE Sync
  <2>1. pc' \in {"advance", "publish", "commit"}
    BY <1>14 DEF Sync, AfterSync
  <2> QED
    BY <1>14, <2>1 DEF Sync
<1>15. CASE Publish
  BY <1>15 DEF Publish
<1>16. CASE Commit
  BY <1>16 DEF Commit
<1>17. CASE Advance
  <2>1. CASE pc' # "rollout"
    BY <1>17, <2>1 DEF Advance
  <2>2. CASE pc' = "rollout"
    <3>1. /\ mode = "cycle" /\ job.tx.phase = "main_update"
          /\ job' = PhaseJob(at, "sub_update", registry')
      BY <1>17, <2>2 DEF Advance
    <3>2. job'.tx = TxOf(at, "sub_update") /\ job'.snap = registry'
          /\ job'.target = TargetOf("sub_update")
      BY <3>1 DEF PhaseJob
    <3>3. job.tx = TxOf(at, "main_update")
      BY <1>17, <3>1 DEF Advance, TInv, OnCycle, TypeOK, Input, Tx, TxOf
    <3>4. PICK m \in commits : m.tx = job.tx /\ m.weight = rev.weight
      BY <1>17 DEF Advance, RInv, InHand
    <3>5. job.target = MainPolicy
      BY <1>17, <3>1 DEF Advance, TargetOf
    <3>6. registry'[MainPolicy] = rev
      BY <1>17, <3>5 DEF Advance, TInv, TypeOK, Policies
    <3>7. job'.tx.phase = "sub_update" /\ job'.tx.cycle = at
      BY <3>2 DEF TxOf
    <3>8. UNCHANGED <<inputs, commits>>
      BY <1>17 DEF Advance
    <3>9. FreshMain(job)'
      BY <3>2, <3>3, <3>4, <3>6, <3>7, <3>8
    <3> QED
      BY <3>2, <3>7, <3>8, <3>9
  <2> QED
    BY <2>1, <2>2
<1>18. CASE UNCHANGED vars
  BY <1>18 DEF vars
<1> QED
  BY <1>1, <1>2, <1>3, <1>4, <1>5, <1>6, <1>7, <1>8, <1>9, <1>10, <1>11, <1>12, <1>13,
     <1>14, <1>15, <1>16, <1>17, <1>18 DEF Next, PhaseStep

\* A Sub phase only trains on rollouts sampled with the Main weights of its own cycle.
THEOREM FreshSubHolds == Spec => []FreshSub
<1>1. Init => TInv /\ RInv /\ FInv
  BY TypeInit, RecordsInit, FreshInit
<1>2. TInv /\ RInv /\ FInv /\ [Next]_vars => (TInv /\ RInv /\ FInv)'
  BY TypeStep, RecordsStep, FreshStep
<1>3. FInv => FreshSub
  BY DEF FInv, FreshMain, BothPhases, FreshSub
<1> QED
  BY <1>1, <1>2, <1>3, PTL DEF Spec

-----------------------------------------------------------------------------
(***************************************************************************)
(* The phase transactions implement the phase ledger.                      *)
(***************************************************************************)

-----------------------------------------------------------------------------
(* The schedule *)

\* Everything that the schedule puts before t is committed, and t is in the schedule.
InOrder(t) ==
  /\ t.phase \in CyclePhases
  /\ \A c \in Cycles : c < t.cycle => CycleCommitted(c)
  /\ t.phase = "sub_update" /\ "main_update" \in CyclePhases
       => HasRecord(commits, TxOf(t.cycle, "main_update"))

ManifestsOrdered ==
  \A m \in commits : InOrder(m.tx) /\ m.input.target = TargetOf(m.tx.phase)

\* An input without a manifest is the next phase of the schedule, based on the weights
\* its target has in public.
InputsDue ==
  \A i \in inputs :
    /\ i.batch = Empty => i.tx.phase = "sub_update"
    /\ i.target = TargetOf(i.tx.phase)
    /\ ~HasRecord(commits, i.tx) => InOrder(i.tx) /\ i.base = PublicWeight(i.target)

\* A cycle works for a phase of the topology, and under the registry as it is.
JobPlanned ==
  /\ pc = "prepare" /\ job.batch = Empty => job.tx.phase = "sub_update"
  /\ pc \in {"rollout", "prepare"} => job.tx.phase \in CyclePhases
  /\ mode = "cycle" /\ pc \in {"prepare", "update", "record", "sync", "commit", "advance"}
       => job.snap = registry

\* Registry r carries for policy p what cycle c takes up, or what that cycle or a later
\* one committed.
Carries(r, c, p) ==
  \/ r[p].weight = CheckpointFor(c, p)
  \/ \E m \in CommittedFor(p) : m.tx.cycle >= c /\ m.weight = r[p].weight

CycleReached ==
  proc = "train" =>
    /\ \A c \in Cycles : c < at => CycleCommitted(c)
    /\ \A p \in Policies : Carries(registry, at, p)
    /\ pc # "idle" => job.tx.cycle >= at - 1

LInv == ManifestsOrdered /\ InputsDue /\ JobPlanned /\ CycleReached

\* Two phases of a topology have two targets.
LEMMA TargetsDiffer ==
  ASSUME NEW x \in CyclePhases, NEW y \in CyclePhases, TargetOf(x) = TargetOf(y)
  PROVE  x = y
BY TrainingAssumption
DEF CyclePhases, TargetOf, SharedTrainable, Roles

\* Every topology has a phase, and its first phase is among them.
LEMMA FirstScheduled == FirstPhase \in CyclePhases
BY TrainingAssumption DEF FirstPhase, CyclePhases, Roles

\* The schedule is total: of two phases that are due one is committed, or they are
\* the same.
LEMMA OneDue ==
  ASSUME NEW t \in Tx, NEW u \in Tx, InOrder(t), InOrder(u),
         ~HasRecord(commits, t), ~HasRecord(commits, u)
  PROVE  t = u
<1>0. /\ t = TxOf(t.cycle, t.phase) /\ u = TxOf(u.cycle, u.phase)
      /\ t.cycle \in Cycles /\ u.cycle \in Cycles
      /\ t.phase \in CyclePhases /\ u.phase \in CyclePhases
  BY DEF Tx, TxOf, InOrder
<1>1. ~(t.cycle < u.cycle) /\ ~(u.cycle < t.cycle)
  BY <1>0 DEF InOrder, CycleCommitted
<1>2. t.cycle = u.cycle
  BY <1>0, <1>1 DEF Cycles
<1>3. t.phase = u.phase
  <2>1. CASE "joint_update" \in CyclePhases
    BY <1>0, <2>1 DEF CyclePhases
  <2>2. CASE "joint_update" \notin CyclePhases
    <3>1. CyclePhases \subseteq {"main_update", "sub_update"}
      BY <2>2 DEF CyclePhases
    <3> QED
      BY <1>0, <1>2, <3>1 DEF InOrder
  <2> QED
    BY <2>1, <2>2
<1> QED
  BY <1>0, <1>2, <1>3

\* No manifest is of a later cycle than a phase that is due.
LEMMA NoneLater ==
  ASSUME TInv, ManifestsOrdered, NEW t \in Tx, InOrder(t), ~HasRecord(commits, t),
         NEW m \in commits
  PROVE  m.tx.cycle <= t.cycle
<1>1. /\ t = TxOf(t.cycle, t.phase) /\ t.cycle \in Cycles /\ t.phase \in CyclePhases
      /\ m.tx.cycle \in Cycles
  BY DEF Tx, TxOf, InOrder, TInv, TypeOK, Manifest
<1>2. ~(t.cycle < m.tx.cycle)
  BY <1>1 DEF ManifestsOrdered, InOrder, CycleCommitted
<1> QED
  BY <1>1, <1>2 DEF Cycles

\* Where one manifest of a policy is the latest of a set and alone in its cycle, it gives
\* the policy's weights.
LEMMA LatestGives ==
  ASSUME NEW S, NEW p, NEW m \in S,
         \A n \in S : n.tx.cycle <= m.tx.cycle,
         \A n \in S : m.tx.cycle <= n.tx.cycle => n = m
  PROVE  CommittedWeight(S, p) = m.weight
<1>1. m.tx.cycle <= m.tx.cycle
  OBVIOUS
<1>2. Latest(S) = {m}
  BY DEF Latest
<1>3. (CHOOSE n \in Latest(S) : TRUE) = m
  BY <1>2
<1> QED
  BY <1>3 DEF CommittedWeight

\* Two manifests of one policy and one cycle are the same.
LEMMA OneManifest ==
  ASSUME TInv, RInv, ManifestsOrdered, NEW m \in commits, NEW n \in commits,
         m.input.target = n.input.target, m.tx.cycle = n.tx.cycle
  PROVE  m = n
<1>1. m.tx.phase = n.tx.phase
  BY TargetsDiffer DEF ManifestsOrdered, InOrder
<1>2. m.tx = n.tx
  BY <1>1 DEF TInv, TypeOK, Manifest, Tx
<1> QED
  BY <1>2 DEF RInv, UniqueRecords

\* A cycle that follows a manifest of its predecessor takes up what that one committed.
LEMMA CheckpointAfter ==
  TInv /\ RInv /\ ManifestsOrdered =>
    \A p \in Policies : \A m \in CommittedFor(p) :
      CheckpointFor(m.tx.cycle + 1, p) = m.weight
<1> SUFFICES ASSUME TInv, RInv, ManifestsOrdered, NEW p \in Policies,
                    NEW m \in CommittedFor(p)
             PROVE  CheckpointFor(m.tx.cycle + 1, p) = m.weight
  OBVIOUS
<1> DEFINE S == {n \in CommittedFor(p) : n.tx.cycle < m.tx.cycle + 1}
<1>1. \A n \in commits : n.tx.cycle \in Int
  BY DEF TInv, TypeOK, Manifest, Tx, Cycles
<1>2. S \subseteq commits /\ m \in commits /\ \A n \in S : n.input.target = m.input.target
  BY DEF CommittedFor
<1>3. m \in S /\ \A n \in S : n.tx.cycle <= m.tx.cycle
  BY <1>1, <1>2
<1>4. \A n \in S : m.tx.cycle <= n.tx.cycle => n = m
  <2> SUFFICES ASSUME NEW n \in S, m.tx.cycle <= n.tx.cycle PROVE n = m
    OBVIOUS
  <2>1. n \in commits /\ m.input.target = n.input.target /\ n.tx.cycle <= m.tx.cycle
    BY <1>2, <1>3
  <2>2. m.tx.cycle = n.tx.cycle
    BY <1>1, <1>2, <2>1
  <2> QED
    BY <1>2, <2>1, <2>2, OneManifest
<1>5. CommittedWeight(S, p) = m.weight
  <2> HIDE DEF S
  <2> QED
    BY <1>3, <1>4, LatestGives
<1> QED
  BY <1>5 DEF CheckpointFor

\* A cycle that follows one in which a policy committed nothing takes up what that one did.
LEMMA CheckpointCarried ==
  TInv => \A p \in Policies, c \in Int :
            (\A m \in CommittedFor(p) : m.tx.cycle # c)
              => CheckpointFor(c + 1, p) = CheckpointFor(c, p)
<1> SUFFICES ASSUME TInv, NEW p \in Policies, NEW c \in Int,
                    \A m \in CommittedFor(p) : m.tx.cycle # c
             PROVE  CheckpointFor(c + 1, p) = CheckpointFor(c, p)
  OBVIOUS
<1>1. \A m \in CommittedFor(p) : m.tx.cycle \in Int
  BY DEF CommittedFor, TInv, TypeOK, Manifest, Tx, Cycles
<1>2. {m \in CommittedFor(p) : m.tx.cycle < c + 1} = {m \in CommittedFor(p) : m.tx.cycle < c}
  BY <1>1
<1> QED
  BY <1>2 DEF CheckpointFor

\* A policy that no later cycle committed for has its latest checkpoint in public.
LEMMA PublicIsCheckpoint ==
  ASSUME NEW c, NEW p, \A m \in CommittedFor(p) : m.tx.cycle < c
  PROVE  PublicWeight(p) = CheckpointFor(c, p)
<1>1. {m \in CommittedFor(p) : m.tx.cycle < c} = CommittedFor(p)
  OBVIOUS
<1> QED
  BY <1>1 DEF PublicWeight, CheckpointFor

\* Once the last phase of a cycle is committed the cycle is complete, and the next one
\* takes up what the phase committed and what its registry carried for the other policy.
Completes ==
  \A i \in inputs, n \in commits :
    ( /\ n.tx = i.tx
      /\ i.tx.phase = "main_update" => "sub_update" \notin CyclePhases
      /\ \A p \in Policies : Carries(i.snap, i.tx.cycle, p) )
    => /\ CycleCommitted(i.tx.cycle)
       /\ \A p \in Policies \ {TargetOf(i.tx.phase)} : Carries(i.snap, i.tx.cycle + 1, p)
       /\ CheckpointFor(i.tx.cycle + 1, TargetOf(i.tx.phase)) = n.weight

\* The last manifest of a cycle completes it.
LEMMA CycleEnds == TInv /\ RInv /\ FInv /\ ManifestsOrdered => Completes
<1> SUFFICES ASSUME TInv, RInv, FInv, ManifestsOrdered, NEW i \in inputs, NEW n \in commits,
                    n.tx = i.tx,
                    i.tx.phase = "main_update" => "sub_update" \notin CyclePhases,
                    \A p \in Policies : Carries(i.snap, i.tx.cycle, p)
             PROVE  /\ CycleCommitted(i.tx.cycle)
                    /\ \A p \in Policies \ {TargetOf(i.tx.phase)} :
                         Carries(i.snap, i.tx.cycle + 1, p)
                    /\ CheckpointFor(i.tx.cycle + 1, TargetOf(i.tx.phase)) = n.weight
  BY DEF Completes
<1> DEFINE c == i.tx.cycle
           ph == i.tx.phase
<1>1. /\ i.tx = TxOf(c, ph) /\ c \in Cycles /\ c \in Int
      /\ TargetOf(ph) \in Policies
  BY PhasesTyped DEF TInv, TypeOK, Input, Tx, TxOf, Cycles
<1>2. InOrder(i.tx) /\ ph \in CyclePhases /\ n.input.target = TargetOf(ph)
  BY DEF ManifestsOrdered, InOrder
<1>3. \A x \in CyclePhases : x = ph \/ (x = "main_update" /\ ph = "sub_update")
  BY <1>2 DEF CyclePhases
<1>4. CycleCommitted(c)
  <2> SUFFICES ASSUME NEW x \in CyclePhases PROVE HasRecord(commits, TxOf(c, x))
    BY DEF CycleCommitted
  <2>1. CASE x = ph
    BY <1>1, <2>1 DEF HasRecord
  <2>2. CASE x = "main_update" /\ ph = "sub_update"
    BY <1>2, <2>2 DEF InOrder
  <2> QED
    BY <1>3, <2>1, <2>2
<1>5. n \in CommittedFor(TargetOf(ph)) /\ n.tx.cycle = c
  BY <1>2 DEF CommittedFor
<1>6. CheckpointFor(c + 1, TargetOf(ph)) = n.weight
  BY <1>1, <1>5, CheckpointAfter
<1>7. ASSUME NEW p \in Policies \ {TargetOf(ph)} PROVE Carries(i.snap, c + 1, p)
  <2>1. CASE \E m \in CommittedFor(p) : m.tx.cycle >= c /\ m.weight = i.snap[p].weight
    <3>1. PICK m \in CommittedFor(p) : m.tx.cycle >= c /\ m.weight = i.snap[p].weight
      BY <2>1
    <3>2. m.tx.cycle \in Int
      BY DEF CommittedFor, TInv, TypeOK, Manifest, Tx, Cycles
    <3>3. CASE m.tx.cycle = c
      BY <3>1, <3>3, CheckpointAfter DEF Carries
    <3>4. CASE m.tx.cycle # c
      BY <1>1, <3>1, <3>2, <3>4 DEF Carries
    <3> QED
      BY <3>3, <3>4
  <2>2. CASE i.snap[p].weight = CheckpointFor(c, p)
    <3>1. CASE \A m \in CommittedFor(p) : m.tx.cycle # c
      BY <1>1, <2>2, <3>1, CheckpointCarried DEF Carries
    <3>2. CASE \E m \in CommittedFor(p) : m.tx.cycle = c
      <4>1. PICK m \in CommittedFor(p) : m.tx.cycle = c
        BY <3>2
      <4>2. m \in commits /\ m.input.target = p
        BY DEF CommittedFor
      <4>3. m.tx.phase \in CyclePhases /\ TargetOf(m.tx.phase) = p
        BY <4>2 DEF ManifestsOrdered, InOrder
      <4>4. m.tx.phase = "main_update" /\ ph = "sub_update" /\ p = MainPolicy
        BY <1>3, <4>3 DEF TargetOf
      <4>5. BothPhases
        BY <1>2, <4>3, <4>4 DEF BothPhases
      <4>6. PICK k \in commits : /\ k.tx = TxOf(c, "main_update")
                                 /\ i.snap[MainPolicy].weight = k.weight
        BY <4>4, <4>5 DEF FInv, FreshMain
      <4>7. k \in CommittedFor(p) /\ k.tx.cycle = c
        <5>1. k.input.target = p
          BY <4>4, <4>6 DEF ManifestsOrdered, TargetOf, TxOf
        <5> QED
          BY <4>6, <5>1 DEF CommittedFor, TxOf
      <4> QED
        BY <4>4, <4>6, <4>7, CheckpointAfter DEF Carries
    <3> QED
      BY <3>1, <3>2
  <2> QED
    BY <2>1, <2>2 DEF Carries
<1> QED
  BY <1>4, <1>6, <1>7

-----------------------------------------------------------------------------
(* Every step keeps to the schedule *)

\* No manifest or input exists at first.
LEMMA OrderInit == Init => LInv
BY DEF Init, LInv, ManifestsOrdered, InputsDue, JobPlanned, CycleReached

\* What is in order stays so while manifests are added.
LEMMA OrderStays ==
  ASSUME commits \subseteq commits', NEW t, InOrder(t)
  PROVE  InOrder(t)'
BY DEF InOrder, CycleCommitted, HasRecord

\* A cycle whose predecessor is committed has all the earlier ones behind it.
LEMMA EarlierCommitted ==
  ASSUME ManifestsOrdered, NEW c \in Cycles, c = 1 \/ CycleCommitted(c - 1)
  PROVE  \A e \in Cycles : e < c => CycleCommitted(e)
<1> SUFFICES ASSUME NEW e \in Cycles, e < c PROVE CycleCommitted(e)
  OBVIOUS
<1>1. c # 1 /\ CycleCommitted(c - 1)
  BY DEF Cycles
<1>2. PICK m \in commits : m.tx = TxOf(c - 1, FirstPhase)
  BY <1>1, FirstScheduled DEF CycleCommitted, HasRecord
<1>3. e = c - 1 \/ e < m.tx.cycle
  BY <1>2 DEF TxOf, Cycles
<1> QED
  BY <1>1, <1>2, <1>3 DEF ManifestsOrdered, InOrder

\* Without a manifest of its own, a phase in order has a target whose weights in public
\* are those its cycle takes up.
LEMMA DueBase ==
  ASSUME TInv, RInv, ManifestsOrdered, NEW t \in Tx, InOrder(t), ~HasRecord(commits, t)
  PROVE  /\ \A m \in CommittedFor(TargetOf(t.phase)) : m.tx.cycle < t.cycle
         /\ PublicWeight(TargetOf(t.phase)) = CheckpointFor(t.cycle, TargetOf(t.phase))
<1>1. ASSUME NEW m \in CommittedFor(TargetOf(t.phase)) PROVE m.tx.cycle < t.cycle
  <2>1. m \in commits /\ m.input.target = TargetOf(t.phase)
    BY DEF CommittedFor
  <2>2. m.tx.cycle <= t.cycle /\ m.tx.cycle \in Int /\ t.cycle \in Int /\ m.tx \in Tx
    BY <2>1, NoneLater DEF TInv, TypeOK, Manifest, Tx, Cycles
  <2>3. m.tx.cycle # t.cycle
    <3> SUFFICES ASSUME m.tx.cycle = t.cycle PROVE FALSE
      OBVIOUS
    <3>1. m.tx.phase = t.phase
      BY <2>1, TargetsDiffer DEF ManifestsOrdered, InOrder
    <3>2. m.tx = t
      BY <2>2, <3>1 DEF Tx
    <3> QED
      BY <2>1, <3>2 DEF HasRecord
  <2> QED
    BY <2>2, <2>3
<1> QED
  BY <1>1, PublicIsCheckpoint

\* What a commit does to the manifests: nothing, when its transaction has one, or it adds
\* the next phase of the schedule, whose target had the base of its input in public.
LEMMA CommitDue ==
  ASSUME TInv, RInv, LInv, Commit
  PROVE  /\ job \in inputs /\ job.tx \in Tx /\ job.target = TargetOf(job.tx.phase)
         /\ ManifestOf.tx = job.tx /\ ManifestOf.input = job /\ ManifestOf.weight = version
         /\ ManifestOf \in commits'
         /\ HasRecord(commits, job.tx) => commits' = commits
         /\ ~HasRecord(commits, job.tx) =>
              InOrder(job.tx) /\ job.base = PublicWeight(job.target)
<1>1. job \in inputs /\ job.tx \in Tx
  BY DEF Commit, RInv, JobDurable, TInv, TypeOK, Input
<1>2. /\ job.target = TargetOf(job.tx.phase)
      /\ ~HasRecord(commits, job.tx) =>
           InOrder(job.tx) /\ job.base = PublicWeight(job.target)
  BY <1>1 DEF LInv, InputsDue
<1>3. ManifestOf.tx = job.tx /\ ManifestOf.input = job /\ ManifestOf.weight = version
  BY DEF ManifestOf
<1>4. commits' = commits \cup {ManifestOf} /\ ~Conflicts(commits, ManifestOf)
  BY DEF Commit, Raises
<1>5. HasRecord(commits, job.tx) => ManifestOf \in commits
  BY <1>3, <1>4 DEF HasRecord, Conflicts
<1> QED
  BY <1>1, <1>2, <1>3, <1>4, <1>5

\* A manifest that is added makes its weights public, and no others change.
LEMMA CommitPublic ==
  ASSUME TInv, RInv, LInv, Commit, ~HasRecord(commits, job.tx)
  PROVE  /\ PublicWeight(job.target)' = version
         /\ \A p : p # job.target => PublicWeight(p)' = PublicWeight(p)
<1> DEFINE S == {m \in commits' : m.input.target = job.target}
<1>1. /\ job.tx \in Tx /\ job.target = TargetOf(job.tx.phase) /\ InOrder(job.tx)
      /\ ManifestOf.tx = job.tx /\ ManifestOf.input = job /\ ManifestOf.weight = version
  BY CommitDue
<1>2. commits' = commits \cup {ManifestOf}
  BY DEF Commit
<1>3. S = CommittedFor(job.target) \cup {ManifestOf}
  BY <1>1, <1>2 DEF CommittedFor
<1>4. \A m \in CommittedFor(job.target) : m.tx.cycle < job.tx.cycle
  BY <1>1, DueBase DEF LInv
<1>5. job.tx.cycle \in Int /\ \A m \in CommittedFor(job.target) : m.tx.cycle \in Int
  BY <1>1 DEF CommittedFor, TInv, TypeOK, Manifest, Tx, Cycles
<1>6. /\ ManifestOf \in S /\ \A n \in S : n.tx.cycle <= ManifestOf.tx.cycle
      /\ \A n \in S : ManifestOf.tx.cycle <= n.tx.cycle => n = ManifestOf
  BY <1>1, <1>3, <1>4, <1>5
<1>7. CommittedWeight(S, job.target) = version
  <2> HIDE DEF S
  <2> QED
    BY <1>1, <1>6, LatestGives
<1>8. job.target' = job.target
  BY DEF Commit
<1>9. PublicWeight(job.target)' = version
  BY <1>7, <1>8 DEF PublicWeight, CommittedFor
<1>10. ASSUME NEW p, p # job.target PROVE PublicWeight(p)' = PublicWeight(p)
  <2>1. {m \in commits' : m.input.target = p} = CommittedFor(p)
    BY <1>1, <1>2, <1>10 DEF CommittedFor
  <2> QED
    BY <2>1 DEF PublicWeight, CommittedFor
<1> QED
  BY <1>9, <1>10

\* While no manifest or input is added, they keep to the schedule.
LEMMA RecordsStay ==
  ASSUME LInv, UNCHANGED <<commits, inputs>>
  PROVE  ManifestsOrdered' /\ InputsDue'
BY DEF LInv, ManifestsOrdered, InputsDue, InOrder, CycleCommitted, HasRecord, PublicWeight,
       CommittedFor

\* While neither the manifests nor the registry and the cycle change, a process that has
\* reached the cycle stays there.
LEMMA CycleStays ==
  ASSUME LInv, UNCHANGED <<commits, registry, at>>, proc' = "train" => proc = "train",
         pc' # "idle" => pc # "idle" /\ job'.tx = job.tx
  PROVE  CycleReached'
<1>1. \A c : CycleCommitted(c)' = CycleCommitted(c)
  BY DEF CycleCommitted, HasRecord
<1>2. \A p : Carries(registry, at, p)' = Carries(registry, at, p)
  BY DEF Carries, CheckpointFor, CommittedFor
<1> QED
  BY <1>1, <1>2 DEF LInv, CycleReached

\* A training process is launched with what its cycle takes up.
LEMMA LaunchOrder ==
  ASSUME TInv, LInv, NEW c \in Cycles, LaunchTrain(c)
  PROVE  LInv'
<1>1. /\ UNCHANGED <<commits, inputs>> /\ at' = c /\ pc' = "idle"
      /\ \A p \in Policies : registry'[p].weight = CheckpointFor(c, p)
  BY DEF LaunchTrain, LaunchRollout, durable
<1>2. ManifestsOrdered' /\ InputsDue'
  BY <1>1, RecordsStay
<1>3. JobPlanned'
  BY <1>1 DEF JobPlanned
<1>4. \A e \in Cycles : e < c => CycleCommitted(e)
  BY EarlierCommitted DEF LaunchTrain, LInv
<1>5. \A e : CycleCommitted(e)' = CycleCommitted(e)
  BY <1>1 DEF CycleCommitted, HasRecord
<1>6. \A p \in Policies : CheckpointFor(at, p)' = CheckpointFor(c, p)
  BY <1>1 DEF CheckpointFor, CommittedFor
<1>7. CycleReached'
  BY <1>1, <1>4, <1>5, <1>6 DEF CycleReached, Carries
<1> QED
  BY <1>2, <1>3, <1>7 DEF LInv

\* A recovery in a living process is of the interrupted phase or of a last commit, and
\* that is of the cycle before the process's at the earliest.
LEMMA RecoverOrder ==
  ASSUME TInv, LInv, NEW t \in Tx, Recover(t)
  PROVE  LInv'
<1>1. /\ UNCHANGED <<commits, inputs, registry, at, proc>> /\ Recoverable(t)
      /\ \E i \in inputs : job' = i /\ i.tx = t
  BY DEF Recover, durable
<1>2. ManifestsOrdered' /\ InputsDue'
  BY <1>1, RecordsStay
<1>3. mode' # "cycle" /\ pc' \in {"sync", "update"}
  BY DEF Recover, Resumption, ResumePoint
<1>4. JobPlanned'
  BY <1>3 DEF JobPlanned
<1>5. ASSUME proc = "train" PROVE t.cycle >= at - 1
  <2>1. CASE t = job.tx
    BY <1>1, <1>5, <2>1 DEF Recoverable, LInv, CycleReached
  <2>2. ASSUME NEW p \in Policies, NEW m \in Latest(CommittedFor(p)), t = m.tx
        PROVE  t.cycle >= at - 1
    <3>1. m \in commits /\ m.input.target = p /\ m.tx.cycle \in Int /\ m.tx.cycle >= 1
          /\ at \in 1 .. (MaxCycle + 1) /\ MaxCycle \in Nat
      BY TrainingAssumption DEF Latest, CommittedFor, TInv, TypeOK, Manifest, Tx, Cycles
    <3>2. CASE at = 1
      BY <2>2, <3>1, <3>2
    <3>3. CASE at # 1
      <4>1. at - 1 \in Cycles /\ at - 1 < at
        BY <3>1, <3>3 DEF Cycles
      <4>2. CycleCommitted(at - 1)
        BY <1>5, <4>1 DEF LInv, CycleReached
      <4>3. m.tx.phase \in CyclePhases /\ TargetOf(m.tx.phase) = p
        BY <3>1 DEF LInv, ManifestsOrdered, InOrder
      <4>4. PICK n \in commits : n.tx = TxOf(at - 1, m.tx.phase)
        BY <4>2, <4>3 DEF CycleCommitted, HasRecord
      <4>5. n \in CommittedFor(p) /\ n.tx.cycle = at - 1
        BY <4>3, <4>4 DEF LInv, ManifestsOrdered, CommittedFor, TxOf
      <4> QED
        BY <2>2, <3>1, <4>5 DEF Latest
    <3> QED
      BY <3>2, <3>3
  <2> QED
    BY <1>1, <1>5, <2>1, <2>2 DEF Recoverable
<1>6. \A c : CycleCommitted(c)' = CycleCommitted(c)
  BY <1>1 DEF CycleCommitted, HasRecord
<1>7. \A p : Carries(registry, at, p)' = Carries(registry, at, p)
  BY <1>1 DEF Carries, CheckpointFor, CommittedFor
<1>8. CycleReached'
  BY <1>1, <1>5, <1>6, <1>7 DEF LInv, CycleReached
<1> QED
  BY <1>2, <1>4, <1>8 DEF LInv

\* The input that is persisted is of the next phase of the schedule, or of one that has
\* its manifest.
LEMMA PrepareOrder ==
  ASSUME TInv, RInv, BInv, FInv, LInv, Prepare
  PROVE  LInv'
<1>1. /\ commits' = commits /\ inputs' = inputs \cup {job} /\ pc = "prepare"
      /\ UNCHANGED <<registry, at, job, mode, proc>> /\ pc' \in {"commit", "update"}
  BY DEF Prepare
<1>2. /\ mode = "cycle" /\ proc = "train" /\ job.tx.cycle = at /\ job.snap = registry
      /\ job.target = TargetOf(job.tx.phase) /\ job.tx.phase \in CyclePhases
      /\ job.tx \in Tx
  BY <1>1 DEF RInv, Placed, TInv, OnCycle, TypeOK, Input, Idle, FInv, LInv, JobPlanned
<1>3. InOrder(job.tx)
  <2>1. \A c \in Cycles : c < at => CycleCommitted(c)
    BY <1>2 DEF LInv, CycleReached
  <2>2. job.tx.phase = "sub_update" /\ "main_update" \in CyclePhases
          => HasRecord(commits, TxOf(job.tx.cycle, "main_update"))
    BY <1>1, <1>2 DEF FInv, FreshMain, BothPhases, HasRecord
  <2> QED
    BY <1>2, <2>1, <2>2 DEF InOrder
<1>4. ASSUME ~HasRecord(commits, job.tx) PROVE job.base = PublicWeight(job.target)
  <2>1. /\ \A m \in CommittedFor(job.target) : m.tx.cycle < at
        /\ PublicWeight(job.target) = CheckpointFor(at, job.target)
    BY <1>2, <1>3, <1>4, DueBase DEF LInv
  <2>2. job.target \in Policies /\ Carries(registry, at, job.target)
    BY <1>2 DEF LInv, CycleReached, TInv, TypeOK, Input
  <2>3. at \in Int /\ \A m \in CommittedFor(job.target) : m.tx.cycle \in Int
    BY DEF CommittedFor, TInv, TypeOK, Manifest, Tx, Cycles
  <2>4. registry[job.target].weight = CheckpointFor(at, job.target)
    BY <2>1, <2>2, <2>3 DEF Carries
  <2>5. job.base = registry[job.target].weight
    BY <1>1, <1>2 DEF BInv
  <2> QED
    BY <2>1, <2>4, <2>5
<1>5. job.batch = Empty => job.tx.phase = "sub_update"
  BY <1>1 DEF LInv, JobPlanned
<1>6. ManifestsOrdered' /\ (\A t : InOrder(t)' = InOrder(t))
      /\ (\A p : PublicWeight(p)' = PublicWeight(p))
  BY <1>1 DEF LInv, ManifestsOrdered, InOrder, CycleCommitted, HasRecord, PublicWeight,
              CommittedFor
<1>7. InputsDue'
  BY <1>1, <1>2, <1>3, <1>4, <1>5, <1>6 DEF LInv, InputsDue, HasRecord
<1>8. JobPlanned'
  BY <1>1, <1>2 DEF JobPlanned
<1>9. CycleReached'
  BY <1>1, CycleStays
<1> QED
  BY <1>6, <1>7, <1>8, <1>9 DEF LInv

\* A commit adds the next phase of the schedule, or nothing.
LEMMA CommitRecords ==
  ASSUME TInv, RInv, LInv, Commit
  PROVE  ManifestsOrdered' /\ InputsDue'
<1>1. /\ commits' = commits \cup {ManifestOf} /\ inputs' = inputs
      /\ commits \subseteq commits'
  BY DEF Commit
<1>2. CASE HasRecord(commits, job.tx)
  <2>1. UNCHANGED <<commits, inputs>>
    BY <1>1, <1>2, CommitDue
  <2> QED
    BY <2>1, RecordsStay
<1>3. CASE ~HasRecord(commits, job.tx)
  <2>1. /\ job \in inputs /\ job.tx \in Tx /\ job.target = TargetOf(job.tx.phase)
        /\ ManifestOf.tx = job.tx /\ ManifestOf.input = job /\ InOrder(job.tx)
    BY <1>3, CommitDue
  <2>2. \A t : InOrder(t) => InOrder(t)'
    BY <1>1, OrderStays
  <2>3. ManifestsOrdered'
    BY <1>1, <2>1, <2>2 DEF LInv, ManifestsOrdered
  <2>4. ASSUME NEW i \in inputs, ~HasRecord(commits', i.tx)
        PROVE  InOrder(i.tx)' /\ i.base = PublicWeight(i.target)'
    <3>1. ~HasRecord(commits, i.tx) /\ i.tx # job.tx /\ i.tx \in Tx
      BY <1>1, <2>1, <2>4 DEF HasRecord, TInv, TypeOK, Input
    <3>2. InOrder(i.tx) /\ i.base = PublicWeight(i.target)
      BY <3>1 DEF LInv, InputsDue
    <3> QED
      BY <1>3, <2>1, <3>1, <3>2, OneDue
  <2>5. InputsDue'
    BY <1>1, <2>4 DEF LInv, InputsDue
  <2> QED
    BY <2>3, <2>5
<1> QED
  BY <1>2, <1>3

\* A commit leaves a training process where it was: what it adds is not of an earlier cycle.
LEMMA CommitCarries ==
  ASSUME TInv, RInv, LInv, Commit, proc = "train"
  PROVE  /\ \A c \in Cycles : c < at => CycleCommitted(c)'
         /\ \A r, c : \A p \in Policies : r = registry /\ c = at => Carries(r, c, p)'
<1>1. commits' = commits \cup {ManifestOf} /\ pc = "commit"
  BY DEF Commit
<1>2. /\ \A c \in Cycles : c < at => CycleCommitted(c)
      /\ \A p \in Policies : Carries(registry, at, p)
      /\ job.tx.cycle >= at - 1
  BY <1>1 DEF LInv, CycleReached
<1>3. \A c \in Cycles : c < at => CycleCommitted(c)'
  BY <1>1, <1>2 DEF CycleCommitted, HasRecord
<1>4. HasRecord(commits, job.tx) \/ ManifestOf.tx.cycle >= at
  <2> SUFFICES ASSUME ~HasRecord(commits, job.tx) PROVE job.tx.cycle >= at
    BY CommitDue
  <2>1. job.tx \in Tx /\ InOrder(job.tx)
    BY CommitDue
  <2>2. /\ job.tx.cycle \in Cycles /\ job.tx.phase \in CyclePhases
        /\ job.tx = TxOf(job.tx.cycle, job.tx.phase) /\ at \in Int
    BY <2>1 DEF Tx, TxOf, InOrder, TInv, TypeOK
  <2>3. ~(job.tx.cycle < at)
    BY <1>2, <2>2 DEF CycleCommitted
  <2> QED
    BY <2>2, <2>3 DEF Cycles
<1>5. /\ at \in Int /\ \A m \in commits : m.tx.cycle \in Int
      /\ ManifestOf.tx.cycle \in Int
  BY CommitDue DEF TInv, TypeOK, Manifest, Tx, Cycles
<1>6. ASSUME NEW p
      PROVE  {m \in commits' : m.input.target = p /\ m.tx.cycle < at}
               = {m \in CommittedFor(p) : m.tx.cycle < at}
  <2>1. CASE HasRecord(commits, job.tx)
    BY <2>1, CommitDue DEF CommittedFor
  <2>2. CASE ~HasRecord(commits, job.tx)
    BY <1>1, <1>4, <1>5, <2>2 DEF CommittedFor
  <2> QED
    BY <2>1, <2>2
<1>7. ASSUME NEW p \in Policies, NEW r, NEW c, r = registry, c = at PROVE Carries(r, c, p)'
  <2>1. CheckpointFor(c, p)' = CheckpointFor(c, p)
    <3>1. {m \in CommittedFor(p)' : m.tx.cycle < at}
            = {m \in commits' : m.input.target = p /\ m.tx.cycle < at}
      BY DEF CommittedFor
    <3> QED
      BY <1>6, <1>7, <3>1 DEF CheckpointFor
  <2>2. CommittedFor(p) \subseteq CommittedFor(p)'
    BY <1>1 DEF CommittedFor
  <2> QED
    BY <1>2, <1>7, <2>1, <2>2 DEF Carries
<1> QED
  BY <1>3, <1>7

\* A phase that is committed keeps the schedule, and a cycle ended by an empty phase has
\* what the next one takes up in the registry.
LEMMA CommitOrder ==
  ASSUME TInv, RInv, BInv, FInv, LInv, Commit, TInv', RInv', FInv'
  PROVE  LInv'
<1>1. ManifestsOrdered' /\ InputsDue'
  BY CommitRecords
<1>2. /\ UNCHANGED <<inputs, registry, job, mode, proc>> /\ pc = "commit"
      /\ pc' \in {"idle", "advance"}
  BY DEF Commit
<1>3. JobPlanned'
  BY <1>2 DEF LInv, JobPlanned
<1>4. ASSUME pc' = "advance" PROVE CycleReached'
  <2>1. at' = at /\ pc' = "advance"
    BY <1>4 DEF Commit
  <2>2. CASE proc = "train"
    <3>1. /\ \A c \in Cycles : c < at => CycleCommitted(c)'
          /\ \A p \in Policies : Carries(registry, at, p)'
      BY <1>2, <2>1, <2>2, CommitCarries DEF Carries, CheckpointFor, CommittedFor
    <3> QED
      BY <1>2, <2>1, <2>2, <3>1 DEF LInv, CycleReached
  <2>3. CASE proc # "train"
    BY <1>2, <2>3 DEF CycleReached
  <2> QED
    BY <2>2, <2>3
<1>5. ASSUME pc' = "idle" PROVE CycleReached'
  <2>1. /\ job \in inputs /\ job.target = TargetOf(job.tx.phase)
        /\ ManifestOf \in commits' /\ ManifestOf.tx = job.tx /\ ManifestOf.weight = version
    BY CommitDue
  <2>2. /\ proc = "train" /\ job.tx.cycle = at /\ job.snap = registry /\ job.batch = Empty
        /\ job.tx.phase = "sub_update" /\ at' = at + 1 /\ pc' = "idle"
    BY <1>2, <1>5, <2>1 DEF Commit, EmptyPhase, RInv, Placed, Idle, TInv, OnCycle, LInv,
                            JobPlanned, InputsDue
  <2>3. \A p \in Policies : Carries(job.snap, job.tx.cycle, p)'
    BY <1>2, <2>2, CommitCarries
  <2>4. /\ CycleCommitted(job.tx.cycle)'
        /\ \A p \in Policies \ {job.target} : Carries(job.snap, job.tx.cycle + 1, p)'
        /\ CheckpointFor(job.tx.cycle + 1, job.target)' = version
    <3>1. Completes'
      <4>1. (TInv /\ RInv /\ FInv /\ ManifestsOrdered)'
        BY <1>1
      <4> QED
        BY <4>1, CycleEnds, PTL
    <3> QED
      BY <1>2, <2>1, <2>2, <2>3, <3>1 DEF Completes
  <2>5. version = registry[job.target].weight
    BY <1>2, <2>1, <2>2 DEF RInv, Placed, InHand, BInv
  <2>6. \A p \in Policies : Carries(registry, at, p)'
    BY <1>2, <2>2, <2>4, <2>5 DEF Carries
  <2>7. \A c \in Cycles : c < at + 1 => CycleCommitted(c)'
    <3>1. \A c \in Cycles : c < at => CycleCommitted(c)'
      BY <2>2, CommitCarries
    <3>2. \A c \in Cycles : c = at => CycleCommitted(c)'
      BY <1>2, <2>2, <2>4 DEF CycleCommitted
    <3>3. at \in Int /\ \A c \in Cycles : c < at + 1 => c < at \/ c = at
      BY DEF Cycles, TInv, TypeOK
    <3> QED
      BY <3>1, <3>2, <3>3
  <2> QED
    BY <2>2, <2>6, <2>7 DEF CycleReached
<1>6. CycleReached'
  BY <1>2, <1>4, <1>5
<1> QED
  BY <1>1, <1>3, <1>6 DEF LInv

\* The advance of the registry to a committed phase keeps a process at its cycle, or takes
\* it to the next one with what that one takes up.
LEMMA AdvanceOrder ==
  ASSUME TInv, RInv, BInv, FInv, LInv, Advance, TInv'
  PROVE  LInv'
<1>1. /\ UNCHANGED <<commits, inputs, mode, proc>> /\ pc = "advance"
      /\ registry' = [registry EXCEPT ![job.target] = rev]
  BY DEF Advance, durable
<1>2. ManifestsOrdered' /\ InputsDue'
  BY <1>1, RecordsStay
<1>3. /\ job \in inputs /\ job.tx \in Tx /\ job.target \in Policies
      /\ job.target = TargetOf(job.tx.phase) /\ registry'[job.target] = rev
      /\ \A p \in Policies \ {job.target} : registry'[p] = registry[p]
  BY <1>1 DEF RInv, JobDurable, TInv, TypeOK, Input, LInv, InputsDue
<1>4. PICK n \in commits : n.tx = job.tx /\ n.weight = rev.weight
  BY <1>1 DEF RInv, InHand
<1>5. n \in CommittedFor(job.target) /\ job.tx.phase \in CyclePhases
  BY <1>3, <1>4 DEF LInv, ManifestsOrdered, InOrder, CommittedFor
<1>6. JobPlanned'
  BY <1>1 DEF Advance, JobPlanned, PhaseJob, TxOf
<1>7. /\ \A c : CycleCommitted(c)' = CycleCommitted(c)
      /\ \A c, p : CheckpointFor(c, p)' = CheckpointFor(c, p)
      /\ \A p : CommittedFor(p)' = CommittedFor(p)
  BY <1>1 DEF CycleCommitted, HasRecord, CheckpointFor, CommittedFor
<1>8. /\ at \in Int /\ job.tx.cycle \in Int
      /\ \A c \in Cycles : c < at + 1 => c < at \/ c = at
  BY <1>3 DEF Cycles, TInv, TypeOK, Tx
<1>9. ASSUME proc = "train"
      PROVE  /\ \A c \in Cycles : c < at => CycleCommitted(c)
             /\ \A p \in Policies : Carries(registry, at, p)
             /\ job.tx.cycle >= at - 1
  BY <1>1, <1>9 DEF LInv, CycleReached
<1>10. ASSUME proc = "train", at' = at
       PROVE  \A p \in Policies : Carries(registry', at, p)
  <2>1. \A p \in Policies \ {job.target} : Carries(registry', at, p)
    BY <1>3, <1>9, <1>10 DEF Carries
  <2>2. Carries(registry', at, job.target)
    <3>1. CASE job.tx.cycle >= at
      BY <1>3, <1>4, <1>5, <3>1 DEF Carries
    <3>2. CASE job.tx.cycle = at - 1
      <4>1. CheckpointFor(job.tx.cycle + 1, job.target) = n.weight
        BY <1>3, <1>4, <1>5, CheckpointAfter DEF LInv
      <4>2. job.tx.cycle + 1 = at
        BY <1>8, <3>2
      <4> QED
        BY <1>3, <1>4, <4>1, <4>2 DEF Carries
    <3> QED
      BY <1>8, <1>9, <1>10, <3>1, <3>2
  <2> QED
    BY <2>1, <2>2
<1>11. ASSUME mode = "cycle", at' = at + 1
       PROVE  CycleCommitted(at) /\ \A p \in Policies : Carries(registry', at + 1, p)
  <2>1. /\ proc = "train" /\ job.tx.cycle = at /\ job.snap = registry
        /\ job.tx.phase = "main_update" => "sub_update" \notin CyclePhases
    BY <1>1, <1>8, <1>11 DEF Advance, RInv, Placed, Idle, TInv, OnCycle, LInv, JobPlanned
  <2>2. Completes
    BY CycleEnds DEF LInv
  <2>3. /\ CycleCommitted(at)
        /\ \A p \in Policies \ {job.target} : Carries(registry, at + 1, p)
        /\ CheckpointFor(at + 1, job.target) = n.weight
    BY <1>3, <1>4, <1>9, <2>1, <2>2 DEF Completes
  <2> QED
    BY <1>3, <1>4, <2>3 DEF Carries
<1>12. ASSUME mode # "cycle", at' = at + 1
       PROVE  CycleCommitted(at) /\ (\A p \in Policies : Carries(registry', at + 1, p))
              /\ job.tx.cycle = at
  BY <1>8, <1>12 DEF Advance, CycleComplete, Carries
<1>13. at' \in {at, at + 1} /\ (pc' # "idle" => job'.tx.cycle \in {at, job.tx.cycle})
       /\ (mode = "cycle" /\ pc' # "idle" => job'.tx.cycle = at /\ at' = at)
       /\ (mode # "cycle" => job' = job)
  BY DEF Advance, PhaseJob, TxOf
<1>14. CycleReached'
  <2> SUFFICES ASSUME proc = "train" PROVE CycleReached'
    BY <1>1 DEF CycleReached
  <2>1. ASSUME at' = at PROVE CycleReached'
    <3>1. \A c \in Cycles : c < at' => CycleCommitted(c)'
      BY <1>7, <1>9, <2>1
    <3>2. \A p \in Policies : Carries(registry, at, p)'
      BY <1>7, <1>10, <2>1 DEF Carries
    <3>3. pc' # "idle" => job'.tx.cycle >= at' - 1
      BY <1>8, <1>9, <1>13, <2>1
    <3> QED
      BY <3>1, <3>2, <3>3 DEF CycleReached
  <2>2. ASSUME at' = at + 1 PROVE CycleReached'
    <3>1. CycleCommitted(at) /\ \A p \in Policies : Carries(registry', at + 1, p)
      BY <1>11, <1>12, <2>2
    <3>2. \A c \in Cycles : c < at' => CycleCommitted(c)'
      BY <1>7, <1>8, <1>9, <2>2, <3>1
    <3>3. \A p \in Policies : Carries(registry, at, p)'
      BY <1>7, <2>2, <3>1 DEF Carries
    <3>4. pc' # "idle" => job'.tx.cycle >= at' - 1
      BY <1>8, <1>12, <1>13, <2>2
    <3> QED
      BY <3>2, <3>3, <3>4 DEF CycleReached
  <2> QED
    BY <1>13, <2>1, <2>2
<1> QED
  BY <1>2, <1>6, <1>14 DEF LInv

\* Every step keeps the manifests, inputs and processes to the schedule: one case per
\* action.
LEMMA OrderStep ==
  TInv /\ RInv /\ BInv /\ FInv /\ LInv /\ [Next]_vars /\ TInv' /\ RInv' /\ FInv' => LInv'
<1> SUFFICES ASSUME TInv, RInv, BInv, FInv, LInv, [Next]_vars, TInv', RInv', FInv'
             PROVE  LInv'
  OBVIOUS
<1> USE DEF durable, backend, frame
<1>1. ASSUME NEW c \in Cycles, LaunchTrain(c) PROVE LInv'
  BY <1>1, LaunchOrder
<1>2. ASSUME NEW t \in Tx, LaunchTool(t) PROVE LInv'
  <2>1. ManifestsOrdered' /\ InputsDue'
    BY <1>2, RecordsStay DEF LaunchTool
  <2> QED
    BY <1>2, <2>1 DEF LaunchTool, LInv, JobPlanned, CycleReached
<1>3. ASSUME NEW t \in Tx, Recover(t) PROVE LInv'
  BY <1>3, RecoverOrder
<1>4. CASE Exit \/ Crash
  <2>1. ManifestsOrdered' /\ InputsDue'
    BY <1>4, RecordsStay DEF Exit, Crash, Vanish
  <2> QED
    BY <1>4, <2>1 DEF Exit, Crash, Vanish, LInv, JobPlanned, CycleReached
<1>5. CASE Fault \/ Raise
  <2>1. ManifestsOrdered' /\ InputsDue'
    BY <1>5, RecordsStay DEF Fault, Raise
  <2>2. JobPlanned'
    BY <1>5 DEF Fault, Raise, JobPlanned
  <2>3. pc # "idle"
    BY <1>5 DEF Fault, Raise, Raises, Idle
  <2>4. CycleReached'
    BY <1>5, <2>3, CycleStays DEF Fault, Raise
  <2> QED
    BY <2>1, <2>2, <2>4 DEF LInv
<1>6. CASE StartCycle
  <2>1. ManifestsOrdered' /\ InputsDue'
    BY <1>6, RecordsStay DEF StartCycle
  <2>2. /\ job'.tx.phase = FirstPhase /\ job'.tx.cycle = at /\ pc' = "rollout"
        /\ UNCHANGED <<commits, registry, at, proc>> /\ at \in Int
    BY <1>6 DEF StartCycle, PhaseJob, TxOf, TInv, TypeOK
  <2>3. JobPlanned'
    BY <2>2, FirstScheduled DEF JobPlanned
  <2>4. /\ \A c : CycleCommitted(c)' = CycleCommitted(c)
        /\ \A p : Carries(registry, at, p)' = Carries(registry, at, p)
    BY <2>2 DEF CycleCommitted, HasRecord, Carries, CheckpointFor, CommittedFor
  <2>5. CycleReached'
    BY <2>2, <2>4 DEF LInv, CycleReached
  <2> QED
    BY <2>1, <2>3, <2>5 DEF LInv
<1>7. CASE Rollout
  <2>1. ManifestsOrdered' /\ InputsDue'
    BY <1>7, RecordsStay DEF Rollout
  <2>2. job'.tx = job.tx /\ job'.snap = job.snap
    BY <1>7 DEF Rollout, TInv, TypeOK, Input
  <2>3. JobPlanned'
    BY <1>7, <2>2 DEF Rollout, Raises, TInv, TypeOK, Input, LInv, JobPlanned
  <2>4. CycleReached'
    BY <1>7, <2>2, CycleStays DEF Rollout
  <2> QED
    BY <2>1, <2>3, <2>4 DEF LInv
<1>8. CASE Prepare
  BY <1>8, PrepareOrder
<1>9. CASE Update \/ RecordUpdate \/ Reload \/ Sync \/ Publish
  <2>1. ManifestsOrdered' /\ InputsDue'
    BY <1>9, RecordsStay DEF Update, RecordUpdate, Reload, Sync, Publish
  <2>2. /\ UNCHANGED <<commits, registry, at, proc, job, mode>>
        /\ pc \in {"update", "record", "reload", "sync", "publish"}
        /\ pc' \in {"record", "reload", "sync", "publish", "commit", "advance"}
        /\ mode = "cycle" => pc \notin {"reload", "publish"}
    BY <1>9 DEF Update, RecordUpdate, AfterRecord, Reload, Sync, AfterSync, Publish, RInv,
                Placed
  <2>3. JobPlanned'
    BY <2>2 DEF LInv, JobPlanned
  <2>4. CycleReached'
    BY <2>2, CycleStays
  <2> QED
    BY <2>1, <2>3, <2>4 DEF LInv
<1>10. CASE Commit
  BY <1>10, CommitOrder
<1>11. CASE Advance
  BY <1>11, AdvanceOrder
<1>12. CASE UNCHANGED vars
  <2>1. ManifestsOrdered' /\ InputsDue'
    BY <1>12, RecordsStay DEF vars
  <2>2. CycleReached'
    BY <1>12, CycleStays DEF vars
  <2> QED
    BY <1>12, <2>1, <2>2 DEF vars, LInv, JobPlanned
<1> QED
  BY <1>1, <1>2, <1>3, <1>4, <1>5, <1>6, <1>7, <1>8, <1>9, <1>10, <1>11, <1>12
  DEF Next, PhaseStep

-----------------------------------------------------------------------------
(* The refinement *)

\* The ledger's schedule is that of the transactions.
LEMMA SameSchedule ==
  /\ Ledger!Policies = Policies /\ Ledger!Cycles = Cycles /\ Ledger!Tx = Tx
  /\ Ledger!CyclePhases = CyclePhases
  /\ \A ph : Ledger!TargetOf(ph) = TargetOf(ph)
  /\ \A c, ph : Ledger!TxOf(c, ph) = TxOf(c, ph)
  /\ \A p : Ledger!Start(p) = Start(p)
  /\ \A w, t, b, n : Ledger!Applied(w, t, b, n) = Applied(w, t, b, n)
<1>1. Ledger!Policies = Policies /\ Ledger!Cycles = Cycles /\ Ledger!Phases = Phases
      /\ Ledger!Roles = Roles
  BY DEF Ledger!Policies, Policies, Ledger!Cycles, Cycles, Ledger!Phases, Phases,
         Ledger!Roles, Roles
<1>2. Ledger!Tx = Tx
  BY <1>1 DEF Ledger!Tx, Tx
<1>3. Ledger!CyclePhases = CyclePhases
  BY <1>1 DEF Ledger!CyclePhases, CyclePhases, Ledger!SharedTrainable, SharedTrainable
<1> QED
  BY <1>1, <1>2, <1>3
  DEF Ledger!TargetOf, TargetOf, Ledger!TxOf, TxOf, Ledger!Start, Start, Ledger!Applied, Applied

\* What is in order and not committed is due in the ledger.
LEMMA DueInLedger ==
  ASSUME NEW t, InOrder(t), ~HasRecord(commits, t)
  PROVE  Ledger!Due(t)
<1>1. \A u : HasRecord(commits, u) <=> u \in {m.tx : m \in commits}
  BY DEF HasRecord
<1> QED
  BY <1>1, SameSchedule DEF Ledger!Due, Ledger!CycleDone, InOrder, CycleCommitted

\* A commit that adds a manifest is a step of the ledger: the optimizer step of its phase,
\* or none for an empty Sub phase.
LEMMA CommitInLedger ==
  ASSUME TInv, RInv, LInv, Commit, ~HasRecord(commits, job.tx)
  PROVE  Ledger!Next
<1> DEFINE public == [p \in Policies |-> PublicWeight(p)]
           done == {m.tx : m \in commits}
<1>1. /\ job \in inputs /\ job.tx \in Tx /\ job.target = TargetOf(job.tx.phase)
      /\ ManifestOf.tx = job.tx /\ InOrder(job.tx) /\ job.base = PublicWeight(job.target)
      /\ job.target \in Policies
  BY CommitDue DEF TInv, TypeOK, Input
<1>2. PICK t \in Tx : t = job.tx /\ Ledger!Due(t)
  BY <1>1, DueInLedger
<1>3. done' = done \cup {t}
  BY <1>1, <1>2 DEF Commit
<1>4. /\ PublicWeight(job.target)' = version
      /\ \A p : p # job.target => PublicWeight(p)' = PublicWeight(p)
  BY CommitPublic
<1>5. public' = [public EXCEPT ![job.target] = version]
  <2>1. public' = [p \in Policies |-> PublicWeight(p)']
    OBVIOUS
  <2>2. job' = job
    BY DEF Commit
  <2>3. \A p \in Policies : PublicWeight(p)' = IF p = job.target THEN version ELSE PublicWeight(p)
    BY <1>4, <2>2 DEF PublicWeight, CommittedFor
  <2> QED
    BY <1>1, <2>1, <2>3
<1>6. public[job.target] = job.base
  BY <1>1
<1>7. pc = "commit" /\ mode # "restore"
  BY DEF Commit, RInv, Placed
<1>8. CASE job.batch = Empty
  <2>1. version = job.base /\ job.tx.phase = "sub_update"
    BY <1>1, <1>7, <1>8 DEF RInv, InHand, LInv, InputsDue
  <2>2. public' = public
    BY <1>1, <1>5, <1>6, <2>1
  <2>3. Ledger!CommitEmpty(t)
    BY <1>2, <1>3, <2>1, <2>2 DEF Ledger!CommitEmpty
  <2> QED
    BY <2>3, SameSchedule DEF Ledger!Next
<1>9. CASE job.batch # Empty
  <2>1. PendingOf \in pendings /\ job.batch \in Batches
    BY <1>7, <1>9 DEF RInv, InHand, TInv, TypeOK, Input
  <2>2. PICK n \in Noise : version = Applied(job.base, job.tx, job.batch, n)
    BY <2>1 DEF RInv, PendingsStepped, SteppedFrom, PendingOf
  <2>3. public' = [public EXCEPT ![TargetOf(job.tx.phase)] = Applied(@, job.tx, job.batch, n)]
    BY <1>1, <1>5, <1>6, <2>2
  <2>4. Ledger!CommitUpdate(t)
    BY <1>2, <1>3, <2>1, <2>3, SameSchedule DEF Ledger!CommitUpdate
  <2> QED
    BY <2>4, SameSchedule DEF Ledger!Next
<1> QED
  BY <1>8, <1>9

\* Every step of the transactions is a step of the ledger or leaves it as it is.
LEMMA LedgerStep == TInv /\ RInv /\ LInv /\ [Next]_vars => [Ledger!Next]_Ledger!ledger
<1> SUFFICES ASSUME TInv, RInv, LInv, [Next]_vars PROVE [Ledger!Next]_Ledger!ledger
  OBVIOUS
<1>1. CASE commits' = commits
  <2>1. \A p : PublicWeight(p)' = PublicWeight(p)
    BY <1>1 DEF PublicWeight, CommittedFor
  <2> QED
    BY <1>1, <2>1 DEF Ledger!ledger
<1>2. CASE Commit /\ commits' # commits
  BY <1>2, CommitDue, CommitInLedger
<1>3. [Next]_vars => Commit \/ commits' = commits
  BY DEF Next, PhaseStep, vars, durable, LaunchTrain, LaunchTool, Recover, Exit, Crash, Vanish,
         Fault, StartCycle, Raise, Rollout, Prepare, Update, RecordUpdate, Reload, Sync,
         Publish, Advance
<1> QED
  BY <1>1, <1>2, <1>3

\* Through faults, restarts and recoveries the manifests grow as the alternating schedule
\* says, in order, each phase once, by one optimizer step or none (coordinator.py,
\* run_cycle; transactions.py, commit and recover).
THEOREM LedgerHolds == Spec => LedgerImplemented
<1>1. Init => TInv /\ RInv /\ BInv /\ FInv /\ LInv
  BY TypeInit, RecordsInit, BasesInit, FreshInit, OrderInit
<1>2. TInv /\ RInv /\ BInv /\ FInv /\ LInv /\ [Next]_vars
        => (TInv /\ RInv /\ BInv /\ FInv /\ LInv)'
  BY TypeStep, RecordsStep, BasesStep, FreshStep, OrderStep
<1>3. Init => Ledger!Init
  <2> SUFFICES ASSUME Init PROVE Ledger!Init
    OBVIOUS
  <2>1. \A p : PublicWeight(p) = Start(p)
    BY DEF Init, PublicWeight, CommittedFor, CommittedWeight
  <2> QED
    BY <2>1, SameSchedule DEF Init, Ledger!Init
<1>4. TInv /\ RInv /\ LInv /\ [Next]_vars => [Ledger!Next]_Ledger!ledger
  BY LedgerStep
<1> QED
  BY <1>1, <1>2, <1>3, <1>4, PTL DEF Spec, LedgerImplemented, Ledger!Spec

-----------------------------------------------------------------------------
(* The contract of the backend                                               *)

OwnInput(i) ==
  i.base.policy = i.target /\ \A p \in Policies : i.snap[p].weight.policy = p

\* Policies hold weights of their own, in the process and in what was prepared; a process
\* that is none holds what one draws.
OInv ==
  /\ proc = "none" => weight = [p \in Policies |-> Unloaded(p)]
  /\ \A p \in Policies : weight[p].policy = p /\ registry[p].weight.policy = p
  /\ \A i \in inputs : OwnInput(i)
  /\ pc \in {"rollout", "prepare"} => OwnInput(job)

\* What a step makes is of the same policy.
LEMMA AppliedOwn ==
  ASSUME NEW w \in Weight, NEW t \in Tx, NEW b \in Batches, NEW n \in Noise
  PROVE  Applied(w, t, b, n).policy = w.policy
BY DEF Applied, Weight

\* So is what a phase's input was stepped to.
LEMMA SteppedOwn ==
  ASSUME NEW i \in Input, i.batch # Empty, OwnInput(i), NEW w, SteppedFrom(i, w)
  PROVE  w.policy = i.target
<1>1. PICK n \in Noise : w = Applied(i.base, i.tx, i.batch, n)
  BY DEF SteppedFrom
<1>2. i.base \in Weight /\ i.tx \in Tx /\ i.batch \in Batches
  BY DEF Input
<1> QED
  BY <1>1, <1>2, AppliedOwn DEF OwnInput

\* Records are of the policy they were prepared for.
LEMMA RecordsOwn ==
  ASSUME TInv, RInv, OInv
  PROVE  /\ \A u \in pendings : u.result.policy = u.input.target
         /\ \A m \in commits : m.weight.policy = m.input.target
<1>1. ASSUME NEW u \in pendings PROVE u.result.policy = u.input.target
  <2>1. u.input \in inputs /\ u.input.batch # Empty /\ SteppedFrom(u.input, u.result)
    BY DEF RInv, RecordsAgree, PendingsStepped
  <2>2. u.input \in Input /\ OwnInput(u.input)
    BY <2>1 DEF TInv, TypeOK, OInv
  <2> QED
    BY <2>1, <2>2, SteppedOwn
<1>2. ASSUME NEW m \in commits PROVE m.weight.policy = m.input.target
  <2>1. CASE m.input.batch = Empty
    BY <2>1 DEF RInv, RecordsAgree, OInv, OwnInput
  <2>2. CASE m.input.batch # Empty
    <3> DEFINE u == [tx |-> m.tx, input |-> m.input, result |-> m.weight]
    <3>1. u \in pendings /\ u.input = m.input /\ u.result = m.weight
      BY <2>2 DEF RInv, RecordsAgree
    <3> QED
      BY <1>1, <3>1
  <2> QED
    BY <2>1, <2>2
<1> QED
  BY <1>1, <1>2

\* A cycle is handed a checkpoint of the policy.
LEMMA CheckpointOwn ==
  ASSUME TInv, RInv, OInv, NEW c, NEW p \in Policies
  PROVE  CheckpointFor(c, p).policy = p
<1> DEFINE S == {m \in CommittedFor(p) : m.tx.cycle < c}
<1>1. S \subseteq commits /\ \A m \in S : m.input.target = p
  BY DEF CommittedFor
<1>2. S \subseteq Manifest
  BY <1>1 DEF TInv, TypeOK
<1>3. \/ CommittedWeight(S, p) = Start(p)
      \/ \E m \in S : CommittedWeight(S, p) = m.weight
  <2> HIDE DEF S
  <2> QED
    BY <1>2, CommittedWeightOf
<1>4. CommittedWeight(S, p).policy = p
  <2> HIDE DEF S
  <2> QED
    BY <1>1, <1>3, RecordsOwn DEF Start
<1> QED
  BY <1>4 DEF CheckpointFor

\* A recovery resumes from a weight of the input's policy.
LEMMA ResumptionOwn ==
  ASSUME TInv, RInv, OInv, NEW i \in inputs
  PROVE  Resumption(i).from.policy = i.target
<1>1. CASE HasRecord(commits, i.tx)
  <2> DEFINE m == CHOOSE m \in commits : m.tx = i.tx
  <2>1. m \in commits /\ m.tx = i.tx
    BY <1>1 DEF HasRecord
  <2>2. m.input \in inputs /\ m.input.tx = i.tx
    BY <2>1 DEF RInv, RecordsAgree
  <2>3. m.input = i
    BY <2>2 DEF RInv, UniqueRecords
  <2>4. m.weight.policy = i.target
    BY <2>1, <2>3, RecordsOwn
  <2> QED
    BY <1>1, <2>4 DEF Resumption, ResumePoint
<1>2. CASE ~HasRecord(commits, i.tx) /\ HasRecord(pendings, i.tx)
  <2> DEFINE u == CHOOSE u \in pendings : u.tx = i.tx
  <2>1. u \in pendings /\ u.tx = i.tx
    BY <1>2 DEF HasRecord
  <2>2. u.input = i
    BY <2>1 DEF RInv, RecordsAgree, UniqueRecords
  <2>3. u.result.policy = i.target
    BY <2>1, <2>2, RecordsOwn
  <2> QED
    BY <1>2, <2>3 DEF Resumption, ResumePoint
<1>3. CASE ~HasRecord(commits, i.tx) /\ ~HasRecord(pendings, i.tx)
  BY <1>3 DEF Resumption, ResumePoint, OInv, OwnInput
<1> QED
  BY <1>1, <1>2, <1>3

\* The version a phase has in hand is of the policy it is for.
LEMMA VersionOwn ==
  ASSUME TInv, RInv, OInv, pc \in {"reload", "sync", "advance"}
  PROVE  job \in inputs /\ version.policy = job.target
<1>1. job \in inputs
  BY DEF RInv, JobDurable
<1>2. CASE \E m \in commits : m.tx = job.tx /\ m.weight = version
  <2>1. PICK m \in commits : m.tx = job.tx /\ m.weight = version
    BY <1>2
  <2>2. m.input \in inputs /\ m.input.tx = job.tx
    BY <2>1 DEF RInv, RecordsAgree
  <2>3. m.input = job
    BY <1>1, <2>2 DEF RInv, UniqueRecords
  <2> QED
    BY <1>1, <2>1, <2>3, RecordsOwn
<1>3. CASE IF job.batch = Empty THEN version = job.base ELSE PendingOf \in pendings
  <2>1. CASE job.batch = Empty
    BY <1>1, <1>3, <2>1 DEF OInv, OwnInput
  <2>2. CASE job.batch # Empty
    <3>1. PendingOf \in pendings /\ PendingOf.result = version /\ PendingOf.input = job
      BY <1>3, <2>2 DEF PendingOf
    <3> QED
      BY <1>1, <3>1, RecordsOwn
  <2> QED
    BY <2>1, <2>2
<1> QED
  BY <1>2, <1>3 DEF RInv, InHand, Placed

\* A new process draws weights of its own for each policy.
LEMMA OwnInit == Init => OInv
BY DEF Init, OInv, OwnInput, ColdRollout, Unloaded, ColdJob

\* What a snapshot of own revisions is prepared from is of the policies too.
LEMMA PreparedOwn ==
  ASSUME NEW c \in Cycles, NEW ph \in Phases, NEW snap,
         \A p \in Policies : snap[p].weight.policy = p
  PROVE  OwnInput(PhaseJob(c, ph, snap))
BY PhasesTyped DEF PhaseJob, OwnInput

\* Policies keep weights of their own: one case per action that hands weights on.
LEMMA OwnStep == TInv /\ RInv /\ OInv /\ [Next]_vars => OInv'
<1> SUFFICES ASSUME TInv, RInv, OInv, [Next]_vars PROVE OInv'
  OBVIOUS
<1> USE DEF durable, backend, frame, Idle
<1>0. weight \in [Policies -> Weight] /\ registry \in [Policies -> Revision]
  BY DEF TInv, TypeOK
<1>1. ASSUME NEW c \in Cycles, LaunchTrain(c) PROVE OInv'
  <2>1. /\ weight' = [p \in Policies |-> CheckpointFor(c, p)]
        /\ \A p \in Policies : registry'[p].weight = CheckpointFor(c, p)
        /\ proc' = "train" /\ pc' = "idle" /\ inputs' = inputs
    BY <1>1 DEF LaunchTrain, LaunchRollout
  <2> QED
    BY <2>1, CheckpointOwn DEF OInv, OwnInput
<1>2. ASSUME NEW t \in Tx, LaunchTool(t) PROVE OInv'
  <2>1. PICK i \in inputs : weight' = [weight EXCEPT ![i.target] = i.base] /\ registry' = i.snap
    BY <1>2 DEF LaunchTool
  <2>2. proc' = "tool" /\ pc' = "idle" /\ inputs' = inputs
    BY <1>2 DEF LaunchTool
  <2> QED
    BY <1>0, <2>1, <2>2 DEF OInv, OwnInput
<1>3. ASSUME NEW t \in Tx, Recover(t) PROVE OInv'
  <2>1. PICK i \in inputs : /\ weight' = [weight EXCEPT ![i.target] = Resumption(i).from]
                            /\ pc' = Resumption(i).next
    BY <1>3 DEF Recover
  <2>2. Resumption(i).from.policy = i.target
    BY ResumptionOwn
  <2>3. pc' \notin {"rollout", "prepare"} /\ proc # "none"
    BY <1>3, <2>1 DEF Recover, Recoverable, Resumption, ResumePoint
  <2>4. proc' = proc /\ registry' = registry /\ inputs' = inputs
    BY <1>3 DEF Recover
  <2> QED
    BY <1>0, <2>1, <2>2, <2>3, <2>4 DEF OInv, OwnInput
<1>4. CASE Exit \/ Crash
  <2>1. Vanish
    BY <1>4 DEF Exit, Crash
  <2> QED
    BY <2>1 DEF Vanish, OInv, OwnInput, ColdRollout, Unloaded
<1>5. CASE Fault \/ Raise
  <2>1. /\ UNCHANGED <<inputs, weight, registry, proc>>
        /\ pc' = "failed"
    BY <1>5 DEF Fault, Raise
  <2> QED
    BY <2>1 DEF OInv, OwnInput
<1>6. CASE StartCycle
  <2>1. /\ at \in Cycles /\ FirstPhase \in Phases
        /\ job' = PhaseJob(at, FirstPhase, registry)
    BY <1>6, PhasesTyped, TrainingAssumption DEF StartCycle, TInv, TypeOK, Cycles
  <2>2. OwnInput(job')
    BY <2>1, PreparedOwn DEF OInv
  <2> QED
    BY <1>6, <2>2 DEF StartCycle, OInv, OwnInput
<1>7. CASE Rollout
  <2>1. PICK b : job' = [job EXCEPT !.batch = b]
    BY <1>7 DEF Rollout
  <2>2. job'.base = job.base /\ job'.target = job.target /\ job'.snap = job.snap
    BY <2>1 DEF TInv, TypeOK, Input
  <2> QED
    BY <1>7, <2>2 DEF Rollout, OInv, OwnInput
<1>8. CASE Prepare
  BY <1>8 DEF Prepare, OInv, OwnInput
<1>9. CASE Update
  <2>1. UNCHANGED <<inputs, registry, proc>> /\ pc' = "record" /\ pc = "update"
    BY <1>9 DEF Update
  <2>2. CASE weight' = weight
    BY <2>1, <2>2 DEF OInv, OwnInput
  <2>3. ASSUME NEW n \in Noise,
               weight' = [weight EXCEPT ![job.target] =
                            Stepped(weight[job.target], job.tx, job.batch, n)]
        PROVE  OInv'
    <3>1. job.batch \in Batches /\ job.tx \in Tx /\ job.target \in Policies /\ proc # "none"
      BY <2>1 DEF TInv, Trains, TypeOK, Input, RInv, Placed
    <3>2. weight'[job.target].policy = job.target
      BY <1>0, <2>3, <3>1, AppliedOwn DEF OInv, Stepped
    <3> QED
      BY <1>0, <2>1, <2>3, <3>1, <3>2 DEF OInv, OwnInput
  <2> QED
    BY <1>9, <2>2, <2>3 DEF Update
<1>10. CASE RecordUpdate \/ Sync \/ Publish \/ Commit
  <2>1. UNCHANGED <<inputs, weight, registry, proc>>
    BY <1>10 DEF RecordUpdate, Sync, Publish, Commit
  <2>2. pc' \notin {"rollout", "prepare"}
    BY <1>10 DEF RecordUpdate, AfterRecord, Sync, AfterSync, Publish, Commit
  <2> QED
    BY <2>1, <2>2 DEF OInv, OwnInput
<1>11. CASE Reload
  <2>1. /\ weight' = [weight EXCEPT ![job.target] = version] /\ proc # "none"
        /\ UNCHANGED <<inputs, registry, proc>> /\ pc' = "sync"
    BY <1>11 DEF Reload, RInv, Placed
  <2>2. version.policy = job.target
    BY <1>11, VersionOwn DEF Reload
  <2> QED
    BY <1>0, <2>1, <2>2 DEF OInv, OwnInput
<1>12. CASE Advance
  <2>1. /\ registry' = [registry EXCEPT ![job.target] = rev]
        /\ UNCHANGED <<inputs, weight, proc>>
    BY <1>12 DEF Advance
  <2>2. version.policy = job.target /\ rev.weight = version
    BY <1>12, VersionOwn DEF Advance, RInv, InHand
  <2>3. \A p \in Policies : registry'[p].weight.policy = p
    BY <1>0, <2>1, <2>2 DEF OInv
  <2>4. CASE pc' = "rollout"
    <3>1. job' = PhaseJob(at, "sub_update", registry')
      BY <1>12, <2>4 DEF Advance
    <3>2. at \in Cycles
      BY <1>12, <2>4 DEF Advance, RInv, Placed, TInv, OnCycle, TypeOK, Input, Tx
    <3>3. OwnInput(job')
      BY <2>3, <3>1, <3>2, PreparedOwn DEF Phases
    <3> QED
      BY <2>1, <2>3, <2>4, <3>3 DEF OInv, OwnInput
  <2>5. CASE pc' # "rollout"
    <3>1. pc' \in {"recovered", "idle"}
      BY <1>12, <2>5 DEF Advance
    <3> QED
      BY <2>1, <2>3, <3>1 DEF OInv, OwnInput
  <2> QED
    BY <2>4, <2>5
<1>13. CASE UNCHANGED vars
  BY <1>13 DEF vars, OInv, OwnInput
<1> QED
  BY <1>1, <1>2, <1>3, <1>4, <1>5, <1>6, <1>7, <1>8, <1>9, <1>10, <1>11, <1>12, <1>13
  DEF Next, PhaseStep

\* A weight on disk is a whole checkpoint of its policy.
LEMMA SavedWhole ==
  ASSUME NEW w \in saved
  PROVE  /\ CopyOf(w) \in Contract!Whole
         /\ CopyOf(w).policy = w.policy /\ CopyOf(w).weights = w
BY DEF Contract!Whole, Copies, CopyOf

\* What the contract speaks of, when nothing of it changes.
LEMMA ContractStays ==
  ASSUME UNCHANGED <<saved, backend, proc>>
  PROVE  UNCHANGED Contract!contract
BY DEF backend, Contract!contract, RunningPolicies, ServedWeights, SteppedTxs, Copies

\* A training process begins with the checkpoints of its cycle.
LEMMA TrainBegins ==
  ASSUME TInv, RInv, SInv, OInv, NEW c \in Cycles, LaunchTrain(c)
  PROVE  Contract!Next
<1> DEFINE load == [p \in Policies |-> CopyOf(CheckpointFor(c, p))]
<1>1. /\ proc = "none" /\ proc' = "train"
      /\ weight' = [p \in Policies |-> CheckpointFor(c, p)]
      /\ \A p \in Policies : rollout'[p].weight = CheckpointFor(c, p)
      /\ UNCHANGED <<saved, updates>>
  BY DEF LaunchTrain, LaunchRollout, durable
<1>2. \A p \in Policies : load[p] \in Contract!Whole /\ load[p].policy = p
                          /\ load[p].weights = CheckpointFor(c, p)
  BY CheckpointForSaved, CheckpointOwn, SavedWhole
<1>3. load \in Contract!Loads(Policies) /\ DOMAIN load = Policies
  <2>1. load \in [Policies -> Contract!Whole]
    BY <1>2
  <2> HIDE DEF load
  <2> QED
    BY <1>2, <2>1 DEF Contract!Loads
<1>4. /\ weight' = [p \in Policies |-> IF p \in DOMAIN load THEN load[p].weights
                                                            ELSE Unloaded(p)]
      /\ ServedWeights' = [p \in Policies |-> weight'[p]]
  <2> HIDE DEF load
  <2>1. ServedWeights' = [p \in Policies |-> CheckpointFor(c, p)]
    BY <1>1 DEF ServedWeights
  <2> QED
    BY <1>1, <1>2, <1>3, <2>1
<1>5. \E from \in Contract!Loads(Policies), behind \in SUBSET Policies :
        /\ weight' = [p \in Policies |-> IF p \in DOMAIN from THEN from[p].weights
                                                              ELSE Unloaded(p)]
        /\ ServedWeights' = [p \in Policies |-> IF p \in behind THEN Unloaded(p)
                                                                ELSE weight'[p]]
  <2> DEFINE none == {}
  <2>1. none \in SUBSET Policies /\ \A p : p \notin none
    OBVIOUS
  <2> HIDE DEF load, none
  <2>2. ServedWeights' = [p \in Policies |-> IF p \in none THEN Unloaded(p) ELSE weight'[p]]
    BY <1>4, <2>1
  <2> QED
    BY <1>3, <1>4, <2>1, <2>2
<1>6. /\ RunningPolicies = {} /\ RunningPolicies' = Policies
      /\ UNCHANGED <<SteppedTxs, Copies(saved)>>
  BY <1>1 DEF RunningPolicies, SteppedTxs, Copies
<1>7. Copies(saved)' = Copies(saved) \cup {Contract!Copy(p, Unloaded(p)) : p \in {}}
  BY <1>6
<1>8. Contract!Begin(Policies)
  BY <1>5, <1>6, <1>7 DEF Contract!Begin
<1> QED
  BY <1>8 DEF Contract!Next

\* The recovery command begins with the base of its phase, which it does not serve yet.
LEMMA ToolBegins ==
  ASSUME TInv, OInv, NEW t \in Tx, LaunchTool(t)
  PROVE  Contract!Next
<1>1. PICK i \in inputs : i.base \in saved /\ weight' = [weight EXCEPT ![i.target] = i.base]
  BY DEF LaunchTool
<1> DEFINE load == [p \in {i.target} |-> CopyOf(i.base)]
<1>2. /\ proc = "none" /\ proc' = "tool"
      /\ \A p \in Policies : rollout'[p].weight = Unloaded(p)
      /\ UNCHANGED <<saved, updates>>
  BY DEF LaunchTool, ColdRollout, durable
<1>3. /\ i.target \in Policies /\ i.base.policy = i.target
      /\ weight = [p \in Policies |-> Unloaded(p)]
  BY <1>2 DEF TInv, TypeOK, Input, OInv, OwnInput
<1>4. load \in Contract!Loads(Policies) /\ DOMAIN load = {i.target}
      /\ load[i.target].weights = i.base
  <2>1. load \in [{i.target} -> Contract!Whole] /\ load[i.target].policy = i.target
        /\ load[i.target].weights = i.base
    BY <1>1, <1>3, SavedWhole
  <2>2. {i.target} \in SUBSET Policies
    BY <1>3
  <2> HIDE DEF load
  <2> QED
    BY <2>1, <2>2 DEF Contract!Loads
<1>5. /\ weight' = [p \in Policies |-> IF p \in DOMAIN load THEN load[p].weights
                                                            ELSE Unloaded(p)]
      /\ ServedWeights' = [p \in Policies |-> IF p \in Policies THEN Unloaded(p)
                                                                ELSE weight'[p]]
  <2> HIDE DEF load
  <2>1. ServedWeights' = [p \in Policies |-> Unloaded(p)]
    BY <1>2 DEF ServedWeights
  <2> QED
    BY <1>1, <1>3, <1>4, <2>1
<1>6. \E from \in Contract!Loads(Policies), behind \in SUBSET Policies :
        /\ weight' = [p \in Policies |-> IF p \in DOMAIN from THEN from[p].weights
                                                              ELSE Unloaded(p)]
        /\ ServedWeights' = [p \in Policies |-> IF p \in behind THEN Unloaded(p)
                                                                ELSE weight'[p]]
  <2> HIDE DEF load
  <2> QED
    BY <1>4, <1>5
<1>7. /\ RunningPolicies = {} /\ RunningPolicies' = Policies
      /\ UNCHANGED <<SteppedTxs, Copies(saved)>>
  BY <1>2 DEF RunningPolicies, SteppedTxs, Copies
<1>8. Copies(saved)' = Copies(saved) \cup {Contract!Copy(p, Unloaded(p)) : p \in {}}
  BY <1>7
<1>9. Contract!Begin(Policies)
  BY <1>6, <1>7, <1>8 DEF Contract!Begin
<1> QED
  BY <1>9 DEF Contract!Next

\* Whatever process ends, its backend does.
LEMMA VanishEnds ==
  ASSUME proc # "none", Vanish
  PROVE  Contract!Next
<1>1. /\ RunningPolicies # {} /\ RunningPolicies' = {}
      /\ weight' = Contract!AllFresh /\ ServedWeights' = Contract!AllFresh
  BY DEF Vanish, RunningPolicies, Policies, ServedWeights, ColdRollout, Contract!AllFresh
<1>2. SteppedTxs' = {} /\ UNCHANGED Copies(saved)
  BY DEF Vanish, SteppedTxs, durable, Copies
<1> QED
  BY <1>1, <1>2 DEF Contract!End, Contract!Next

\* An update steps its target on for the transaction, or is a remembered one.
LEMMA UpdateStepsOnce ==
  ASSUME TInv, RInv, OInv, Update
  PROVE  [Contract!Next]_Contract!contract
<1> DEFINE p == job.target
           t == job.tx
<1>1. /\ p \in Policies /\ t \in Tx /\ job.batch \in Batches /\ proc # "none"
      /\ UNCHANGED <<rollout, synced, proc>>
  BY DEF Update, TInv, Trains, TypeOK, Input, RInv, Placed
<1>2. CASE UNCHANGED <<saved, weight, updates>>
  BY <1>1, <1>2, ContractStays DEF backend
<1>3. CASE \A u \in updates : u.job.tx # t
  <2>1. CASE UNCHANGED <<saved, weight, updates>>
    BY <1>2, <2>1
  <2>2. ASSUME NEW n \in Noise,
               weight' = [weight EXCEPT ![p] = Stepped(weight[p], t, job.batch, n)],
               saved' = SavedWith(Stepped(weight[p], t, job.batch, n)),
               updates' = updates \cup
                 {[job |-> job, result |-> Stepped(weight[p], t, job.batch, n)]}
        PROVE  Contract!Next
    <3> DEFINE w == Stepped(weight[p], t, job.batch, n)
    <3>1. w \in OneMore(weight[p], t)
      BY <1>1 DEF OneMore, Stepped
    <3>2. p \in RunningPolicies /\ p \in Contract!Usable /\ t \notin SteppedTxs
      BY <1>1, <1>3 DEF RunningPolicies, Contract!Usable, SteppedTxs
    <3>3. SteppedTxs' = SteppedTxs \cup {t}
      <4> DEFINE u == [job |-> job, result |-> w]
      <4>1. u.job.tx = t /\ updates' = updates \cup {u}
        BY <2>2
      <4> HIDE DEF u
      <4> QED
        BY <4>1 DEF SteppedTxs
    <3>4. w.policy = p
      <4>1. weight[p].policy = p /\ weight[p] \in Weight
        BY <1>1 DEF TInv, TypeOK, OInv
      <4> QED
        BY <1>1, <4>1, AppliedOwn DEF Stepped
    <3>5. Copies(saved)' = Copies(saved) \cup {Contract!Copy(p, w)}
      <4>1. CopyOf(w) = Contract!Copy(p, w)
        BY <3>4 DEF CopyOf, Contract!Copy
      <4>2. saved' = saved \cup {w}
        BY <2>2 DEF SavedWith
      <4> HIDE DEF w
      <4> QED
        BY <4>1, <4>2 DEF Copies
    <3>6. UNCHANGED <<RunningPolicies, ServedWeights>>
      BY <1>1 DEF RunningPolicies, ServedWeights
    <3>7. weight' = [weight EXCEPT ![p] = w]
      BY <2>2
    <3> HIDE DEF w
    <3>8. Contract!Step(p, t)
      BY <3>1, <3>2, <3>3, <3>5, <3>6, <3>7 DEF Contract!Step
    <3> QED
      BY <1>1, <3>2, <3>8 DEF Contract!Next
  <2> QED
    BY <2>1, <2>2 DEF Update
<1> QED
  BY <1>2, <1>3 DEF Update

\* A policy of a running process is put back at a saved weight of its own.
LEMMA LoadRestores ==
  ASSUME proc # "none", NEW p \in Policies, NEW w \in saved, w.policy = p,
         weight' = [weight EXCEPT ![p] = w],
         UNCHANGED <<saved, rollout, updates, proc>>
  PROVE  Contract!Next
<1>1. /\ CopyOf(w) \in Contract!Whole
      /\ CopyOf(w).policy = p /\ CopyOf(w).weights = w
  BY SavedWhole
<1>2. /\ p \in RunningPolicies
      /\ UNCHANGED <<RunningPolicies, ServedWeights, SteppedTxs, Copies(saved)>>
  BY DEF RunningPolicies, ServedWeights, SteppedTxs, Copies
<1>3. Contract!Restore(CopyOf(w))
  BY <1>1, <1>2 DEF Contract!Restore
<1> QED
  BY <1>1, <1>3 DEF Contract!Next

\* A synchronization serves what the policy is at, or changes nothing.
LEMMA SyncServes ==
  ASSUME TInv, RInv, Sync
  PROVE  [Contract!Next]_Contract!contract
<1> DEFINE p == job.target
<1>1. /\ p \in Policies /\ proc # "none" /\ weight[p] = version
      /\ UNCHANGED <<saved, weight, updates, proc>>
  BY DEF Sync, Raises, TInv, TypeOK, Input, RInv, Placed, durable
<1>2. CASE UNCHANGED <<rollout, synced>>
  BY <1>1, <1>2, ContractStays DEF backend
<1>3. CASE rollout' = Serve(p)
  <2>1. ServedWeights' = [ServedWeights EXCEPT ![p] = weight[p]]
    <3>1. rollout \in [Policies -> Revision]
      BY DEF TInv, TypeOK
    <3>2. NewRevision(p).weight = weight[p]
      BY <1>1 DEF NewRevision
    <3>3. rollout' = [rollout EXCEPT ![p] = NewRevision(p)]
      BY <1>3 DEF Serve
    <3>4. \A q \in Policies :
            rollout'[q].weight = IF q = p THEN weight[p] ELSE rollout[q].weight
      BY <1>1, <3>1, <3>2, <3>3
    <3> HIDE DEF p
    <3> QED
      BY <1>1, <3>4 DEF ServedWeights
  <2>2. /\ p \in RunningPolicies /\ p \in Contract!Usable
        /\ UNCHANGED <<RunningPolicies, SteppedTxs, Copies(saved)>>
    BY <1>1 DEF RunningPolicies, Contract!Usable, SteppedTxs, Copies
  <2>3. Contract!Serve(p)
    BY <1>1, <2>1, <2>2 DEF Contract!Serve
  <2> QED
    BY <2>2, <2>3 DEF Contract!Next
<1> QED
  BY <1>2, <1>3 DEF Sync

\* Every step of the transactions uses the backend as its contract allows, or not at all.
LEMMA ContractStep ==
  TInv /\ RInv /\ SInv /\ OInv /\ [Next]_vars => [Contract!Next]_Contract!contract
<1> SUFFICES ASSUME TInv, RInv, SInv, OInv, [Next]_vars
             PROVE  [Contract!Next]_Contract!contract
  OBVIOUS
<1>1. ASSUME NEW c \in Cycles, LaunchTrain(c) PROVE Contract!Next
  BY <1>1, TrainBegins
<1>2. ASSUME NEW t \in Tx, LaunchTool(t) PROVE Contract!Next
  BY <1>2, ToolBegins
<1>3. ASSUME NEW t \in Tx, Recover(t) PROVE Contract!Next
  <2>1. PICK i \in inputs : /\ Resumption(i).from \in saved
                            /\ weight' = [weight EXCEPT ![i.target] = Resumption(i).from]
    BY <1>3 DEF Recover
  <2>2. Resumption(i).from.policy = i.target /\ i.target \in Policies
    BY ResumptionOwn DEF TInv, TypeOK, Input
  <2>3. proc # "none" /\ UNCHANGED <<saved, rollout, updates, proc>>
    BY <1>3 DEF Recover, Recoverable, durable
  <2> QED
    BY <2>1, <2>2, <2>3, LoadRestores
<1>4. CASE Exit \/ Crash
  <2>1. Vanish /\ proc # "none"
    BY <1>4 DEF Exit, Crash, RInv, Placed, Idle
  <2> QED
    BY <2>1, VanishEnds
<1>5. CASE Update
  BY <1>5, UpdateStepsOnce
<1>6. CASE Reload
  <2>1. /\ version \in saved /\ weight' = [weight EXCEPT ![job.target] = version]
        /\ proc # "none" /\ UNCHANGED <<saved, rollout, updates, proc>>
    BY <1>6 DEF Reload, RInv, Placed, durable
  <2>2. version.policy = job.target /\ job.target \in Policies
    BY <1>6, VersionOwn DEF Reload, TInv, TypeOK, Input
  <2> QED
    BY <2>1, <2>2, LoadRestores
<1>7. CASE Sync
  BY <1>7, SyncServes
<1>8. CASE Fault \/ StartCycle \/ Raise \/ Rollout \/ Prepare \/ RecordUpdate \/ Publish
           \/ Commit \/ Advance
  <2>1. UNCHANGED <<saved, backend, proc>>
    BY <1>8 DEF Fault, StartCycle, Raise, Rollout, Prepare, RecordUpdate, Publish, Commit,
      Advance, durable
  <2> QED
    BY <2>1, ContractStays
<1>9. CASE UNCHANGED vars
  <2>1. UNCHANGED <<saved, backend, proc>>
    BY <1>9 DEF vars, durable
  <2> QED
    BY <2>1, ContractStays
<1> QED
  BY <1>1, <1>2, <1>3, <1>4, <1>5, <1>6, <1>7, <1>8, <1>9 DEF Next, PhaseStep

\* Launches, cycles, faults and recoveries use the backend as its contract has it, for any
\* topology, batches and bounds (training/base.py, TrainingBackend; coordinator.py,
\* transactions.py).
THEOREM ContractHolds == Spec => ContractKept
<1>1. Init => TInv /\ RInv /\ BInv /\ SInv /\ OInv
  BY TypeInit, RecordsInit, BasesInit, SavedInit, OwnInit
<1>2. TInv /\ RInv /\ BInv /\ SInv /\ OInv /\ [Next]_vars
        => (TInv /\ RInv /\ BInv /\ SInv /\ OInv)'
  BY TypeStep, RecordsStep, BasesStep, SavedStep, OwnStep
<1>3. Init => Contract!Init
  BY DEF Init, Contract!Init, Contract!AllFresh, RunningPolicies, ServedWeights, ColdRollout,
    SteppedTxs
<1>4. TInv /\ RInv /\ SInv /\ OInv /\ [Next]_vars => [Contract!Next]_Contract!contract
  BY ContractStep
<1> QED
  BY <1>1, <1>2, <1>3, <1>4, PTL DEF Spec, ContractKept, Contract!Spec

\* The phase transactions implement the schedule of the manifests and keep to the contract of
\* the backend, for any topology, batches and bounds (coordinator.py, transactions.py).
THEOREM AbstractionsHold == Spec => AbstractionsImplemented
  BY LedgerHolds, ContractHolds, PTL DEF AbstractionsImplemented

=============================================================================
