------------------------- MODULE PhaseTransaction -------------------------
(***************************************************************************)
(* The crash-safe phase transaction of HeteroSpawn: the alternating        *)
(* coordinator, the transaction manager with its store of immutable        *)
(* records, the policy registry, and the part of the LocalHF backend they  *)
(* drive (train weights, checkpoints, rollout revisions and the two        *)
(* idempotency caches), with processes that fail, crash, are relaunched    *)
(* and run the recovery command.                                           *)
(***************************************************************************)
EXTENDS TrainingPhases

CONSTANTS
  MaxFaults,        \* bound: exceptions and crashes injected in a behaviour
  MaxRecoveries,    \* bound: recoveries started on an already committed phase
  MaxDeployments    \* bound: deployment identities (a uuid in the code)

ASSUME BoundsAssumption ==
  /\ MaxFaults \in Nat
  /\ MaxRecoveries \in Nat
  /\ MaxDeployments \in Nat \ {0}

-----------------------------------------------------------------------------
(* Data *)

Revision == [policy : Policies, weight : Weight, deployment : Nat, replica : Nat]

\* What prepare persists before the optimizer may run; batch, base and snapshot
\* together stand for the batch digest.
Input == [tx : Tx, target : Policies, snap : [Policies -> Revision],
          base : Weight, batch : Batches \cup {Empty}]

Pending == [tx : Tx, input : Input, result : Weight]

Manifest == [tx : Tx, input : Input, weight : Weight, rev : Revision]

Recovery == [tx : Tx, rev : Revision]

-----------------------------------------------------------------------------
(* State *)

VARIABLES
  \* the transaction directory and the checkpoint directory: survive a crash
  inputs,      \* persisted phase inputs
  pendings,    \* persisted update results
  commits,     \* published phase manifests
  recoveries,  \* published recovery manifests
  saved,       \* weights of the checkpoints on disk
  \* the backend of the running process
  weight,      \* per policy: the train weights
  rollout,     \* per policy: the revision it serves
  updates,     \* results remembered by batch id
  synced,      \* revisions remembered by checkpoint digest
  \* the coordinator and the manager of the running process
  proc,        \* "none", "train" (a training cycle) or "tool" (phase recovery)
  registry,    \* per policy: the public rollout revision
  mode,        \* "cycle", "recover" (no manifest yet) or "restore" (manifest found)
  pc,          \* the next step of the operation in progress
  at,          \* the cycle this process runs
  job,         \* the phase input being built, or persisted
  version,     \* the weight version to synchronize
  rev,         \* the revision synchronization returned
  faults       \* bound: faults injected so far

durable == <<inputs, pendings, commits, recoveries, saved>>
backend == <<weight, rollout, updates, synced>>
frame == <<version, rev>>
vars == <<durable, backend, proc, registry, mode, pc, at, job, frame, faults>>

Idle == {"idle", "failed", "recovered"}

Control == Idle \cup {"none", "rollout", "prepare", "update", "record", "reload",
                      "sync", "publish", "commit", "advance"}

TypeOK ==
  /\ inputs \subseteq Input
  /\ pendings \subseteq Pending
  /\ commits \subseteq Manifest
  /\ recoveries \subseteq Recovery
  /\ saved \subseteq Weight
  /\ weight \in [Policies -> Weight]
  /\ rollout \in [Policies -> Revision]
  /\ updates \subseteq [job : Input, result : Weight]
  /\ synced \subseteq Revision
  /\ proc \in {"none", "train", "tool"}
  /\ registry \in [Policies -> Revision]
  /\ mode \in {"cycle", "recover", "restore"}
  /\ pc \in Control
  /\ at \in 1 .. (MaxCycle + 1)
  /\ job \in Input
  /\ version \in Weight
  /\ rev \in Revision
  /\ faults \in 0 .. MaxFaults

ColdRollout(d) ==
  [p \in Policies |->
     [policy |-> p, weight |-> Unloaded(p), deployment |-> d, replica |-> 0]]

ColdJob ==
  [tx |-> TxOf(1, "main_update"), target |-> MainPolicy, snap |-> ColdRollout(0),
   base |-> Unloaded(MainPolicy), batch |-> Empty]

Init ==
  /\ inputs = {}
  /\ pendings = {}
  /\ commits = {}
  /\ recoveries = {}
  /\ saved = {Start(p) : p \in Policies}
  /\ weight = [p \in Policies |-> Unloaded(p)]
  /\ rollout = ColdRollout(0)
  /\ updates = {}
  /\ synced = {}
  /\ proc = "none"
  /\ registry = ColdRollout(0)
  /\ mode = "cycle"
  /\ pc = "none"
  /\ at = 1
  /\ job = ColdJob
  /\ version = Unloaded(MainPolicy)
  /\ rev = ColdRollout(0)[MainPolicy]
  /\ faults = 0

-----------------------------------------------------------------------------
(* The store: a record is written once; writing equal bytes again succeeds,  *)
(* writing others under the same transaction raises.                         *)

ConflictsNever(records, r) == FALSE

Conflicts(records, r) == \E other \in records : other.tx = r.tx /\ other # r

HasRecord(records, t) == \E r \in records : r.tx = t

\* deployment identities are uuids: a new one is one no record mentions
UsedDeployments ==
  {m.rev.deployment : m \in commits \cup recoveries}
    \cup UNION {{i.snap[p].deployment : p \in Policies} : i \in inputs}

FreshDeployments ==
  {d \in 1 .. MaxDeployments :
     /\ d \notin UsedDeployments
     /\ \A e \in 1 .. (d - 1) : e \in UsedDeployments}

-----------------------------------------------------------------------------
(* Processes *)

CycleCommitted(c) == \A ph \in CyclePhases : HasRecord(commits, TxOf(c, ph))

CommittedFor(p) == {m \in commits : m.input.target = p}

Latest(records) ==
  {m \in records : \A n \in records : n.tx.cycle <= m.tx.cycle}

CommittedWeight(records, p) ==
  IF records = {} THEN Start(p) ELSE (CHOOSE m \in Latest(records) : TRUE).weight

AlwaysStart(c, p) == Start(p)

\* The checkpoint the experiment hands to the cycle: what the latest earlier
\* cycle committed for the policy, an empty Sub phase carrying its base along.
CheckpointFor(c, p) == CommittedWeight({m \in CommittedFor(p) : m.tx.cycle < c}, p)

LaunchRollout(c, d, k) ==
  [p \in Policies |->
     [policy |-> p, weight |-> CheckpointFor(c, p), deployment |-> d, replica |-> k]]

\* A training process: restore and synchronize every policy (or, with no checkpoint to
\* load, serve the initial adapters), then build the registry from what is served.
LaunchTrain(c) ==
  /\ proc = "none"
  /\ c = 1 \/ CycleCommitted(c - 1)
  /\ \E d \in FreshDeployments, k \in {0, 1} :
       /\ k = 0 => \A p \in Policies : CheckpointFor(c, p) = Start(p)
       /\ rollout' = LaunchRollout(c, d, k)
       /\ synced' = IF k = 0 THEN {} ELSE {rollout'[p] : p \in Policies}
       /\ registry' = rollout'
  /\ weight' = [p \in Policies |-> CheckpointFor(c, p)]
  /\ proc' = "train"
  /\ pc' = "idle"
  /\ at' = c
  /\ UNCHANGED <<durable, updates, mode, job, frame, faults>>

\* The phase recovery command: a fresh backend restored to the base checkpoint
\* and a registry holding the revisions the input was prepared from.
LaunchTool(t) ==
  /\ proc = "none"
  /\ HasRecord(commits, t) => Cardinality(recoveries) < MaxRecoveries
  /\ \E i \in inputs :
       /\ i.tx = t
       /\ i.base \in saved
       /\ weight' = [weight EXCEPT ![i.target] = i.base]
       /\ registry' = i.snap
       /\ job' = i
  /\ \E d \in FreshDeployments : rollout' = ColdRollout(d)
  /\ proc' = "tool"
  /\ pc' = "idle"
  /\ UNCHANGED <<durable, updates, synced, mode, at, frame, faults>>

\* The version and revision of a call are gone when it returns or raises.
Return ==
  /\ version' = Unloaded(MainPolicy)
  /\ rev' = ColdRollout(0)[MainPolicy]

Vanish ==
  /\ weight' = [p \in Policies |-> Unloaded(p)]
  /\ rollout' = ColdRollout(0)
  /\ updates' = {}
  /\ synced' = {}
  /\ proc' = "none"
  /\ registry' = ColdRollout(0)
  /\ mode' = "cycle"
  /\ pc' = "none"
  /\ at' = 1
  /\ job' = ColdJob
  /\ Return
  /\ UNCHANGED durable

\* The process ends after its operation returned or raised.
Exit ==
  /\ pc \in Idle
  /\ ~(proc = "tool" /\ pc = "idle")
  /\ Vanish
  /\ UNCHANGED faults

Crash ==
  /\ proc # "none"
  /\ faults < MaxFaults
  /\ faults' = faults + 1
  /\ Vanish

\* Anything the operation in progress awaits may raise; what it did stays done.
Fault ==
  /\ pc \notin Idle \cup {"none"}
  /\ faults < MaxFaults
  /\ faults' = faults + 1
  /\ pc' = "failed"
  /\ Return
  /\ UNCHANGED <<durable, backend, proc, registry, mode, at, job>>

-----------------------------------------------------------------------------
(* One phase of a cycle *)

\* The input as far as target_for_phase and the registry snapshot determine it.
PhaseJob(c, phase, snap) ==
  [tx |-> TxOf(c, phase), target |-> TargetOf(phase), snap |-> snap,
   base |-> snap[TargetOf(phase)].weight, batch |-> Empty]

PendingOf == [tx |-> job.tx, input |-> job, result |-> version]

ManifestOf == [tx |-> job.tx, input |-> job, weight |-> version, rev |-> rev]

\* Committed without an update: the Sub phase of a cycle that trained no sample.
EmptyPhase == job.batch = Empty

StartCycle ==
  /\ proc = "train"
  /\ pc \in Idle
  /\ at <= MaxCycle
  /\ mode' = "cycle"
  /\ pc' = "rollout"
  /\ job' = PhaseJob(at, FirstPhase, registry)
  /\ UNCHANGED <<durable, backend, proc, registry, at, frame, faults>>

\* The conditions under which the step at pc raises instead of completing.
Raises ==
  \/ /\ pc = "rollout"
     /\ job.snap # registry \/ rollout[MainPolicy] # job.snap[MainPolicy]
  \/ /\ pc = "prepare"
     /\ weight[job.target] # job.base \/ Conflicts(inputs, job)
  \/ /\ pc = "update"
     /\ \/ \E u \in updates : u.job.tx = job.tx /\ u.job # job
        \/ /\ \A u \in updates : u.job.tx # job.tx
           /\ weight[job.target] # job.base
  \/ pc = "record" /\ Conflicts(pendings, PendingOf)
  \/ pc = "sync" /\ weight[job.target] # version
  \/ pc = "publish" /\ rev.weight # version
  \/ pc = "commit" /\ (rev.weight # version \/ Conflicts(commits, ManifestOf))

Raise ==
  /\ Raises
  /\ pc' = "failed"
  /\ Return
  /\ UNCHANGED <<durable, backend, proc, registry, mode, at, job, faults>>

\* Fresh rollouts under the snapshot. A Sub whose generation is refused becomes a
\* failed Sub without samples, so a Sub phase with a mismatched Sub policy can only
\* produce the empty batch; Main's mismatch raises.
Rollout ==
  /\ pc = "rollout"
  /\ ~Raises
  /\ \E b \in Batches \cup {Empty} :
       /\ b = Empty => job.tx.phase = "sub_update"
       /\ rollout[SubPolicy] # job.snap[SubPolicy] /\ job.tx.phase = "sub_update"
            => b = Empty
       /\ job' = [job EXCEPT !.batch = b]
  /\ pc' = "prepare"
  /\ UNCHANGED <<durable, backend, proc, registry, mode, at, frame, faults>>

\* save_checkpoint, the input's validators and persist_input. An empty Sub batch
\* goes straight to commit, with the revision of the snapshot.
Prepare ==
  /\ pc = "prepare"
  /\ ~Raises
  /\ inputs' = inputs \cup {job}
  /\ version' = job.base
  /\ rev' = job.snap[job.target]
  /\ pc' = IF EmptyPhase THEN "commit" ELSE "update"
  /\ UNCHANGED <<pendings, commits, recoveries, saved, backend, proc, registry, mode,
                 at, job, faults>>

UpdateTwice(w, t, b, n) == Applied(Applied(w, t, b, n), t, b, n)

Stepped(w, t, b, n) == Applied(w, t, b, n)

KeepSaved(w) == saved

\* The checkpoint directory is renamed into place before the update returns.
SavedWith(w) == saved \cup {w}

\* A batch id already seen returns its result and changes nothing.
Update ==
  /\ pc = "update"
  /\ ~Raises
  /\ \/ /\ \E u \in updates : u.job = job /\ version' = u.result
        /\ UNCHANGED <<saved, weight, updates>>
     \/ /\ \A u \in updates : u.job.tx # job.tx
        /\ \E n \in Noise :
             LET w == Stepped(weight[job.target], job.tx, job.batch, n) IN
             /\ weight' = [weight EXCEPT ![job.target] = w]
             /\ saved' = SavedWith(w)
             /\ updates' = updates \cup {[job |-> job, result |-> w]}
             /\ version' = w
  /\ pc' = "record"
  /\ UNCHANGED <<inputs, pendings, commits, recoveries, rollout, synced,
                 proc, registry, mode, at, job, rev, faults>>

RecordNothing == pendings

WithPending == pendings \cup {PendingOf}

SyncAtOnce == "sync"

\* Recovery reloads the checkpoint it just recorded: the update may have been a
\* remembered result, with the train weights rolled back to the base.
AfterRecord == IF mode = "recover" THEN "reload" ELSE "sync"

\* record_update
RecordUpdate ==
  /\ pc = "record"
  /\ ~Raises
  /\ pendings' = WithPending
  /\ pc' = AfterRecord
  /\ UNCHANGED <<inputs, commits, recoveries, saved, backend, proc, registry, mode, at,
                 job, frame, faults>>

Reload ==
  /\ pc = "reload"
  /\ version \in saved
  /\ weight' = [weight EXCEPT ![job.target] = version]
  /\ pc' = "sync"
  /\ UNCHANGED <<durable, rollout, updates, synced, proc, registry, mode,
                 at, job, frame, faults>>

NewRevision(p) ==
  [policy |-> p, weight |-> version, deployment |-> rollout[p].deployment,
   replica |-> rollout[p].replica + 1]

Remembered(p) == {r \in synced : r.policy = p /\ r.weight = version}

ServeNothing(p) == rollout

\* The train adapter is copied over the rollout adapter.
Serve(p) == [rollout EXCEPT ![p] = NewRevision(p)]

AdvanceBeforeCommit(r) == "advance"

\* A new manifest is published before the registry advances; a committed phase
\* whose manifest does not name the revision needs a recovery manifest first.
AfterSync(r) ==
  CASE mode # "restore" -> "commit"
    [] mode = "restore" /\ \E m \in commits : m.tx = job.tx /\ m.rev = r -> "advance"
    [] OTHER -> "publish"

\* A cached revision is returned as it is; a revision that already serves the
\* version is returned; otherwise the adapter is copied and a revision created.
Sync ==
  LET p == job.target IN
  /\ pc = "sync"
  /\ ~Raises
  /\ \/ /\ rev' \in Remembered(p)
        /\ UNCHANGED <<rollout, synced>>
     \/ /\ Remembered(p) = {}
        /\ rollout[p].weight = version
        /\ rev' = rollout[p]
        /\ UNCHANGED <<rollout, synced>>
     \/ /\ Remembered(p) = {}
        /\ rollout[p].weight # version
        /\ rev' = NewRevision(p)
        /\ rollout' = Serve(p)
        /\ synced' = synced \cup {NewRevision(p)}
  /\ pc' = AfterSync(rev')
  /\ UNCHANGED <<durable, weight, updates, proc, registry, mode, at, job,
                 version, faults>>

\* publish_commit. An empty phase of a cycle leaves the registry alone and is done.
Commit ==
  /\ pc = "commit"
  /\ ~Raises
  /\ commits' = commits \cup {ManifestOf}
  /\ IF mode = "cycle" /\ EmptyPhase
     THEN pc' = "idle" /\ at' = at + 1 /\ Return
     ELSE pc' = "advance" /\ UNCHANGED <<at, frame>>
  /\ UNCHANGED <<inputs, pendings, recoveries, saved, backend, proc, registry, mode, job,
                 faults>>

\* The cycle is committed and registry r holds what the next one would be launched with.
CycleComplete(r) ==
  /\ job.tx.cycle = at
  /\ CycleCommitted(at)
  /\ \A p \in Policies : r[p].weight = CheckpointFor(at + 1, p)

\* replace_revision; Main's phase is followed by the Sub phase of the cycle, whose
\* snapshot is the registry as it now is. After a recovery the caller goes on with
\* the next cycle when the recovered phase completed this one.
Advance ==
  /\ pc = "advance"
  /\ registry' = [registry EXCEPT ![job.target] = rev]
  /\ CASE mode # "cycle" ->
            /\ pc' = "recovered"
            /\ at' = IF CycleComplete(registry') THEN at + 1 ELSE at
            /\ UNCHANGED job
       [] mode = "cycle" /\ job.tx.phase = "main_update" /\ "sub_update" \in CyclePhases ->
            /\ pc' = "rollout"
            /\ job' = PhaseJob(at, "sub_update", registry')
            /\ UNCHANGED at
       [] OTHER ->
            pc' = "idle" /\ at' = at + 1 /\ UNCHANGED job
  /\ Return
  /\ UNCHANGED <<durable, backend, proc, mode, faults>>

-----------------------------------------------------------------------------
(* Recovery of a phase whose input is durable *)

\* The transactions recover is called for: the command's own; in a process that
\* goes on after an exception, the interrupted one or a policy's last commit.
Recoverable(t) ==
  \/ proc = "tool" /\ pc = "idle" /\ t = job.tx
  \/ /\ proc = "train"
     /\ pc \in {"failed", "recovered"}
     /\ \/ t = job.tx
        \/ \E p \in Policies : \E m \in Latest(CommittedFor(p)) : t = m.tx

ResumePoint(m, w, next) == [mode |-> m, from |-> w, next |-> next]

ResumptionForgettingPending(i) ==
  IF HasRecord(commits, i.tx)
  THEN ResumePoint("restore", (CHOOSE m \in commits : m.tx = i.tx).weight, "sync")
  ELSE ResumePoint("recover", i.base, IF i.batch = Empty THEN "sync" ELSE "update")

ResumptionForgettingEmpty(i) ==
  IF HasRecord(commits, i.tx)
  THEN ResumePoint("restore", (CHOOSE m \in commits : m.tx = i.tx).weight, "sync")
  ELSE IF HasRecord(pendings, i.tx)
  THEN ResumePoint("recover", (CHOOSE u \in pendings : u.tx = i.tx).result, "sync")
  ELSE ResumePoint("recover", i.base, "update")

\* Where recovery of input i takes up the phase, and from which checkpoint.
Resumption(i) ==
  IF HasRecord(commits, i.tx)
  THEN ResumePoint("restore", (CHOOSE m \in commits : m.tx = i.tx).weight, "sync")
  ELSE IF HasRecord(pendings, i.tx)
  THEN ResumePoint("recover", (CHOOSE u \in pendings : u.tx = i.tx).result, "sync")
  ELSE ResumePoint("recover", i.base, IF i.batch = Empty THEN "sync" ELSE "update")

\* recover, up to its first synchronization or update: restore_checkpoint puts the
\* checkpoint's weights in place. (The pending record is of the input: the store
\* holds one input per transaction.)
Recover(t) ==
  /\ Recoverable(t)
  /\ HasRecord(commits, t) => Cardinality(recoveries) < MaxRecoveries
  /\ \E i \in inputs :
       LET point == Resumption(i) IN
       /\ i.tx = t
       /\ point.from \in saved
       /\ job' = i
       /\ version' = point.from
       /\ weight' = [weight EXCEPT ![i.target] = point.from]
       /\ mode' = point.mode
       /\ pc' = point.next
  /\ UNCHANGED <<durable, rollout, updates, synced, proc, registry, at, rev,
                 faults>>

\* publish_recovery: the committed weights are served by another revision now.
Publish ==
  /\ pc = "publish"
  /\ ~Raises
  /\ recoveries' = recoveries \cup {[tx |-> job.tx, rev |-> rev]}
  /\ pc' = "advance"
  /\ UNCHANGED <<inputs, pendings, commits, saved, backend, proc, registry, mode, at,
                 job, frame, faults>>

-----------------------------------------------------------------------------
PhaseStep ==
  \/ Raise
  \/ Rollout
  \/ Prepare
  \/ Update
  \/ RecordUpdate
  \/ Reload
  \/ Sync
  \/ Publish
  \/ Commit
  \/ Advance

Next ==
  \/ \E c \in Cycles : LaunchTrain(c)
  \/ \E t \in Tx : LaunchTool(t)
  \/ \E t \in Tx : Recover(t)
  \/ Exit
  \/ Crash
  \/ Fault
  \/ StartCycle
  \/ PhaseStep

Spec == Init /\ [][Next]_vars

\* A running operation goes on, a process whose operation ended exits, and the
\* operator runs the recovery command on a phase that keeps needing it.
Fairness ==
  /\ WF_vars(PhaseStep)
  /\ WF_vars(proc = "tool" /\ \E t \in Tx : Recover(t))
  /\ SF_vars(Exit)
  /\ \A t \in Tx : SF_vars(LaunchTool(t))

FairSpec == Spec /\ Fairness

-----------------------------------------------------------------------------
(* Properties *)

\* A transaction has at most one input, one update result and one manifest, however
\* often its phase was run again, recomputed or recovered (transactions.py,
\* _write_immutable).
UniqueRecords ==
  /\ \A i, j \in inputs : i.tx = j.tx => i = j
  /\ \A u, v \in pendings : u.tx = v.tx => u = v
  /\ \A m, n \in commits : m.tx = n.tx => m = n

\* A manifest publishes the input that was persisted and the update result that was
\* recorded for it, or no update at all for an empty Sub phase; a record is never
\* there without the ones it depends on.
RecordsAgree ==
  /\ \A u \in pendings : u.input \in inputs /\ u.input.tx = u.tx
  /\ \A m \in commits :
       /\ m.input \in inputs
       /\ m.input.tx = m.tx
       /\ m.rev.weight = m.weight
       /\ IF m.input.batch = Empty
          THEN m.weight = m.input.base
          ELSE [tx |-> m.tx, input |-> m.input, result |-> m.weight] \in pendings
  /\ \A r \in recoveries :
       \E m \in commits : m.tx = r.tx /\ m.weight = r.rev.weight

\* The optimizer is never advanced twice for a phase: a recorded result is the base
\* of its input plus one step of its own batch, through crashes, retries and
\* recoveries, and no phase was applied to the base before.
OneStep ==
  \A u \in pendings :
    /\ \E n \in Noise : u.result = Applied(u.input.base, u.tx, u.input.batch, n)
    /\ \A k \in DOMAIN u.input.base.steps : u.input.base.steps[k].tx # u.tx

\* Every weight a record refers to has its checkpoint on disk.
CheckpointsSaved ==
  /\ \A i \in inputs : i.base \in saved
  /\ \A u \in pendings : u.result \in saved
  /\ \A m \in commits : m.weight \in saved

\* What is on disk can be recovered from at any time: records that belong together, and
\* the checkpoints they refer to (transactions.py, record_update and commit).
RecordsSound == RecordsAgree /\ CheckpointsSaved

\* A phase takes effect once: no second record of it, and no second step for it
\* (transactions.py, _write_immutable and recover).
AppliedOnce == UniqueRecords /\ OneStep

\* The Sub phase trains on rollouts sampled with the Main weights its own cycle
\* committed, never with those of the cycle before (design section 19.1, Advance).
FreshSub ==
  {"main_update", "sub_update"} \subseteq CyclePhases =>
    \A i \in inputs :
      i.tx.phase = "sub_update" =>
        \E m \in commits :
          /\ m.tx = TxOf(i.tx.cycle, "main_update")
          /\ i.snap[MainPolicy].weight = m.weight

\* Once recover found its input it is not refused anywhere on its way to the
\* registry, at whatever point the phase was interrupted and whatever the process
\* still remembers of it.
RecoveryCompletes == mode # "cycle" => ~Raises

Recovered == mode # "cycle" /\ pc = "recovered"

\* When recover returns, a manifest of the transaction exists and the train weights
\* and the public revision both carry its weights; the recovery command, which starts
\* from a fresh backend, also serves that revision.
RecoveredState ==
  Recovered =>
    LET p == job.target IN
    /\ \E m \in commits : m.tx = job.tx /\ m.weight = weight[p]
    /\ registry[p].weight = weight[p]
    /\ proc = "tool" => rollout[p] = registry[p]

\* A recovery gets to its end, and leaves what the manifest says (transactions.py,
\* recover).
RecoverySound == RecoveryCompletes /\ RecoveredState

\* Within a process the registry only ever advances to a revision that a published
\* manifest, or recovery manifest, names.
AdvancesPublished ==
  [][proc' = proc =>
       \A p \in Policies :
         registry'[p] # registry[p] =>
           registry'[p] \in {r.rev : r \in commits \cup recoveries}]_vars

\* The weights the manifests make public for a policy.
PublicWeight(p) == CommittedWeight(CommittedFor(p), p)

Ledger == INSTANCE PhaseLedger
            WITH public <- [p \in Policies |-> PublicWeight(p)],
                 done <- {m.tx : m \in commits}

\* Faults, restarts and recoveries included, the manifests grow as the alternating
\* schedule says: in order, each phase once, one optimizer step or none.
LedgerImplemented == Ledger!Spec

\* What the transactions see of the backend, as the contract of a training backend names it.
RunningPolicies == IF proc = "none" THEN {} ELSE Policies

ServedWeights == [p \in Policies |-> rollout[p].weight]

SteppedTxs == {u.job.tx : u \in updates}

CopyOf(w) == [policy |-> w.policy, weights |-> w]

Copies(ws) == {CopyOf(w) : w \in ws}

OneMore(w, t) == {Applied(w, t, b, n) : b \in Batches, n \in Noise}

Contract == INSTANCE TrainingBackend
              WITH Ids <- Tx,
                   Given <- Copies({Start(p) : p \in Policies}),
                   Fresh <- Unloaded,
                   StepsOf <- OneMore,
                   running <- RunningPolicies,
                   version <- weight,
                   broken <- {},
                   served <- ServedWeights,
                   stepped <- SteppedTxs,
                   saved <- Copies(saved),
                   lost <- {},
                   exported <- {}

\* Launches, cycles, faults and recoveries use the backend as its contract has it: each
\* policy is loaded from checkpoints of its own, stepped on once for a transaction, and
\* serves nothing but what it was at (training/base.py, TrainingBackend).
ContractKept == Contract!Spec

\* Whatever crashes, fails or is recovered twice, the manifests follow the schedule and
\* the backend keeps its contract (coordinator.py, transactions.py, training/base.py).
AbstractionsImplemented == LedgerImplemented /\ ContractKept

\* A phase whose input is durable is committed in the end.
PersistedCommits ==
  \A t \in Tx : HasRecord(inputs, t) ~> HasRecord(commits, t)

\* What section 19.2 of the design promises of a recovery that goes on in a live
\* process: the backend serves the revision the registry makes public.
RecoveredServed == Recovered => rollout[job.target] = registry[job.target]

=============================================================================
