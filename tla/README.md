# A TLA+ verification of HeteroSpawn-RL

HeteroSpawn-RL trains a Main policy and a Sub policy that it spawns, on deep-research
episodes. What must not go wrong in it is seldom visible in one function: an optimizer step
applied twice after a crash, a Sub trained on rollouts of the previous Main, a generation
answered by weights other than those its revision names, a trace whose causes point to
nothing, a comparison of checkpoints with different histories. This directory models the
program's own control flow for these, checks the models with TLC and proves the most
important properties with TLAPS for all values of the parameters.

All source paths below are under `src/heterospawn/` of the repository.

## Inventory

| Component | State it keeps | Operations | Interacts with |
|---|---|---|---|
| `training/coordinator.py` `AlternatingCoordinator`, `training/registry.py` `PolicyRegistry` | public rollout revision per policy | `run_cycle`, `replace_revision`, `snapshot`, `target_for_phase` | backend, transaction manager, batch factory (awaited calls) |
| `training/transactions.py` `PhaseTransactionManager`, `FilePhaseTransactionStore` | prepared inputs in memory; input, pending, commit and recovery records on disk | `prepare`, `record_update`, `commit`, `recover` | backend, registry, file system |
| `backends/local_hf/backend.py` `LocalHfLoraBackend` (and `training/mock.py`) | train and rollout adapter, optimizer, RNG, results by batch id, revisions by digest, checkpoints on disk | `generate`, `update_policy`, `update_supervised`, `sync_rollout_weights`, `save/restore/fork_checkpoint`, `export_rollout_artifact` | serialised by one lock |
| `training/episode_cycle.py`, `training/batch.py`, `domain/training.py` | phases already built | `run_cycle`, `build`, reward composition, advantages, batch weights | concurrent episodes and scores |
| `backends/vllm_rollout/service.py` `VllmRolloutService` | revision, artifact, worker, calls in flight, transition flag per policy | `generate`, `runtime_metrics`, `sync_rollout_weights`, `close` | worker processes |
| `backends/vllm_rollout/process.py`, `worker.py` | queue of calls, the batch being exchanged | `generate`, batch loop, `close` | worker process over a socket |
| `orchestration/wideseek_episode.py`, `wideseek_actions.py`, `budget.py` | event stream, Subs in flight, known addresses, budget slots, semaphore | `run`, a Main turn, a Sub, a tool call, the merge | policies and tools |
| `orchestration/trainable_episode.py`, `api_episode.py` | event stream, Subs in flight; a budget ledger and a semaphore per orchestrator | `run`, Main's action, a Sub, the merge | policies and search; concurrent rollouts share the trainable orchestrator |
| `experiments/wideseek.py`, `evaluation/wideseek_comparison.py` | `state.json`, stage reports, checkpoints | fresh start, resume, one stage after the other, comparison, final report | training and evaluation stages |
| `training/wideseek_smoke.py` | none | a training launch, the phase recovery command | wires the above |
| `training/wideseek_sft.py`, `wideseek_sft_smoke.py`, `domain/supervised.py` | the schedule and the steps taken | select, build examples, schedule, update, hand over, report | a prepared data file, two backends one after the other |
| `evaluation/semantic_judge.py` | verdict cache, key locks, request count | `judge` | concurrent scores, provider |
| `evaluation/wideseek.py`, `training/wideseek_reward.py`, `rewards/` | none | `evaluate`, reward composition | the semantic judge |
| `evaluation/api_pilot.py`, `evaluation/judges.py`, `benchmarks/xbench.py` | summaries, predictions, scores | one API episode after the other, then the score of the repeats | the API episode, a judge over the provider |
| `policies/minimax.py` | the attempt of the request | `generate` with nested retries | provider |
| `assets/huggingface.py` | final, partial and quarantined files | `prepare`, `verify_copy` | official hub and mirror, what earlier runs left on disk |
| `search/`, `benchmarks/wideseek.py`, CLI | none or per call | | |

What is hard in it, and therefore what the models are about:

* crashes and raised errors between any two steps of a phase, retries, and the recovery
  command, in a fresh process or in one that goes on;
* asynchronous tasks on one event loop: state read before an await and used after it,
  calls in flight while weights are replaced, cancellation, shutdown;
* concurrent Subs and tool calls whose results are merged into one ordered trace;
* scores that are judged concurrently through one cache and one request budget;
* retries inside retries inside repairs, at the end of which one prediction is lost, not a run;
* partial files that outlive the command, and mirrors that answer anything;
* rows, tasks and steps that do not divide evenly, over a selection that must leave tasks out;
* a call of the backend that fails when it has changed half of what it changes;
* resumption of an experiment from what earlier invocations left on disk.

## Modules

    TrainingBackend           abstract: what training relies on in a backend; kept by the
                              backend of PhaseTransaction and by LocalBackend
    TrainingPhases            the schedule: policies, phases, weights as step histories
      PhaseLedger             abstract: what the phase manifests promise
      PhaseTransaction        coordinator + registry + transactions + backend interface
        MCPhase, PhaseTransaction_proofs
    RolloutBarrier            abstract: what a rollout service promises
      VllmRollout             the vLLM service of one policy and its worker processes
        MCVllm, VllmRollout_proofs (about VllmWorker too)
    VllmWorker, MCWorker      the client side of one worker: queue, batch, exchange
    WideSeekEpisode           one episode: Main, Subs, tools, budget, trace
      MCEpisode, WideSeekEpisode_proofs
    SpawnEpisode              the one-round episodes: trainable (shared limits) and API
      ApiPilot                the pilot: API episodes, their summaries, and their score
        MCSpawn, SpawnEpisode_proofs (about both)
    RewardedBatch             rollouts, semantic judge, rewards and batch of each phase
      MCBatch, RewardedBatch_proofs
    LocalBackend              the inside of the LocalHF backend, with half-way failures
      MCLocal, LocalBackend_proofs
    Experiment                the resumable experiment run
      MCExperiment, Experiment_proofs
    AssetPreparation          pinned files: attempts, endpoints, partial files, verification
      WarmStart, MCAssets     the supervised warm start from one of those files
        AssetPreparation_proofs (about both)

`PROJECT.json` maps every definition to the lines it models.

### Phase transactions

Weights are their history: a sequence of steps, each with the transaction, the batch and the
noise of the computation (`Applied`). A record is the record of what was written; a digest
comparison is equality. The variables are

* on disk: `inputs`, `pendings`, `commits`, `recoveries`, and `saved`, the checkpoints;
* in the backend: `weight` (train), `rollout`, `updates` (results by batch id), `synced`
  (revisions by digest);
* in the process: `proc` (a training process or the recovery command), `registry`, and the
  operation in progress: `mode`, `pc`, `job` (the prepared input), `version`, `rev`.

One action is one call the coordinator or the manager awaits: `Rollout`, `Prepare`, `Update`,
`RecordUpdate`, `Reload`, `Sync`, `Commit`, `Advance`; a recovery enters at `Recover` and leaves
through `Publish`. `Raises` collects the conditions under which the step at `pc` raises;
`Fault` is anything else that raises there and `Crash` loses everything not on disk. Both
are bounded by `MaxFaults`. `LaunchTrain` restores what the experiment hands to a cycle,
`LaunchTool` is `run_wideseek_phase_recovery`.

Decisions of the abstraction:

* store writes are atomic, as `os.link` of a complete temporary file is; an update is one step
  (what a failure inside it leaves behind is what `LocalBackend` is about);
* the final restore of the training and recovery commands loads what is loaded already;
* `recover` in a living process is called for the transaction that was interrupted or for the
  latest committed one of its policy; the command exits when it is done;
* a process goes on to another cycle only when the registry carries what a fresh launch of
  that cycle would load (`CycleComplete`);
* a launch without checkpoints serves the initial adapters, which then are `Start`;
* deployment identities are uuids: a fresh one is the smallest that no record mentions;
* a Sub that is refused a generation becomes a failed Sub, so a Sub phase whose policy does
  not match the snapshot yields the empty batch; an empty Main batch raises, which is a `Fault`.

`PhaseLedger` knows none of this: phases are committed in the order of the schedule, each
advances the public weights of its target by one step, an empty Sub phase by none.

`TrainingBackend` is the contract of the protocol in `training/base.py`, whose executable oracle is
`training/mock.py`: each policy is at a version; an update is one step from it, taken once for its
id, and has its checkpoint when it returns; a synchronization serves the version the policy is at; a
policy is restored to, or forked from, a checkpoint that is whole; an export is of that version and
from a whole checkpoint; policies on which a call failed half way are not used by the callers until
they are restored. Both models keep it (`ContractKept`): `PhaseTransaction` through all its launches, cycles,
faults and recoveries, and `LocalBackend` with adapters, optimizers, directories and caches behind
it, where a version counts as given only if the contents are those of its name (`VersionOf`,
`ServedOf`, `ExportOf`). What a call returns is not part of it, so that a remembered revision
(`MCPhaseHotRecovery`) is a step that changes nothing to the contract. The two are not composed: the
atomic update of `PhaseTransaction` is the contract's `Step`, the half-way failures of `LocalBackend`
are its `Break`.

### vLLM service and worker

The critical sections of the service's condition never span a suspension, so each is an
action; waiting until the calls in flight are drained (`Drain`), shutting the old worker down
(`Stop`), launching the next (`Launch`), and both halves of a rollback (`Discard`, `Restore`,
`Drop`) are actions of their own. `close` over several policies is projected on one; metrics
requests are counted like generations. A shutdown that raises leaves the process running: at most
`MaxLeaks` do. A service call that is cancelled, and `start` failing, are not modelled.

`VllmWorker` is the queue and the batch loop of `SubprocessVllmWorker`: `Take` and `Collect` are
separated by the batch wait, callers may be cancelled between any two steps, an exchange is
answered or fails, after some results have been handed out perhaps, or the process hangs with it
(`Hang`: `_rpc` is called without a timeout). With no batch wait `Take` and
`Collect` run together, one of the behaviours of the model. A worker is closed only when no
call waits for it, which is `NotUnderCalls` of the service.

`RolloutBarrier` says what training relies on: later and later revisions, each published while
no call is in flight, and every answer sampled by the weights of the revision it carries.

### WideSeek episode

An action is what a task does between two suspensions: a generation of Main that was answered
(`MainTurn`) or raised, the same for a Sub, the start and the end of a tool call, the end of
a Sub's turn, the merge of a round. Models and tools are nondeterministic. Prompts, contents
and digests are left out; steps keep their identity (agent, turn, attempt or request) and their
causes. The ledger's lock is never contended across a suspension, so its operations are part
of the actions that call them. Semaphore and ledger are the orchestrator's; the model is of one
episode at a time. The limits of a run are a record (`profile`), so that one instance explores
several sets of them; `TraceSound` joins what the trace's validator demands (`TraceConsistent`),
the request order of what Main reads, and the origin of every address a Sub opens.

### One-round episodes

`SpawnEpisode` is the trainable orchestrator, whose ledger and semaphore the rollouts of a batch
share (several episodes run), and the API orchestrator, made for one evaluation (only `Alone`
runs). An action is what a task does between two suspensions: Main's attempt, a Sub taking the
semaphore and its reservation, the end of its search, its end, the merge. The two differ in the
events they record, in what ends a Sub, and in what a Main that ran out of repairs does (a failed
trace, or an exception). API events are named by their index, which is their place in the
stream; the model names the step instead.

### API pilot

`ApiPilot` puts `evaluation/api_pilot.py` on top: `EpisodeDone` ends one episode, writes its summary
and its prediction and makes a fresh orchestrator for the next; when all are done, `Compare` and
`Judge` score the predictions in order. The judge's request is three loops, one inside the other:
posts that failed (`PostFails`) and responses of another schema (`ResponseMalformed`), both in
`policies/minimax.py`, and answers that are no verdict (`VerdictUnclear`, `evaluation/judges.py`);
`asked` holds the three counters, and the last failure of any of them is one `"judgeFailed"`.
Whether an answer is right, and what the provider does with a post, is a choice. An episode that
raises a plain exception tells nothing of itself (`NoFacts`).

### Rewarded batch

`RewardedBatch` follows `RolloutBatchFactory.build` through the phases of a cycle: the rollouts of
each task are gathered, then their scores, which ask the semantic judge about keys that do
not occur in the reference one after the other and about differing cells together. `Ask`,
`Acquire`, `EnterSlot`, `Answered`, `BadReply` and `JudgeFails` are the judge between its
suspensions: cache, lock of the question, semaphore, request count, attempts. Then come reward,
group advantage and the weight of each step, and `NextPhase` rolls out afresh over the judge's
memory. Scores, advantages and weights are whole numbers of `1/Scale`; the division of an
advantage by the deviation, the same for a whole group, is left out.

Columns are not aligned: an answer is a set of rows whose key the reference may have and whose
cell may equal the reference's, and the wrong cells of different rows are different texts. Who waits for
a lock or a slot gets it in any order (first come, first served in the code). The cache starts
empty. The penalties of `RewardComposer` default to zero and are left out; what Main gets besides
the outcome is `extra`. A build that failed leaves the tasks of its other rollouts running, as
`asyncio.gather` does.

### LocalHF backend

`LocalBackend` opens the backend: the contents of adapter and optimizer are the history of batches
stepped on since their initialization, and everything that carries a label (checkpoint
directory, artifact, train and rollout adapter) has what it holds beside what it claims. Calls
are serialised by a lock, so each is one action, with another for each way it fails after it
changed something (`StepDiverges`, `StepUnsaved`, `RestoreFails`, `ForkFails`). Another process may
start with another topology on the same directories, and files may be damaged. A step that leaves the
adapter non-finite is put back from a snapshot (`AdapterBefore`). On a GPU that is a copy, the step is
undone and the policy can be used; on a CPU it shares the parameters' storage, and only the optimizer
is undone (see Findings, the first of what was observed). The device is chosen at each such step:
nothing else depends on it.

The code keeps no record that a call failed half way; `raised` is what its callers know. That they
restore such a policy before they go on with it is an assumption of the model, read off the callers:
an exception of `update_policy` or `update_supervised` leaves `coordinator.py:106`,
`transactions.py:627` and `wideseek_sft_smoke.py:156` uncaught, the commands end with it, and `recover`
begins with a restore (`transactions.py:613-626`). What is shown of a policy's train adapter is shown
of policies outside `raised`, what is shown of disk and service of all. `PhaseTransaction`, whose
updates are atomic, also explores a process that begins the cycle again after an exception.

Losses, random states and the lineage fields of a version are left out, and an existing directory is
reused without a look at its files, as `_save_checkpoint` does.
That a remembered revision is handed out without loading anything is the matter of
`MCPhaseHotRecovery`.

### Experiment

One invocation loads or creates the state file, then verifies, begins, reports and records one
stage of the plan after the other. It may stop anywhere (`Stop`), and between invocations a
report may be damaged. The inside of a training stage is `PhaseTransaction`; here it is only
remembered by which invocation the first phase input of a cycle was persisted (`begun`): the
deployment is a fresh uuid, so another invocation of the same cycle is refused. `state.json` is
replaced atomically, checkpoints are addressed by their content. Cycles count from 1 (in the
code from 0). A report says in which environment it was made, and an evaluation's with which
evaluator; `Compare` is the comparison stage, which takes the reports only if they agree on both.
The environment is also compared when a report is written (`KeepsContract`), the evaluator is not.

### Asset preparation

The content of a file is a sequence of blocks, each named by its place in the pinned file, or 0
when it is not of it; a digest comparison is equality with `Trusted`. On disk are `final`, `partial`
(`.partials`, which outlives the command) and `quarantine`. `Prepare` starts a command, `HubReturns`,
`HubRaises` and `HubLacksMetadata` are what the hub client of the library may do with a file, and the
last leads to the mirror's resolve route: `Request` is one request up to the first byte of its
answer, `Received` and `Breaks` are the end of its body. What a mirror may answer is in three sets:
`Expected`, `Unexpected` (refusals, other revisions, other ranges, bodies that are too short) and
`Forged` (other bytes). `Retry` starts the manifest over with the next attempt or endpoint. `Verify`
checks all files in their order and moves the first that does not match to quarantine. `Crash`,
`Damage` and `CopiedIn` happen around it. One command at a time works on a directory: two of them
on one directory share their partial files, and the code does not provide for that. Files of no
bytes are left out.

### Warm start

`WarmStart` extends it: `Begin` reads the data file, whose digest it compares, selects the tasks and
draws a schedule; `Train` is one supervised step with its batch id, `HandOver` submits the last batch
again and gives the first backend up, `Replace` restores the checkpoint in a second one, `Evaluate`
is the compliance baseline. An example is the facts of the reference it teaches, so that the
partition of rows among workers (`BalancedChunks`), the examples of a task and the chunks of an
epoch are computed as in the code; the order of an epoch, a digest in the code, is any permutation.
What can fail inside an update or restore is the matter of `LocalBackend`; here the process ends
(`Leave`).

## What is checked

| Run | Instance | States | What it shows |
|---|---|---|---|
| `MCPhaseAlternating` | two policies, 2 cycles, 2 faults, 1 repeated recovery | 821 019 | `TypeOK`, `RecordsSound`, `FreshSub`, `RecoverySound`, and `AbstractionsImplemented` (`LedgerImplemented` and `ContractKept`) |
| `MCPhaseShared` | one shared policy, 2 batches, 2 noises, 1 cycle, 3 faults, fairness | 17 750 | `AppliedOnce` when every attempt samples or computes something else, and `PersistedCommits` |
| `MCPhaseHotRecovery` | 2 cycles, 1 fault | | violates `RecoveredServed`, see Findings |
| `MCLocal` | a shared policy or Main and Sub, 2 processes, 2 steps, 1 fault | 411 249 | `NamesWhatItHolds` (with `TypeOK`), `ContractKept` |
| `MCVllm` | 2 generators, 2 synchronizations, 1 close, 1 leaking shutdown, fairness | 49 365 | `TypeOK`, `ServesPublished`, `NotUnderCalls`, `WorkersAccounted`, `BarrierImplemented`, `CallsReturn` |
| `MCWorker` | 3 callers, 2 calls each, batches of 3, a hang, fairness | 294 998 | `WorkerTypeOK`, `OwnResult`, `CallsAnswered` |
| `MCEpisode` | 3 rounds of 2 concurrent Subs, or 2 tool calls per turn with repairs; one permit, fairness | 92 322 | `TypeOK`, `TraceSound`, `LimitsKept`, `EpisodeEnds` |
| `MCSpawn` | 2 concurrent rollouts, or a pilot of 2 API episodes with or without a judge; 2 Subs each, 2 permits, fairness | 313 078 | `PilotTypes`, `TraceComplete`, `LedgerHolds`, `PilotAccounts`, `RunsEnd` |
| `MCBatch` | 1 task, 2 rollouts, 2 phases, 2 keys, 1 slot, 3 requests, 2 attempts, 1 fault, fairness | 210 870 | `TypeOK`, `OneScorePerAnswer`, `BatchBalanced`, `NothingHangs` |
| `MCBatchScore` | 1 task, 2 rollouts, 1 phase | | violates `ScoresInRange`, see Findings |
| `MCExperiment` | 1 shared, 2 independent cycles, 3 invocations, 1 damage | 282 131 | `TypeOK`, `NeverAdopted`, `Comparable`, `RunTrusted` |
| `MCAssets` | 2 files (1 and 2 blocks), 4 endpoint plans, 2 attempts, 3 faults; 5 tasks, 5 requests for a warm start, fairness | 143 938 | `TypesOK`, `ReportsVerified`, `CleanResume`, `TaughtAsAsked`, `Heals` |

`TypeOK`, `WorkerTypeOK`, `PilotTypes` and `TypesOK` are type invariants, one to each module; they are where a
counter at its bound shows. Every property has at least one mutant in `PROJECT.json`, a plausible
mistake in the code after which TLC finds the property violated in the same run.

Why the bounds are enough. Two faults are one more than the deepest interaction in the code: a
phase interrupted, its recovery interrupted, and recovered again. Two cycles let a phase build on
what a recovered one committed; two batches and noises tell a rerun from the first attempt, for
which one cycle and three faults are enough.
Two generations and two synchronizations meet each other in every order, and a close meets
both. Three callers fill a batch, leave one queued and cancel one in the middle. Three rounds
let two rounds of Subs follow one another. A third invocation resumes a resumed run. Two
rollouts over two permits with two Subs each compete for the semaphore while one merges. Two
scores, a key the reference lacks and a single slot make a score wait for the lock of its
question and for the slot; three requests and two attempts run out of both. A second process
meets the directories of the first, and two steps make a checkpoint that is neither
initial nor last. Two episodes of a pilot follow each other, at two tasks or at one that is
repeated, and two attempts let each of the judge's loops fail, be repeated and fail for good. A
file of two blocks can be partial and be continued; two endpoints, two attempts and three faults
let junk be left by one command, be completed by a second, be found by the verification and be
healed by a third. Five rows over four workers leave a remainder; three tasks over steps of
two leave one; one task is too long and one is held out; and two of the five requests are refused.

Fairness. A step that is awaited comes to an end (weak fairness of the steps of a phase, of a
call, a transition, a batch, a score, an episode, a command): launches and shutdowns have timeouts in
the code, an exchange with a worker has none. `VllmWorker` lets it hang, and `CallsAnswered` says that
nothing else leaves a call waiting; `VllmRollout` assumes that a worker answers. The recovery command
is launched again until it succeeds and processes are ended (strong fairness of `LaunchTool` and
`Exit`); so is the preparation of files (strong fairness of `Prepare`, because between two runs the
files may change and a warm start may begin), and `Heals` holds as faults are bounded: it says that
what they left on disk does not last.
Entering the service's lock and starting a tool call that waits for a permit are strongly fair:
`asyncio.Lock` and `asyncio.Semaphore` serve their waiters in order. Deadlock is checked in the
runs of the phases, the service and the assets; an episode or pilot that has ended, a worker whose
callers are done, a batch that is built, a backend without processes left and an experiment out of
invocations stop, and their runs say so.

## Findings

* `MCPhaseHotRecovery`: `sync_rollout_weights` remembers a revision for every digest and
  `restore_checkpoint` forgets none. Cycle 1 commits Main; in cycle 2 Main is updated and
  synchronized, and the process fails before the manifest; recovering the cycle-1 phase in the
  same process restores its weights and is handed the remembered revision, which the registry
  publishes while the rollout adapter holds the weights of cycle 2. Section 19.2 of the design
  document has the replica set rolled back to the manifest. The recovery command starts from a
  fresh backend, where `RecoveredState` holds and is proved.
* `MCBatchScore`: `_evaluate_markdown` counts every predicted row that the key judge maps to a
  reference row as hits of its own. A row with the reference key and one that is judged to mean
  the same both score against it, recall and F1 exceed 1, and the result is refused by
  `outcome_score: float = Field(ge=0.0, le=1.0)`: the whole build fails on an answer that repeats
  a row under two spellings.

Observed while reading or modelling, and not the subject of a run:

* `update_policy` and `update_supervised` put `adapter_before` back when the step left the adapter
  non-finite (`backend.py:347-358`, `459-470`). It comes from `_adapter_state` (`833-835`),
  `value.detach().cpu().contiguous()`, which on a CPU device is the storage of the parameters
  themselves: the step overwrote the snapshot too, and putting it back changes nothing but the
  optimizer. The update raises, and the policy is still labelled with a version whose checkpoint
  holds other parameters, against section 7.1 of the design document (one digest, one set of
  parameters); a `sync_rollout_weights` that followed would serve them under that version. In the
  model this is `StepDiverges` with the device "cpu" (`Undone`), which puts the policy into `raised`:
  no caller in the repository goes on with it without a restore.
* Section 19.2 of the design lets a cycle whose Main manifest is published go on with a fresh Sub
  rollout. `run_cycle` always begins with Main, and the rerun is refused by the input record, so
  that cycle cannot be completed but by reconciliation, as the runbook says.
* With the vLLM service behind a live process, recovering an earlier committed phase would be
  refused as stale by `sync_rollout_weights`, where the LocalHF backend serves the wrong weights.
* A partial file that is longer than the file is answered with HTTP 416 by every mirror, for
  ever: `assets/huggingface.py` neither deletes nor truncates it. This is the exception in `Heals`.
* A 206 to a request without a range is written from the first byte without a look at its range
  (`RangeAsked`, `Forged`); only the verification finds it. A connection that is closed in the
  middle of a body (`httpx.RemoteProtocolError`) is normalized as a terminal error, a timeout is
  retried.
* ADR 0006 says "Never use xbench, a held-out WideSeek selection, ..." for supervised training. The
  command keeps out the compliance profile, if it is asked to or evaluates it, and knows nothing of the
  tasks of the experiment's evaluation; the committed configuration keeps them apart.
* A checkpoint directory that exists is kept by an update or a fork without a look at its files
  (`_save_checkpoint`): when it was damaged, the version that is returned is one nothing can be
  restored to. The contract allows it (`Step`); `restore_checkpoint` finds it.
* The environment of a stage is compared when its report is written, the evaluator only by the
  comparison, after all evaluations are recorded: an evaluator that changed between two invocations
  leaves a run that can never pass, as `state.json` loses no record.
* `evaluation/api_pilot.py` counts nothing for an episode whose provider call raises in Main, or whose
  trace is refused, though what was spent before is spent; a validation report of 2026-07-22 says
  that "Failed episodes now raise a structured EpisodeRunError" with its totals. Tokens of judge
  requests that failed, or whose response had another schema, are not counted either.

## What is proved

Eight modules of proofs, for all values of the constants, from the assumptions on them alone
(policies, batches and noises are non-empty sets, the policies of a topology are among all of
them, and bounds are numbers; the kinds of tasks and the marks for "none" are distinct; files have
at least one block; answers are finite, and the unit of weights divides as often as agents and steps
ask; a round has at most four Subs and a reference at most four workers, the limits of the code).

Phase transactions, by one inductive invariant built up in layers, each proved to be kept by
every action:

* `TInv`: types, and that a job belongs to the policies and phases of the cycle
  (`TypeCorrect`);
* `RInv`: where the operation in progress stands and which records already exist at that point.
  `UniqueRecords` is not inductive alone: a record is written only when its predecessor is the
  job's own, which a recovery must re-establish from disk (`RecordsCorrect`). With it every
  advance of the registry is to a published revision (`AdvancesPublishedHolds`);
* `BInv`: the history of every base weight consists of committed transactions, so the phase about
  to be applied is not among them (`OneStepHolds`; with the above, `AppliedOnceHolds`);
* `SInv`: every weight in use was saved (`CheckpointsSavedHolds`; with the above,
  `RecordsSoundHolds`);
* `VInv`: on a recovery's way the train weights are those of the record it completes, so that
  nothing it calls is refused (`RecoveryCorrect`);
* `FInv`: a Sub phase in progress carries a snapshot with its own cycle's committed Main
  (`FreshSubHolds`).

That the latest commit of a policy exists, so that `CHOOSE` picks one, is `LatestExists`.

The ledger (in `PhaseTransaction_proofs`): on top of these, `LInv` says that manifests are ordered as the
schedule is, that every input record without a manifest is the one transaction that is due, and
that a process works on the cycle the manifests have reached. Then only `Commit` moves the
ledger: the manifest it writes is the latest of its target, whose base is the public weights
before (`DueBase`, `CommitPublic`, `CycleEnds`), and a manifest that is written again by a repeated
recovery is the same one, by `UniqueRecords`, which is a stutter. `LedgerStep` puts the actions
together and `LedgerHolds` is the refinement.

The contract of the backend (`ContractHolds`, in `PhaseTransaction_proofs`) needs `OInv`: the weights of a
policy, in the process, in the registry and in what was prepared, are its own, and a process that
is none holds what one draws. `SInv` tells that what is loaded was saved (`SavedWhole`), and
each action is a step of the contract or a stutter (`TrainBegins`, `ToolBegins`, `VanishEnds`,
`UpdateStepsOnce`, `LoadRestores`, `SyncServes`). With `LedgerHolds` it is `AbstractionsHold`.

vLLM service: `IInv` counts the calls in flight, gives each transition its place (at most one is
beyond the lock, and only it may have the worker in hand) and says which processes live in each
place. `ServiceInit` and `ServiceStep` prove it inductive for any number of generating,
synchronizing and closing tasks; `ServesPublished`, `NotUnderCalls` and
`WorkersAccounted` follow, and `BarrierHolds` proves that the service implements `RolloutBarrier`.

vLLM worker (in `VllmRollout_proofs`): `AlwaysOwnResult`. Its invariant needs nothing of the queue or of
the batch: results are handed to the requests of the very list that was sent (`GivenOwn`), and a
call is resolved once (`ResolveOwn`). `WorkerTypesHold` adds the lists: as many waiting requests join
a batch as fit (`RoomHasMost`), and those that are left when the cancelled ones are taken out are of the
batch (`ActiveAre`, by induction over its length). `Active` is a recursive function for this proof:
`SelectSeq` is a name without a definition to the provers.

WideSeek episode (`WideSeekEpisode_proofs`), in two layers. `AInv` is `Typed`, `Limited` (turns,
repairs and calls within their limits), `Delegated` (Subs are numbered in the order they were
spawned; those of earlier rounds are done, those Main waits for are the last) and `Budgeted` (the
slots are those of the running calls, and as many as permits are taken). `EpisodeStep` keeps it, and
`TypeCorrect` and `LimitsKeptAlways` follow. `TInv` adds what the trace needs: `Chain` (Main's steps
occur once, with their causes before them), `Laid` (the facts of each merged Sub lie in one piece
behind its delegation, the pieces in the order of the requests), `MainPast` (Main's next step is
later than all there are), `Referred` (what Main cites, it has) and, for each Sub, `Own`: its private
stream is a chain of its own steps behind its delegation, and its addresses come from its own
searches. That `Laid` survives the merge of a round is the heart (`MergeTrace`): a round has at most
four Subs, so that the concatenation of their streams is unrolled. `TraceSoundAlways` follows.

One-round episodes and pilot (`SpawnEpisode_proofs`): `LInv` says that the reservations are exactly
those of the Subs at work, that they are as many as permits are taken, and that Subs are at work
only while their episode waits for them. From it a Sub that holds a permit always finds room
(`LedgerNeverRefuses`; `PilotLedger` for the episodes of a pilot, which each begin with an empty
ledger). `EInv` says of each episode what its stream holds at each point of its control; the merge
concatenates the streams of any number of Subs, and where each lies in the result is proved by
induction over their number, from the well-foundedness of `<` on the naturals. `TracesComplete` and
`PilotTracesComplete` follow. `CInv` and `RInv` are the pilot's: where the judge's three counters
stand in its nested loops, and that summaries, predictions and scores are filled in the order of the
tasks and repeats, each at its place (`PilotTypesHold`, `PilotAccountsHold`).

Rewarded batch (`RewardedBatch_proofs`): `BInv` adds to the types that a question that is asked is
open (`AsksOpen`), that the lock of a question has one holder (`LocksExclusive`), who, having looked
at the cache again behind the lock, asks what is not in it (`NewToJudge`), that the cache has one
verdict to a question (`OneVerdict`), that what a score uses came from it (`FromJudge`), and that a
finished score has no question left (`ScoredInFull`). `OneScoreHolds`: equal answers, equal scores.
For `BatchBalancedAlways`, `Whole` adds that a built batch was made of finished scores and is left alone
until the next phase. Its sums are folds over sets: that partial sums exist (`CumulatesExists`) and what
they are for affine and for constant values (`SumsAffine`, `SumConstant`) is proved by induction over
the number of elements. With the mean taken off, the rewards of a group add up to nothing
(`AdvantagesCancel`); that a score is a number at all rests on `ScoredInFull`. And the steps of each
agent weigh its part of one (`SharesAre`), so that the agents of an episode weigh one together.

Experiment (`Experiment_proofs`): `IInv` says that an invocation that goes on holds the records of
the state file (`InStep`), that these name the first stages of the plan and what was verified still
is (`InOrder`), that a cycle at work was begun by this launch (`CycleBegun`), and of each record what
makes it trustworthy together with the records before (`RecordsSound`: the lineage of its
checkpoints, the one launch that trained a cycle, the environment of the first cycle's report);
`Compared` is what the comparison was made of. `NeverAdoptedAlways`, `ComparableAlways` and the
action property `RunTrustedAlways` follow, over any number of invocations and damaged reports.

LocalHF backend (`LocalBackend_proofs`): `BInv` has every checkpoint and label count the steps
of both parts, every policy on which no call failed half way at its version, every rollout
adapter at its revision. `BackendStep` proves it kept by each call and each way it fails, a rejected
step whose parameters stay non-finite among them (`RejectedLeaves`);
`LabelsTrueHolds` and `RolloutHoldsAlways` follow. `TInv` adds what directories, processes and
remembered results are made of, for `TypeCorrect` and `NamesWhatItHoldsAlways`. `ContractHolds` is
the refinement of `TrainingBackend`: with `Undrawn` (a policy no process has loaded is as a fresh
process draws it) and the labels of `BInv`, what the contract sees of a policy is its label
(`ToldAsLabelled`), and each call, half-way failure, launch, exit and damage is one of the contract's
steps. It gives `BackedHolds`: that versions have checkpoints is proved of the contract's steps
(`BackedStep`), and `BackedContents` carries it over to the contents behind them. What is served or
handed out, and what a policy outside `raised` was trained to, was drawn by this process or is in a
checkpoint. All of this rests on the assumption about the callers stated above.

Assets (`AssetPreparation_proofs`): `CleanResume` is not inductive alone, because the body of a
response is written blocks at a time. `AInv` adds where the command stands, that nothing held on
disk exceeds its file by more than a block, and that what is kept together with what is to come
is a beginning of the file while nothing was tainted. The heart is `Delivered`: whatever the
mirror answers, what passes `Refused` fits behind what stays of the partial file. `TypeCorrect`,
`AlwaysVerified` and `AlwaysCleanResume` follow for any files, plans and numbers of faults.

Warm start (`AssetPreparation_proofs` too): `WInv` is `AInv` with `Drawn` (what a process drew on
belongs to an accepted request: the bytes are the pinned ones, the schedule is one of its schedules,
what was saved is the part that was taken) and `Stepped` (which adapter holds which part at each point
of its control). `WarmStepKeeps` proves it kept, so that `WarmVerified` and `WarmCleanResume` hold of
the directory with warm starts on it. `TaughtHolds` needs more of the data. Balanced chunks cover their
rows and share none, for any number of rows and up to four workers (`ChunksCover`, `ChunksApart`), and
with them each fact is in one example of Main and in one of a Sub (`EveryFactOnce`). The selection has
as many tasks as asked (`SelectedAre`); a schedule has, epoch by epoch, one step for each chunk of an
order of the selection (`ScheduleFollows`); and the chunks of an order, put together again, are that
order, by the layout of a concatenation (`EpochWhole`, `FlattenPlaces`). This holds for any number of
tasks, epochs and tasks per step. `WarmTypesHold` are the types.

Only model-checked: all liveness (`PersistedCommits`, `CallsReturn`, `CallsAnswered`,
`EpisodeEnds`, `RunsEnd`, `NothingHangs`, `Heals`), which TLAPS does not reach. Every invariant, action
property and refinement of the passing runs is proved.

## Not modelled, and why

Tokenisation, prompts, losses, table alignment and the statistics of a comparison are data. Search
services and the benchmark readers are pure I/O: what they may answer is a choice of the actions that
call them. The CLI and the smoke commands wire and measure. In the vLLM service a cancelled service
call and a `start` that fails half way are left out, in the assets two commands on one
directory, in the pilot tokens and latencies. The engine inside a vLLM worker is a library.

## Plan

What is left: table scoring as an algorithm over small tables, against a reference definition.
