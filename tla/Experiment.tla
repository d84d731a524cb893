---------------------------- MODULE Experiment ----------------------------
(***************************************************************************)
(* The resumable experiment: supervised training, cycles of shared and of  *)
(* independent reinforcement learning, three evaluations and their         *)
(* comparison, one stage after the other, with a state file that names the *)
(* stages that are done, over invocations that crash, are resumed, or find *)
(* another configuration, environment or report than the ones before.      *)
(*                                                                         *)
(* What a training stage does inside is the subject of PhaseTransaction:   *)
(* here it leaves the transactions of its cycle behind, and they make a    *)
(* second execution of the stage raise, whose records would conflict.      *)
(***************************************************************************)
EXTENDS Naturals, Sequences, FiniteSets, SequencesExt

CONSTANTS
  SharedCycles,
  IndependentCycles,
  Configs,       \* contents of the experiment configuration and trusted manifests
  Contracts,     \* what a report says of the environment it was made in
  Evaluators,    \* revisions of the evaluator an evaluation may be made with
  NoState,       \* there is no state file
  MaxLaunches,   \* bound: invocations of the command
  MaxDamages     \* bound: reports that change on disk between invocations

ASSUME ExperimentAssumption ==
  /\ SharedCycles \in Nat \ {0}
  /\ IndependentCycles \in Nat \ {0}
  /\ MaxLaunches \in Nat
  /\ MaxDamages \in Nat

-----------------------------------------------------------------------------
(* Stages *)

Topologies == {"shared", "independent"}

Stage(kind, of, cycle) == [kind |-> kind, of |-> of, cycle |-> cycle]

Sft == Stage("sft", "shared", 0)

Train(topology, c) == Stage("train", topology, c)

Evaluate(of) == Stage("evaluate", of, 0)

Comparison == Stage("compare", "all", 0)

Evaluations == {Evaluate(of) : of \in {"sft"} \cup Topologies}

PoliciesOf(topology) == IF topology = "shared" THEN {"shared"} ELSE {"main", "sub"}

LastCycle(topology) == IF topology = "shared" THEN SharedCycles ELSE IndependentCycles

Plan ==
  <<Sft>>
    \o [c \in 1 .. SharedCycles |-> Train("shared", c)]
    \o [c \in 1 .. IndependentCycles |-> Train("independent", c)]
    \o <<Evaluate("sft"), Evaluate("shared"), Evaluate("independent"), Comparison>>

Stages == ToSet(Plan)

Launches == 0 .. MaxLaunches

\* The content of a report: who made it, when, in which environment, and, of an evaluation,
\* with which evaluator. A damaged one was made by launch 0.
Report == [launch : Launches, contract : Contracts, evaluator : Evaluators \cup {NoState}]

\* A checkpoint is the stages and launches whose training it is the result of; its name
\* holds a digest of its content.
Checkpoint == [policy : {"shared", "main", "sub"}, by : SUBSET (Stages \X Launches)]

\* The digest of a stage's input.
Input == [config : Configs, stage : Stages,
          deps : SUBSET [stage : Stages, report : Report, checkpoints : SUBSET Checkpoint]]

StageRecord == [stage : Stages, input : Input, report : Report, checkpoints : SUBSET Checkpoint]

\* The content of state.json.
StateFile == [config : Configs, records : Seq(StageRecord)]

\* That there is no file is no content of a file.
ASSUME StateAssumption == NoState \notin StateFile

\* A training stage leaves a checkpoint of every policy of its topology.
HasPolicies(r) ==
  r.stage.kind = "train" => {c.policy : c \in r.checkpoints} = PoliciesOf(r.stage.of)

-----------------------------------------------------------------------------
(* State *)

VARIABLES
  \* the run directory
  dir,        \* it exists
  file,       \* state.json: NoState or [config, records]
  reports,    \* stage -> its report on disk, for the stages that wrote one
  begun,      \* training stage -> the launch whose transactions its cycle holds
  final,      \* report.json names these stages ({}: not written)
  \* the invocation
  launch,     \* how many there were
  config,     \* its configuration
  pc,         \* its next step
  records,    \* its stage records, in order
  request,    \* the stage it executes
  produced,   \* the record of that stage: {} or a singleton
  damages     \* bound: reports damaged so far

disk == <<dir, file, reports, begun, final>>
vars == <<disk, launch, config, pc, records, request, produced, damages>>

TypeOK ==
  /\ dir \in BOOLEAN
  /\ file \in {NoState} \cup StateFile
  /\ file # NoState => \A k \in DOMAIN file.records : HasPolicies(file.records[k])
  /\ DOMAIN reports \subseteq Stages
  /\ \A s \in DOMAIN reports : reports[s] \in Report
  /\ DOMAIN begun \subseteq Stages
  /\ final \subseteq Stages
  /\ launch \in Launches
  /\ config \in Configs
  /\ pc \in {"none", "load", "create", "plan", "execute", "report", "record", "final"}
  /\ records \in Seq(StageRecord)
  /\ request \in Stages
  /\ produced \subseteq StageRecord /\ Cardinality(produced) <= 1
  /\ damages \in 0 .. MaxDamages

Init ==
  /\ dir = FALSE
  /\ file = NoState
  /\ reports = <<>>
  /\ begun = <<>>
  /\ final = {}
  /\ launch = 0
  /\ config \in Configs
  /\ pc = "none"
  /\ records = <<>>
  /\ request = Sft
  /\ produced = {}
  /\ damages = 0

-----------------------------------------------------------------------------
(* What a stage depends on *)

RecordOf(s) == {r \in ToSet(records) : r.stage = s}

Recorded(s) == RecordOf(s) # {}

\* The last cycle of the topology that is recorded, or the supervised stage.
LastOf(topology) ==
  LET done == {c \in 1 .. LastCycle(topology) : Recorded(Train(topology, c))} IN
  IF done = {} THEN Sft ELSE Train(topology, CHOOSE c \in done : \A d \in done : d <= c)

\* The stages whose records are the dependencies of s, as far as they are recorded.
Needs(s) ==
  CASE s.kind = "train" /\ s.cycle = 1 -> {Sft}
    [] s.kind = "train" /\ s.cycle > 1 -> {Train(s.of, s.cycle - 1)}
    [] s.kind = "evaluate" /\ s.of \in Topologies -> {LastOf(s.of)}
    [] s.kind = "evaluate" /\ s.of = "sft" -> {Sft}
    [] s.kind = "compare" -> Evaluations
    [] OTHER -> {}

Dependencies(s) == UNION {RecordOf(d) : d \in Needs(s)}

InputDigest(s) ==
  [config |-> config, stage |-> s,
   deps |-> {[stage |-> r.stage, report |-> r.report, checkpoints |-> r.checkpoints] :
               r \in Dependencies(s)}]

NotLooked(r) == TRUE

\* _verify_stage_record: the report on disk is the one of the record.
Verified(r) == r.stage \in DOMAIN reports /\ reports[r.stage] = r.report

-----------------------------------------------------------------------------
(* An invocation *)

Ended ==
  /\ pc' = "none"
  /\ records' = <<>>
  /\ request' = Sft
  /\ produced' = {}

Launch ==
  /\ pc = "none"
  /\ launch < MaxLaunches
  /\ launch' = launch + 1
  /\ config' \in Configs
  /\ pc' = "load"
  /\ UNCHANGED <<disk, records, request, produced, damages>>

StartOver(resume) == file = NoState \/ ~resume

\* --resume goes on from a state, the command without it from none.
Fresh(resume) == file = NoState /\ ~resume

LoadState(resume) ==
  /\ pc = "load"
  /\ resume
  /\ file # NoState
  /\ file.config = config
  /\ records' = file.records
  /\ pc' = "plan"
  /\ UNCHANGED <<disk, launch, config, request, produced, damages>>

\* The run directory must be new.
MakeDirectory(resume) ==
  /\ pc = "load"
  /\ Fresh(resume)
  /\ file = NoState => ~dir
  /\ dir' = TRUE
  /\ pc' = "create"
  /\ UNCHANGED <<file, reports, begun, final, launch, config, records, request, produced,
                 damages>>

CreateState ==
  /\ pc = "create"
  /\ file' = [config |-> config, records |-> <<>>]
  /\ pc' = "plan"
  /\ UNCHANGED <<dir, reports, begun, final, launch, config, records, request, produced,
                 damages>>

\* The first stage of the plan without a record.
Missing == {k \in DOMAIN Plan : ~Recorded(Plan[k])}

FirstMissing == CHOOSE k \in Missing : \A j \in Missing : k <= j

\* Every record before that stage was made from the same input and is still verified.
Unchanged ==
  \A k \in DOMAIN Plan :
    (\A j \in Missing : k < j) =>
      \A r \in RecordOf(Plan[k]) : r.input = InputDigest(Plan[k]) /\ Verified(r)

NextStage ==
  /\ pc = "plan"
  /\ Unchanged
  /\ IF Missing = {}
     THEN pc' = "final" /\ UNCHANGED request
     ELSE pc' = "execute" /\ request' = Plan[FirstMissing]
  /\ UNCHANGED <<disk, launch, config, records, produced, damages>>

RefusesNothing(s) == FALSE

\* An earlier execution left transactions of the cycle: the phase input, which names the
\* deployments of its process, conflicts with the one in the store.
Refused(s) == s \in DOMAIN begun

\* The first phase input of the cycle is durable, for good: the store replaces nothing.
BeginTraining ==
  /\ pc = "execute"
  /\ request.kind = "train"
  /\ ~Refused(request)
  /\ begun' = [s \in DOMAIN begun \cup {request} |->
                 IF s \in DOMAIN begun THEN begun[s] ELSE launch]
  /\ pc' = "report"
  /\ UNCHANGED <<dir, file, reports, final, launch, config, records, request, produced,
                 damages>>

Begin ==
  /\ pc = "execute"
  /\ request.kind \in {"sft", "evaluate"}
  /\ pc' = "report"
  /\ UNCHANGED <<disk, launch, config, records, request, produced, damages>>

AlikeInEnvironment ==
  \A e, f \in Evaluations : reports[e].contract = reports[f].contract

\* The comparison takes reports that say the same of the environment and of the evaluator.
Alike ==
  \A e, f \in Evaluations :
    /\ reports[e].contract = reports[f].contract
    /\ reports[e].evaluator = reports[f].evaluator

Compare ==
  /\ pc = "execute"
  /\ request = Comparison
  /\ Alike
  /\ pc' = "report"
  /\ UNCHANGED <<disk, launch, config, records, request, produced, damages>>

\* The policies a cycle can update: its Sub phase may have had no sample.
Updated(topology) ==
  IF topology = "independent" THEN {{"main"}, {"main", "sub"}} ELSE {PoliciesOf(topology)}

Trained(c, s) == [c EXCEPT !.by = @ \cup {<<s, launch>>}]

\* A policy of the stage starts from its checkpoint of the stage before, or, when that one
\* trained the shared policy, from a fork of it.
StartOf(s, p) ==
  LET from == CHOOSE c \in UNION {r.checkpoints : r \in Dependencies(s)} :
                c.policy \in {p, "shared"}
  IN [from EXCEPT !.policy = p]

UpdatedOnly(s, U) ==
  CASE s.kind = "sft" -> {[policy |-> "shared", by |-> {<<s, launch>>}]}
    [] s.kind = "train" -> {Trained(StartOf(s, p), s) : p \in U}
    [] OTHER -> {}

\* The checkpoints of a stage that updated the policies U: the others are carried along.
CheckpointsOf(s, U) ==
  CASE s.kind = "sft" -> {[policy |-> "shared", by |-> {<<s, launch>>}]}
    [] s.kind = "train" ->
         {IF p \in U THEN Trained(StartOf(s, p), s) ELSE StartOf(s, p) :
            p \in PoliciesOf(s.of)}
    [] OTHER -> {}

EvaluatorsOf(s) == IF s.kind = "evaluate" THEN Evaluators ELSE {NoState}

DriftIgnored(written, c) == TRUE

\* The first shared cycle's report, when there is one, fixes what the others may say.
KeepsContract(written, c) ==
  LET first == Train("shared", 1) IN
  first \in DOMAIN written => c = written[first].contract

\* The stage's work ends with its report on disk; then its runtime contract is compared
\* with the first cycle's, and the record is made.
WriteReport ==
  /\ pc = "report"
  /\ \E c \in Contracts, v \in EvaluatorsOf(request) :
       LET report == [launch |-> launch, contract |-> c, evaluator |-> v]
           written == [s \in DOMAIN reports \cup {request} |->
                         IF s = request THEN report ELSE reports[s]]
       IN
       /\ reports' = written
       /\ IF request.kind \in {"train", "evaluate"} /\ ~KeepsContract(written, c)
          THEN Ended
          ELSE /\ \E U \in Updated(request.of) :
                    produced' = {[stage |-> request, input |-> InputDigest(request),
                                  report |-> report,
                                  checkpoints |-> CheckpointsOf(request, U)]}
               /\ pc' = "record"
               /\ UNCHANGED <<records, request>>
  /\ UNCHANGED <<dir, file, begun, final, launch, config, damages>>

\* The verified record is appended to the state file, which is replaced as a whole.
Record ==
  /\ pc = "record"
  /\ \A r \in produced :
       /\ Verified(r)
       /\ records' = Append(records, r)
       /\ file' = [file EXCEPT !.records = Append(@, r)]
  /\ produced' = {}
  /\ pc' = "plan"
  /\ UNCHANGED <<dir, reports, begun, final, launch, config, request, damages>>

FinalReport ==
  /\ pc = "final"
  /\ final' = {r.stage : r \in ToSet(records)}
  /\ Ended
  /\ UNCHANGED <<dir, file, reports, begun, launch, config, damages>>

\* The invocation ends: it raised, was refused, or its process died.
Stop ==
  /\ pc # "none"
  /\ Ended
  /\ UNCHANGED <<disk, launch, config, damages>>

\* A report changes on disk while no invocation runs.
Damage ==
  /\ pc = "none"
  /\ damages < MaxDamages
  /\ damages' = damages + 1
  /\ \E s \in DOMAIN reports, c \in Contracts :
       reports' = [reports EXCEPT ![s].launch = 0, ![s].contract = c]
  /\ UNCHANGED <<dir, file, begun, final, launch, config, pc, records, request, produced>>

Next ==
  \/ Launch
  \/ \E resume \in BOOLEAN : LoadState(resume) \/ MakeDirectory(resume)
  \/ CreateState
  \/ NextStage
  \/ BeginTraining
  \/ Begin
  \/ Compare
  \/ WriteReport
  \/ Record
  \/ FinalReport
  \/ Stop
  \/ Damage

Spec == Init /\ [][Next]_vars

-----------------------------------------------------------------------------
(* Properties *)

Committed == IF file = NoState THEN <<>> ELSE file.records

\* The state file only grows, by stages of one configuration in the order of the plan:
\* no invocation loses, repeats or reorders what an earlier one committed.
OnlyGrows ==
  /\ file # NoState => file' # NoState /\ file'.config = file.config
  /\ \A k \in DOMAIN Committed :
       k \in DOMAIN (Committed)' /\ (Committed)'[k] = Committed[k]
  /\ \A k \in DOMAIN (Committed)' : (Committed)'[k].stage = Plan[k]

\* A training stage is recorded by the invocation that trained it from the beginning:
\* what an interrupted one left of a cycle is never adopted (ADR 0009).
NeverAdopted ==
  \A r \in ToSet(Committed) :
    r.stage.kind = "train" =>
      /\ r.report.launch = begun[r.stage]
      /\ \A c \in r.checkpoints : \A b \in c.by : b[1] = r.stage => b[2] = begun[r.stage]

\* Both topologies are branches from one supervised checkpoint: a recorded checkpoint is
\* the result of that stage and of cycles of its own topology, each as recorded.
OwnLineage ==
  \A r \in ToSet(Committed) :
    \A c \in r.checkpoints :
      /\ \E b \in c.by : b[1] = Sft
      /\ \A b \in c.by :
           /\ b[1] = Sft \/ (b[1].of = r.stage.of /\ b[1].cycle <= r.stage.cycle)
           /\ \E d \in ToSet(Committed) : d.stage = b[1] /\ d.report.launch = b[2]

\* The stages that are compared ran in one environment.
OneContract ==
  \A r, d \in ToSet(Committed) :
    {r.stage.kind, d.stage.kind} \subseteq {"train", "evaluate"} =>
      r.report.contract = d.report.contract

\* What was compared had been evaluated by one evaluator.
OneEvaluator ==
  \A r, d \in ToSet(Committed) :
    Comparison \in {b.stage : b \in ToSet(Committed)}
    /\ {r.stage.kind, d.stage.kind} = {"evaluate"}
      => r.report.evaluator = d.report.evaluator

\* The evaluations of the two topologies may be compared: the trained policies descend from
\* one checkpoint, and everything ran in one environment and was scored by one evaluator
\* (experiments/wideseek.py, the execution contract; wideseek_comparison.py).
Comparable == OwnLineage /\ OneContract /\ OneEvaluator

\* The run passes only when every stage is recorded and its report on disk is the one the
\* record names.
PassesVerified ==
  final' # final =>
    /\ final' = Stages
    /\ \A r \in ToSet(Committed) : reports[r.stage] = r.report

\* What the final report says rests on a state file no invocation rewrote, however often the
\* run died and was resumed (experiments/wideseek.py, run).
RunTrusted == [][OnlyGrows /\ PassesVerified]_vars

=============================================================================
