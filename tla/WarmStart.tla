------------------------------ MODULE WarmStart ------------------------------
(***************************************************************************)
(* The supervised warm start of the shared policy, from a file that was    *)
(* prepared before: tasks are selected, turned into examples for Main and  *)
(* Sub, scheduled over epochs and steps, and learned step by step; a       *)
(* second backend then restores the last checkpoint, is evaluated on the   *)
(* held-out tasks when that was asked for, and a report is written.        *)
(*                                                                         *)
(* The file is read once, at the start, so that no command prepares files  *)
(* while a warm start runs.  Examples are what they teach: facts of the    *)
(* reference answer of a task.  The backend is seen from outside.          *)
(***************************************************************************)
EXTENDS AssetPreparation, FiniteSets, SequencesExt

CONSTANTS
  DataFile,     \* the file of the manifest that holds the tasks
  Facts,        \* task -> facts of its reference: the rows of a table, otherwise one
  Overlong,     \* tasks with an example that exceeds the sequence limit
  HeldOut,      \* tasks of the compliance profile
  MaxWorkers,
  Requests,     \* the arguments the command may be given
  NoRequest     \* there are none when no command runs

Tasks == DOMAIN Facts

\* tasks is the explicit selection, or <<>> for the first ones, as many as limit; perStep 0
\* puts them all into one step.
Arguments == [tasks : Seq(Tasks), limit : Nat \ {0}, isolate : BOOLEAN, evaluate : BOOLEAN,
              perStep : Nat, epochs : Nat \ {0}]

ASSUME WarmStartAssumption ==
  /\ DataFile \in Files
  /\ Facts \in Seq(Nat \ {0})
  /\ Overlong \subseteq Tasks /\ HeldOut \subseteq Tasks
  /\ MaxWorkers \in 1 .. 4
  /\ Requests \subseteq Arguments
  /\ NoRequest \notin Requests

-----------------------------------------------------------------------------
(* Examples *)

RemainderDropped(n, k) ==
  [i \in 1 .. k |-> (i - 1) * (n \div k) + 1 .. i * (n \div k)]

\* n rows in k chunks, the first ones longer by one.
BalancedChunks(n, k) ==
  LET before(i) == i * (n \div k) + Min({i, n % k})
  IN [i \in 1 .. k |-> before(i - 1) + 1 .. before(i)]

Blocks(t) == BalancedChunks(Facts[t], Min({MaxWorkers, Facts[t]}))

MainFinal(t) == [task |-> t, behavior |-> "main_final", facts |-> 1 .. Facts[t]]

SubSummary(t, i) == [task |-> t, behavior |-> "sub_summary", facts |-> Blocks(t)[i]]

\* build: the answer of Main, and the summary of each worker.
Examples(t) == <<MainFinal(t)>> \o [i \in DOMAIN Blocks(t) |-> SubSummary(t, i)]

-----------------------------------------------------------------------------
(* Selection and schedule *)

Isolated(r) == r.isolate \/ r.evaluate

\* Tasks a selection by number leaves out.
Withheld(r) == IF Isolated(r) THEN HeldOut ELSE {}

Usable(r) == (Tasks \ Withheld(r)) \ Overlong

\* An explicit selection as it is; otherwise the first tasks that may be used and that fit.
Selected(r) ==
  IF r.tasks # <<>> THEN ToSet(r.tasks)
  ELSE {t \in Usable(r) : Cardinality({u \in Usable(r) : u < t}) < r.limit}

\* Everything that raises before the first update.
Accepted(r) ==
  IF r.tasks # <<>>
  THEN /\ IsInjective(r.tasks)
       /\ Isolated(r) => ToSet(r.tasks) \cap HeldOut = {}
       /\ ToSet(r.tasks) \cap Overlong = {}
  ELSE Cardinality(Selected(r)) = r.limit

Chunked(s, n) ==
  [k \in 1 .. (Len(s) + n - 1) \div n |-> SubSeq(s, (k - 1) * n + 1, Min({k * n, Len(s)}))]

\* The steps of an epoch; their id is part of the batch id.
EpochSteps(r, epoch, order) ==
  LET chunks == Chunked(order, IF r.perStep = 0 THEN Len(order) ELSE r.perStep)
  IN [k \in DOMAIN chunks |-> [id |-> <<epoch, k>>, tasks |-> chunks[k]]]

\* _planned_task_batches: every epoch has an order of its own, which a digest decides.
Schedules(r) ==
  {FlattenSeq([e \in 1 .. r.epochs |-> EpochSteps(r, e, orders[e])]) :
     orders \in [1 .. r.epochs -> SetToSeqs(Selected(r))]}

-----------------------------------------------------------------------------
(* The command *)

VARIABLES
  sft,        \* "none", "train", "restore", "evaluate" or "reported"
  request,    \* the arguments, or NoRequest
  source,     \* what the data file held when it was read
  schedule,   \* the steps to take
  taken,      \* how many were
  trained,    \* what the train adapter was stepped on, in order
  saved,      \* what the last checkpoint holds
  served      \* what the rollout adapter of the second backend holds

learner == <<sft, request, source, schedule, taken, trained, saved, served>>
allVars == <<vars, learner>>

WarmInit ==
  /\ Init
  /\ sft = "none"
  /\ request = NoRequest
  /\ source = <<>>
  /\ schedule = <<>>
  /\ taken = 0
  /\ trained = <<>>
  /\ saved = <<>>
  /\ served = <<>>

\* The file must have the digest of the manifest. A backend is created, whose adapter is new.
Begin(r) ==
  /\ sft = "none"
  /\ pc \in Over
  /\ DataFile \in DOMAIN final
  /\ Matches(DataFile)
  /\ Accepted(r)
  /\ sft' = "train"
  /\ request' = r
  /\ source' = final[DataFile]
  /\ schedule' \in Schedules(r)
  /\ UNCHANGED <<vars, taken, trained, saved, served>>

\* update_supervised: a batch id that was used returns its result.
Updated(step) ==
  IF \E k \in DOMAIN trained : trained[k].id = step.id THEN trained ELSE Append(trained, step)

\* The next step of the schedule, and its checkpoint.
Train ==
  /\ sft = "train"
  /\ taken < Len(schedule)
  /\ taken' = taken + 1
  /\ trained' = Updated(schedule[taken + 1])
  /\ saved' = trained'
  /\ UNCHANGED <<vars, sft, request, source, schedule, served>>

\* The last batch is submitted again, which must change nothing; the weights are synchronized,
\* and the first backend is given up.
HandOver ==
  /\ sft = "train"
  /\ taken = Len(schedule)
  /\ Updated(Last(schedule)) = trained
  /\ Len(trained) = Len(schedule)
  /\ sft' = "restore"
  /\ trained' = <<>>
  /\ UNCHANGED <<vars, request, source, schedule, taken, saved, served>>

\* A new backend restores the checkpoint and synchronizes it.
Replace ==
  /\ sft = "restore"
  /\ trained' = saved
  /\ served' = saved
  /\ sft' = IF request.evaluate THEN "evaluate" ELSE "reported"
  /\ UNCHANGED <<vars, request, source, schedule, taken, saved>>

\* It answers the tasks of the compliance profile.
Evaluate ==
  /\ sft = "evaluate"
  /\ sft' = "reported"
  /\ UNCHANGED <<vars, request, source, schedule, taken, trained, saved, served>>

\* The process ends: the report is written, an update, a restore, a check or the evaluation
\* raises, or it dies.
Leave ==
  /\ sft # "none"
  /\ IF sft = "reported" THEN UNCHANGED faults ELSE Faulty
  /\ sft' = "none"
  /\ request' = NoRequest
  /\ source' = <<>>
  /\ schedule' = <<>>
  /\ taken' = 0
  /\ trained' = <<>>
  /\ saved' = <<>>
  /\ served' = <<>>
  /\ UNCHANGED <<disk, plan, job, body, tainted>>

WarmStep == Train \/ HandOver \/ Replace \/ Evaluate

WarmNext ==
  \/ sft = "none" /\ Next /\ UNCHANGED learner
  \/ \E r \in Requests : Begin(r)
  \/ WarmStep
  \/ Leave

\* Commands go on and end, and preparing the files is tried again and again.
WarmFairness ==
  /\ WF_allVars(sft = "none" /\ Work /\ UNCHANGED learner)
  /\ SF_allVars(sft = "none" /\ Prepare /\ UNCHANGED learner)
  /\ WF_allVars(WarmStep \/ Leave)

WarmSpec == WarmInit /\ [][WarmNext]_allVars /\ WarmFairness

-----------------------------------------------------------------------------
(* Properties *)

Steps == UNION {{<<e, k>> : e \in 1 .. r.epochs, k \in Tasks} : r \in Requests}

StepsOf(s) == \A k \in DOMAIN s : s[k].id \in Steps /\ s[k].tasks \in Seq(Tasks)

\* Every part of the state has its type, the files and the command that prepares them
\* included; the adapter has as many steps as were taken.
TypesOK ==
  /\ TypeOK
  /\ sft \in {"none", "train", "restore", "evaluate", "reported"}
  /\ request \in Requests \cup {NoRequest}
  /\ source \in Contents(DataFile)
  /\ StepsOf(schedule) /\ StepsOf(trained) /\ StepsOf(saved) /\ StepsOf(served)
  /\ taken \in 0 .. Len(schedule)
  /\ Len(saved) = taken

\* The tasks that the weights in service learned in an epoch.
Learned(epoch) == FlattenSeq([k \in DOMAIN served |->
                                IF served[k].id[1] = epoch THEN served[k].tasks ELSE <<>>])

AllLearned == UNION {ToSet(Learned(e)) : e \in 1 .. request.epochs}

\* Each fact of a task was taught once in each behavior.
TaughtWhole(t) ==
  \A b \in {"main_final", "sub_summary"}, fact \in 1 .. Facts[t] :
    Cardinality({k \in DOMAIN Examples(t) :
                   Examples(t)[k].behavior = b /\ fact \in Examples(t)[k].facts}) = 1

\* What a warm start reports was learned as it was asked for: as many tasks as that, from
\* the bytes of the manifest; in every epoch each fact of each of them once by Main and once
\* by a Sub, whatever the chunks of rows and of tasks, and the order of the epoch; and the
\* tasks of the profile it was, or may later be, evaluated on are not among them
\* (wideseek_sft_smoke.py, wideseek_sft.py; docs/adr/0006: a held-out selection is never
\* supervised).
TaughtAsAsked ==
  sft = "reported" =>
    /\ source = Trusted(DataFile)
    /\ Cardinality(AllLearned) =
         IF request.tasks = <<>> THEN request.limit ELSE Len(request.tasks)
    /\ \A e \in 1 .. request.epochs :
         IsInjective(Learned(e)) /\ ToSet(Learned(e)) = AllLearned
    /\ \A t \in AllLearned : TaughtWhole(t)
    /\ request.isolate \/ request.evaluate => AllLearned \cap HeldOut = {}

=============================================================================
