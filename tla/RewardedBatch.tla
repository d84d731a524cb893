---------------------------- MODULE RewardedBatch ----------------------------
(***************************************************************************)
(* From rollouts to a training batch: the rollout batch factory of a cycle *)
(* builds one batch per phase. For every task it gathers the rollouts,     *)
(* checks their environment, gathers their rewards and normalizes them.    *)
(* A reward evaluates the answer against the reference, asking a semantic  *)
(* judge that all scores of the process share: a cache of verdicts, a lock *)
(* per question, a semaphore and a budget of provider requests.            *)
(***************************************************************************)
EXTENDS Integers, Sequences, FiniteSets, FiniteSetsExt, Functions

CONSTANTS
  Tasks,            \* the tasks of the cycle
  Rollouts,         \* rollouts per task
  Phases,           \* the phases of the cycle, in order
  Keys,             \* row keys (or boxed values) an answer may contain
  References,       \* those of the reference answer
  Shapes,           \* what else a trace is made of: model steps per agent, and extra
  Main,             \* the agent instance of Main
  FailedOutcome,    \* the outcome of an episode that failed
  MaxConcurrency,   \* provider requests in flight
  MaxRequests,      \* provider requests of a process
  MaxAttempts,      \* attempts at a well-formed verdict
  Scale,            \* scores and weights count in units of 1/Scale
  MaxFaults         \* bound: rollouts and provider requests that raise

ASSUME BatchAssumption ==
  /\ Rollouts \in Nat \ {0, 1}
  /\ Phases \in Seq({"main_update", "sub_update", "joint_update"}) /\ Phases # <<>>
  /\ Shapes # {}
  /\ References \subseteq Keys /\ References # {}
  /\ MaxConcurrency \in Nat \ {0}
  /\ MaxRequests \in Nat \ {0}
  /\ MaxAttempts \in Nat \ {0}
  /\ MaxFaults \in Nat

\* Answers are finite; a shape says how many steps each of its agents took and what is added
\* to the score; and the unit is small enough for the weights, which are fractions of one.
ASSUME ScaleAssumption ==
  /\ IsFiniteSet(Keys)
  /\ Scale \in Nat \ {0} /\ FailedOutcome \in Int
  /\ \A s \in Shapes :
       /\ s.extra \in Int
       /\ IsFiniteSet(DOMAIN s.steps)
       /\ \A a \in DOMAIN s.steps :
            /\ s.steps[a] \in Nat
            /\ s.steps[a] > 0 =>
                 \A n \in 1 .. Cardinality(DOMAIN s.steps) : Scale % (s.steps[a] * n) = 0

Episodes == Tasks \X (1 .. Rollouts)

TaskOf(e) == e[1]

None == "none"

\* A cell of a row equals the reference's cell or differs from it; a reply without a
\* table or a boxed value is malformed.
Tables == UNION {[rows -> {"equal", "differs"}] : rows \in (SUBSET Keys) \ {{}}}

Malformed == <<>>

BoxedValues == {[k \in {key} |-> "equal"] : key \in Keys}

Trace == [ok : BOOLEAN, answer : {Malformed} \cup Tables, shape : Shapes]

\* A question is what the cache key digests: task, operation, the candidates it is about
\* (each with all references, or a cell with the one of its row).
Question == [task : Tasks, op : {"answer", "key", "cell"}, of : SUBSET Keys]

\* The candidates or references whose pair was scored one.
VerdictsOn(q) == IF q.op = "cell" THEN SUBSET q.of ELSE SUBSET References

VARIABLES
  boxed,      \* the tasks whose reference is a boxed value and not a table
  phase,      \* the phase being built
  build,      \* "building", "built" or "failed"
  pc,         \* per episode: where its rollout or its score is
  trace,      \* per episode: the trace of its rollout
  got,        \* per episode: the verdicts its score was given
  attempt,    \* per episode: attempts of its last exchange with the provider
  cache,      \* the verdicts the judge remembers
  requests,   \* provider requests made
  batch,      \* the samples of the last batch built
  faults      \* bound: rollouts and provider requests that raised

vars == <<boxed, phase, build, pc, trace, got, attempt, cache, requests, batch, faults>>

Blank == [ok |-> FALSE, answer |-> Malformed, shape |-> CHOOSE s \in Shapes : TRUE]

Waiting == {"lock", "slot"}

Control == {"rollout", "ran", "score", "provider", "scored", "raised"} \cup Waiting

Verdict == [q : Question, yes : SUBSET Keys]

Init ==
  /\ boxed \in SUBSET Tasks
  /\ phase = 1
  /\ build = "building"
  /\ pc = [e \in Episodes |-> "rollout"]
  /\ trace = [e \in Episodes |-> Blank]
  /\ got = [e \in Episodes |-> {}]
  /\ attempt = [e \in Episodes |-> 0]
  /\ cache = {}
  /\ requests = 0
  /\ batch = {}
  /\ faults = 0

-----------------------------------------------------------------------------
(* The evaluation of one answer *)

Asked(v, q) == \E r \in v : r.q = q

YesOf(v, q) == (CHOOSE r \in v : r.q = q).yes

KeyQuestion(e, k) ==
  [task |-> TaskOf(e), op |-> IF TaskOf(e) \in boxed THEN "answer" ELSE "key", of |-> {k}]

Rows(e) == DOMAIN trace[e].answer

\* Keys that do not occur in the reference, not judged yet.
Unmatched(e) ==
  {k \in Rows(e) \ References : ~Asked(got[e], KeyQuestion(e, k))}

\* The reference row of row k: its own key, or the only one the judge found.
MatchesOf(e, k) ==
  IF k \in References
  THEN {k}
  ELSE LET yes == YesOf(got[e], KeyQuestion(e, k)) IN
       IF Cardinality(yes) = 1 THEN yes ELSE {}

Matched(e) == {k \in Rows(e) : MatchesOf(e, k) # {}}

\* Cells to be judged, together, once all keys are.
Doubtful(e) == {k \in Matched(e) : trace[e].answer[k] = "differs"}

CellQuestion(e) == [task |-> TaskOf(e), op |-> "cell", of |-> Doubtful(e)]

\* The questions the score of e has to put to the judge next: keys one after the other, in
\* the order of the rows, then the cells.
Open(e) ==
  IF Unmatched(e) # {}
  THEN {KeyQuestion(e, CHOOSE k \in Unmatched(e) : TRUE)}
  ELSE IF TaskOf(e) \in boxed \/ Doubtful(e) = {} \/ Asked(got[e], CellQuestion(e))
  THEN {}
  ELSE {CellQuestion(e)}

Current(e) == CHOOSE q \in Open(e) : TRUE

BoxedScore(e) ==
  LET k == CHOOSE key \in Rows(e) : TRUE IN
  IF k \in References \/ YesOf(got[e], KeyQuestion(e, k)) # {} THEN Scale ELSE 0

\* F1 of the items, two for each row: its key and its cell.
TableScore(e) ==
  LET hits == Cardinality(Matched(e)) + Cardinality(Matched(e) \ Doubtful(e))
                + IF Doubtful(e) = {} THEN 0
                  ELSE Cardinality(YesOf(got[e], CellQuestion(e)))
      items == 2 * (Cardinality(Rows(e)) + Cardinality(References))
  IN  (2 * hits * Scale) \div items

Score(e) ==
  IF trace[e].answer = Malformed THEN 0
  ELSE IF TaskOf(e) \in boxed THEN BoxedScore(e) ELSE TableScore(e)
-----------------------------------------------------------------------------
(* Rollouts of a task, gathered *)

GroupOf(t) == {e \in Episodes : TaskOf(e) = t}

RolloutEnds(e) ==
  /\ pc[e] = "rollout"
  /\ \E tr \in Trace :
       /\ tr.answer \in {Malformed} \cup
            IF ~tr.ok THEN {} ELSE IF TaskOf(e) \in boxed THEN BoxedValues ELSE Tables
       /\ trace' = [trace EXCEPT ![e] = tr]
  /\ pc' = [pc EXCEPT ![e] = "ran"]
  /\ UNCHANGED <<boxed, phase, build, got, attempt, cache, requests, batch, faults>>

RolloutRaises(e) ==
  /\ pc[e] = "rollout"
  /\ faults < MaxFaults
  /\ faults' = faults + 1
  /\ pc' = [pc EXCEPT ![e] = "raised"]
  /\ UNCHANGED <<boxed, phase, build, trace, got, attempt, cache, requests, batch>>

\* All rollouts of the task are there and ran in the environment of the phase; a failed
\* episode has its outcome without an evaluation.
ScoreGroup(t) ==
  /\ \A e \in GroupOf(t) : pc[e] = "ran"
  /\ pc' = [e \in Episodes |->
              IF e \notin GroupOf(t) THEN pc[e]
              ELSE IF trace[e].ok THEN "score" ELSE "scored"]
  /\ UNCHANGED <<boxed, phase, build, trace, got, attempt, cache, requests, batch, faults>>

\* A tool outcome or an event names another environment, prompt or tool revision.
EnvironmentDiffers(t) ==
  /\ \A e \in GroupOf(t) : pc[e] = "ran"
  /\ faults < MaxFaults
  /\ faults' = faults + 1
  /\ pc' = [e \in Episodes |-> IF e \in GroupOf(t) THEN "raised" ELSE pc[e]]
  /\ UNCHANGED <<boxed, phase, build, trace, got, attempt, cache, requests, batch>>

-----------------------------------------------------------------------------
(* The judge. The semaphore's slots are those of the exchanges in progress, and the   *)
(* lock of a question is held from before the slot until the exchange is over.         *)

SlotsLeaking == {e \in Episodes : pc[e] = "provider" \/ (pc[e] = "raised" /\ attempt[e] > 0)}

Slots == {e \in Episodes : pc[e] = "provider"}

SlotFree == Cardinality(Slots) < MaxConcurrency

Locked(q) == \E e \in Episodes : pc[e] \in {"slot", "provider"} /\ Current(e) = q

\* A verdict is given to the score of e, which goes on.
Give(e, q, yes) ==
  /\ got' = [got EXCEPT ![e] = @ \cup {[q |-> q, yes |-> yes]}]
  /\ pc' = [pc EXCEPT ![e] = "score"]

\* The n-th attempt of the exchange counts against the budget before it is made.
Request(e, n) ==
  /\ IF requests < MaxRequests
     THEN /\ requests' = requests + 1
          /\ attempt' = [attempt EXCEPT ![e] = n]
          /\ pc' = [pc EXCEPT ![e] = "provider"]
     ELSE /\ pc' = [pc EXCEPT ![e] = "raised"]
          /\ UNCHANGED <<requests, attempt>>
  /\ UNCHANGED <<got, cache>>

\* With the lock of its question, e waits for a slot or starts the exchange.
Enter(e) ==
  IF SlotFree
  THEN Request(e, 1)
  ELSE pc' = [pc EXCEPT ![e] = "slot"] /\ UNCHANGED <<got, cache, requests, attempt>>

RememberedBeforeLock(q) == FALSE

\* Looked up again under the lock: the verdict may have come while e waited for it.
RememberedUnderLock(q) == Asked(cache, q)

\* judge: a verdict that is remembered needs no lock.
Ask(e) ==
  /\ pc[e] = "score"
  /\ Open(e) # {}
  /\ LET q == Current(e) IN
       \/ /\ Asked(cache, q)
          /\ Give(e, q, YesOf(cache, q))
          /\ UNCHANGED <<cache, requests, attempt>>
       \/ /\ ~Asked(cache, q)
          /\ ~Locked(q)
          /\ Enter(e)
       \/ /\ ~Asked(cache, q)
          /\ Locked(q)
          /\ pc' = [pc EXCEPT ![e] = "lock"]
          /\ UNCHANGED <<got, cache, requests, attempt>>
  /\ UNCHANGED <<boxed, phase, build, trace, batch, faults>>

Acquire(e) ==
  /\ pc[e] = "lock"
  /\ LET q == Current(e) IN
       /\ ~Locked(q)
       /\ IF RememberedUnderLock(q)
          THEN Give(e, q, YesOf(cache, q)) /\ UNCHANGED <<cache, requests, attempt>>
          ELSE Enter(e)
  /\ UNCHANGED <<boxed, phase, build, trace, batch, faults>>

EnterSlot(e) ==
  /\ pc[e] = "slot"
  /\ SlotFree
  /\ Request(e, 1)
  /\ UNCHANGED <<boxed, phase, build, trace, batch, faults>>

\* A well-formed verdict is remembered; one that contradicts the memory is refused.
Answered(e) ==
  /\ pc[e] = "provider"
  /\ LET q == Current(e) IN
     \E yes \in VerdictsOn(q) :
       IF Asked(cache, q) /\ YesOf(cache, q) # yes
       THEN pc' = [pc EXCEPT ![e] = "raised"] /\ UNCHANGED <<got, cache>>
       ELSE Give(e, q, yes) /\ cache' = cache \cup {[q |-> q, yes |-> yes]}
  /\ UNCHANGED <<boxed, phase, build, trace, attempt, requests, batch, faults>>

AttemptsLeftOneMore(e) == attempt[e] <= MaxAttempts

AttemptsLeft(e) == attempt[e] < MaxAttempts

\* A reply that is not a list of scores is answered by another attempt, or given up.
BadReply(e) ==
  /\ pc[e] = "provider"
  /\ IF AttemptsLeft(e)
     THEN Request(e, attempt[e] + 1)
     ELSE pc' = [pc EXCEPT ![e] = "raised"] /\ UNCHANGED <<got, cache, requests, attempt>>
  /\ UNCHANGED <<boxed, phase, build, trace, batch, faults>>

FailedIsZero(e) == Give(e, Current(e), {})

\* The judge's failure is the score's failure, never a score.
FailedRaises(e) == pc' = [pc EXCEPT ![e] = "raised"] /\ UNCHANGED got

\* The provider fails, or the verdict cannot be written to the cache file, though the
\* memory has it already.
JudgeFails(e) ==
  /\ pc[e] = "provider"
  /\ faults < MaxFaults
  /\ faults' = faults + 1
  /\ FailedRaises(e)
  /\ \/ UNCHANGED cache
     \/ \E yes \in VerdictsOn(Current(e)) :
          /\ ~Asked(cache, Current(e))
          /\ cache' = cache \cup {[q |-> Current(e), yes |-> yes]}
  /\ UNCHANGED <<boxed, phase, build, trace, attempt, requests, batch>>

\* The result's validator demands a score of at most one.
Evaluate(e) ==
  /\ pc[e] = "score"
  /\ Open(e) = {}
  /\ pc' = [pc EXCEPT ![e] = IF Score(e) > Scale THEN "raised" ELSE "scored"]
  /\ UNCHANGED <<boxed, phase, build, trace, got, attempt, cache, requests, batch, faults>>

-----------------------------------------------------------------------------
(* The batch *)

\* Sub trains on the outcome alone, Main and a shared policy on the other components too.
Reward(e) ==
  IF ~trace[e].ok THEN FailedOutcome
  ELSE Score(e) + IF Phases[phase] = "sub_update" THEN 0 ELSE trace[e].shape.extra

\* The difference to the mean of the group; the deviation it is divided by is the same
\* for the whole group.
Advantage(e) ==
  Rollouts * Reward(e) - MapThenSumSet(Reward, GroupOf(TaskOf(e)))

Trained(a) ==
  CASE Phases[phase] = "main_update" -> a = Main
    [] Phases[phase] = "sub_update" -> a # Main
    [] OTHER -> TRUE

StepsOf(e, a) == trace[e].shape.steps[a]

\* The agents of the target policy that took a step in the episode.
Agents(e) == {a \in DOMAIN trace[e].shape.steps : Trained(a) /\ StepsOf(e, a) > 0}

WeightPerAgent(e, a) == Scale \div StepsOf(e, a)

\* An episode's agents weigh the same, and so do the steps of an agent.
Weight(e, a) == Scale \div (StepsOf(e, a) * Cardinality(Agents(e)))

SamplesOf(e) ==
  UNION {{[of |-> e, agent |-> a, step |-> i, weight |-> Weight(e, a),
           advantage |-> Advantage(e)] : i \in 1 .. StepsOf(e, a)} : a \in Agents(e)}

\* All groups are there; failed episodes contribute their steps too.
Build ==
  /\ build = "building"
  /\ \A e \in Episodes : pc[e] = "scored"
  /\ batch' = UNION {SamplesOf(e) : e \in Episodes}
  /\ build' = "built"
  /\ UNCHANGED <<boxed, phase, pc, trace, got, attempt, cache, requests, faults>>

\* The first exception of a rollout or a score ends the build, not the other tasks.
BuildRaises ==
  /\ build = "building"
  /\ \E e \in Episodes : pc[e] = "raised"
  /\ build' = "failed"
  /\ UNCHANGED <<boxed, phase, pc, trace, got, attempt, cache, requests, batch, faults>>

\* The coordinator trained on the batch; the next phase rolls out afresh.
NextPhase ==
  /\ build = "built"
  /\ phase < Len(Phases)
  /\ phase' = phase + 1
  /\ build' = "building"
  /\ pc' = [e \in Episodes |-> "rollout"]
  /\ trace' = [e \in Episodes |-> Blank]
  /\ got' = [e \in Episodes |-> {}]
  /\ attempt' = [e \in Episodes |-> 0]
  /\ batch' = {}
  /\ UNCHANGED <<boxed, cache, requests, faults>>

-----------------------------------------------------------------------------
EpisodeStep(e) ==
  \/ RolloutEnds(e)
  \/ RolloutRaises(e)
  \/ Ask(e)
  \/ Acquire(e)
  \/ EnterSlot(e)
  \/ Answered(e)
  \/ BadReply(e)
  \/ JudgeFails(e)
  \/ Evaluate(e)

FactoryStep ==
  \/ \E t \in Tasks : ScoreGroup(t) \/ EnvironmentDiffers(t)
  \/ Build
  \/ BuildRaises
  \/ NextPhase

Next == (\E e \in Episodes : EpisodeStep(e)) \/ FactoryStep

Spec == Init /\ [][Next]_vars

\* Rollouts end and the provider's client gives up in the end; a task that can run does.
Fairness == WF_vars(FactoryStep) /\ \A e \in Episodes : WF_vars(EpisodeStep(e))

FairSpec == Spec /\ Fairness

-----------------------------------------------------------------------------
(* Properties *)

\* Every part of the state has its type.
TypeOK ==
  /\ boxed \subseteq Tasks
  /\ phase \in DOMAIN Phases
  /\ build \in {"building", "built", "failed"}
  /\ pc \in [Episodes -> Control]
  /\ trace \in [Episodes -> Trace]
  /\ got \in [Episodes -> SUBSET Verdict]
  /\ attempt \in [Episodes -> 0 .. MaxAttempts]
  /\ cache \subseteq Verdict
  /\ requests \in 0 .. MaxRequests
  /\ faults \in 0 .. MaxFaults

\* Scores that ask the same question at once share one exchange with the provider, and
\* none asks what the judge knows already, so it never learns two verdicts
\* (semantic_judge.py, judge: the lock of a cache key and the second look-up under it).
SingleFlight ==
  /\ \A e \in Slots :
       /\ ~Asked(cache, Current(e))
       /\ \A f \in Slots : Current(e) = Current(f) => e = f
  /\ \A r, s \in cache : r.q = s.q => r = s

\* Two rollouts of a task that end with the same answer have the same score, in whatever
\* order they were judged and whatever failed meanwhile: a difference between them would
\* be trained as an advantage (semantic_judge.py, wideseek.py evaluate).
EqualAnswersEqualScores ==
  \A e, f \in Episodes :
    /\ TaskOf(e) = TaskOf(f)
    /\ pc[e] = "scored" /\ trace[e].ok
    /\ pc[f] = "scored" /\ trace[f].ok
    /\ trace[e].answer = trace[f].answer
    => Score(e) = Score(f)

\* One answer has one score: the judge learns one verdict on a question, and a score uses it
\* however the scores interleaved and whichever of them failed.
OneScorePerAnswer == SingleFlight /\ EqualAnswersEqualScores

\* What the samples of an agent weigh.
Share(e, a) == MapThenSumSet(LAMBDA s : s.weight, {s \in batch : s.of = e /\ s.agent = a})

\* In a batch the advantages of a task's rollouts cancel out, those without samples
\* included, and every episode with samples has weight one, shared equally by its agents,
\* however many steps they took: what update_policy demands (batch.py, build).
BatchBalanced ==
  build = "built" =>
    /\ \A t \in Tasks : MapThenSumSet(Advantage, GroupOf(t)) = 0
    /\ \A e \in Episodes : Agents(e) # {} =>
         /\ MapThenSumSet(LAMBDA a : Share(e, a), Agents(e)) = Scale
         /\ \A a, b \in Agents(e) : Share(e, a) = Share(e, b)

\* Every score ends, also one whose build failed already, and so does every build: no lock,
\* slot or verdict is waited for for ever.
NothingHangs ==
  /\ build = "building" ~> build # "building"
  /\ \A e \in Episodes : pc[e] \in Waiting ~> pc[e] \notin Waiting

\* The evaluation declares its outcome as a number from 0 to 1 (evaluation/wideseek.py,
\* WideSeekEvaluation).
ScoresInRange ==
  \A e \in Episodes : pc[e] = "score" /\ Open(e) = {} => Score(e) \in 0 .. Scale

=============================================================================
