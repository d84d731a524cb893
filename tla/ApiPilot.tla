------------------------------- MODULE ApiPilot -------------------------------
(***************************************************************************)
(* The API pilot: every repeat of every task is an episode of its own over *)
(* a new API orchestrator, one after the other; each leaves a summary and  *)
(* a prediction, whatever happened to it.  Then the predictions are        *)
(* scored: by comparison, and by a judge where that fails and a judge was  *)
(* asked for, over a provider whose client repeats what fails.  Tokens and *)
(* latencies are left out.                                                 *)
(***************************************************************************)
EXTENDS SpawnEpisode

CONSTANTS
  Pilots,        \* [tasks, repeats, judge]: how many of each, and whether there is a judge
  JudgeRepairs,  \* attempts after a verdict that cannot be parsed
  MaxAttempts    \* max_attempts of the provider's client

ASSUME PilotAssumption ==
  /\ Pilots \subseteq [tasks : Nat \ {0}, repeats : Nat \ {0}, judge : BOOLEAN]
  /\ JudgeRepairs \in Nat
  /\ MaxAttempts \in Nat \ {0}

VARIABLES
  pilot,        \* what is to be run
  summaries,    \* of the episodes that ended, in order
  predictions,  \* per task: an answer of each of its episodes, or "none"
  score,        \* per prediction, in order: how it was scored
  asked         \* how often at the prediction at hand: verdicts, responses, posts

report == <<pilot, summaries, predictions, score, asked>>
pilotVars == <<vars, report>>

\* Nested loops: verdicts that could not be parsed; responses of another schema since then;
\* posts since then.
FirstPost == [verdict |-> 0, response |-> 1, post |-> 1]

Total == pilot.tasks * pilot.repeats

\* The k-th episode: repeats of a task follow each other.
TaskOf(k) == ((k - 1) \div pilot.repeats) + 1

RepeatOf(k) == ((k - 1) % pilot.repeats) + 1

PilotInit ==
  /\ Init
  /\ pilot \in Pilots
  /\ runner = "trainable" => pilot = CHOOSE p \in Pilots : TRUE  \* it has none
  /\ summaries = <<>>
  /\ predictions = [t \in 1 .. pilot.tasks |-> <<>>]
  /\ score = <<>>
  /\ asked = FirstPost

-----------------------------------------------------------------------------
(* The episodes *)

HowMany(s, Test(_)) == Cardinality({k \in DOMAIN s : Test(s[k])})

FromMain(ev) == ev.step.agent = 0

\* What a trace, or an EpisodeRunError, says the episode did.
Facts(status) ==
  [status |-> status,
   spawned |-> Len(outcomes[Alone]),
   succeeded |-> HowMany(outcomes[Alone], LAMBDA o : o.ok),
   failed |-> HowMany(outcomes[Alone], LAMBDA o : ~o.ok),
   attempts |-> HowMany(events[Alone], FromMain),
   invalid |-> HowMany(events[Alone], LAMBDA ev : FromMain(ev) /\ ~ev.ok),
   events |-> Len(events[Alone])]

\* Any other exception tells nothing.
NoFacts(status) == [status |-> status, spawned |-> 0, succeeded |-> 0, failed |-> 0,
                    attempts |-> 0, invalid |-> 0, events |-> 0]

\* Main has used up its attempts: the exception of the orchestrator itself.
GaveUp ==
  /\ pc[Alone] = "raised"
  /\ events[Alone] # <<>>
  /\ LET ev == Last(events[Alone])
     IN ev.step.agent = 0 /\ ev.step.index = Repairs /\ ~ev.ok

\* What is written of the episode, and what it predicts: a trace is refused when a search
\* had another revision than the manifest says.
Endings ==
  LET ending(predicts, summary) == [predicts |-> predicts, summary |-> summary] IN
  IF pc[Alone] = "success"
  THEN {ending(p, Facts("completed")) : p \in {"exact", "other"}}
         \cup (IF \E i \in DOMAIN outcomes[Alone] : outcomes[Alone][i].ok
               THEN {ending("none", NoFacts("refused"))} ELSE {})
  ELSE {ending("none", IF GaveUp THEN Facts("gaveUp") ELSE NoFacts("raised"))}

RefusedTwice(ending) ==
  IF ending.summary.status = "refused" THEN <<"other", "none">> ELSE <<ending.predicts>>

Predicted(ending) == <<ending.predicts>>

\* The episode ended: its summary and its prediction; the next one has an orchestrator, a
\* ledger and a semaphore of its own.
EpisodeDone ==
  /\ runner = "api"
  /\ pc[Alone] \in Over
  /\ Len(summaries) < Total
  /\ LET k == Len(summaries) + 1 IN
       \E ending \in Endings :
         /\ summaries' = Append(summaries, ending.summary)
         /\ predictions' = [predictions EXCEPT ![TaskOf(k)] = @ \o Predicted(ending)]
  /\ IF Len(summaries') < Total
     THEN /\ pc' = [pc EXCEPT ![Alone] = "initial"]
          /\ attempt' = [attempt EXCEPT ![Alone] = 0]
          /\ subs' = [subs EXCEPT ![Alone] = <<>>]
          /\ events' = [events EXCEPT ![Alone] = <<>>]
          /\ outcomes' = [outcomes EXCEPT ![Alone] = <<>>]
          /\ heard' = [heard EXCEPT ![Alone] = <<>>]
          /\ permits' = Capacity
          /\ ledger' = {}
     ELSE UNCHANGED <<pc, attempt, subs, events, outcomes, heard, budget>>
  /\ UNCHANGED <<runner, pilot, score, asked>>

-----------------------------------------------------------------------------
(* The score *)

\* The prediction that is scored next.
AtHand ==
  LET k == Len(score) + 1 IN predictions[TaskOf(k)][RepeatOf(k)]

Scores ==
  /\ Len(summaries) = Total
  /\ runner = "api"
  /\ Len(score) < Total

Scored(how) == score' = Append(score, how) /\ asked' = FirstPost

\* A missing prediction is passed over; an exact one needs no judge.
Compare ==
  /\ Scores
  /\ AtHand \in {"none", "exact"} \/ ~pilot.judge
  /\ Scored(IF AtHand = "other" THEN "wrong" ELSE AtHand)
  /\ UNCHANGED <<vars, pilot, summaries, predictions>>

\* After the last attempt of any of the loops the judge has failed, and the next prediction
\* is scored.
Again(left, next) ==
  IF left THEN asked' = next /\ UNCHANGED score ELSE Scored("judgeFailed")

\* No response, or a status worth another attempt. The responses asked for before count on.
PostFails ==
  Again(asked.post < MaxAttempts, [asked EXCEPT !.post = @ + 1])

\* A response of another schema: it is asked for again, with all its posts.
ResponseMalformed ==
  Again(asked.response < MaxAttempts, [asked EXCEPT !.response = @ + 1, !.post = 1])

RepairedOnceMore == asked.verdict <= JudgeRepairs

MayRepairVerdict == asked.verdict < JudgeRepairs

\* An answer that is no verdict: the judge is asked to repair it, in a request of its own.
VerdictUnclear ==
  Again(MayRepairVerdict, [FirstPost EXCEPT !.verdict = asked.verdict + 1])

\* What the provider does with one post of the judge's request.
Judge ==
  /\ Scores
  /\ AtHand = "other" /\ pilot.judge
  /\ \/ PostFails
     \/ Scored("judgeFailed")  \* a status that is not worth another attempt
     \/ ResponseMalformed
     \/ VerdictUnclear
     \/ \E verdict \in {"judgedRight", "judgedWrong"} : Scored(verdict)
  /\ UNCHANGED <<vars, pilot, summaries, predictions>>

PilotNext ==
  \/ Next /\ UNCHANGED report
  \/ EpisodeDone
  \/ Compare
  \/ Judge

PilotFairness ==
  /\ \A e \in Episodes :
       /\ WF_pilotVars((MainTurn(e) \/ MainRaises(e)) /\ UNCHANGED report)
       /\ WF_pilotVars(Merge(e) /\ UNCHANGED report)
       /\ \A i \in 1 .. MaxSpawn :
            WF_pilotVars(i \in DOMAIN subs[e] /\ SubStepOf(e, i) /\ UNCHANGED report)
  /\ WF_pilotVars(EpisodeDone)
  /\ WF_pilotVars(Compare \/ Judge)

PilotSpec == PilotInit /\ [][PilotNext]_pilotVars /\ PilotFairness

-----------------------------------------------------------------------------
(* Properties *)

Right == {"exact", "judgedRight"}

\* Every part of the state has its type, and the judge is asked no more often than its loops
\* allow.
PilotTypes ==
  /\ TypeOK
  /\ pilot \in Pilots
  /\ \A k \in DOMAIN summaries :
       summaries[k].status \in {"completed", "refused", "gaveUp", "raised"}
  /\ predictions \in [1 .. pilot.tasks -> Seq({"exact", "other", "none"})]
  /\ \A k \in DOMAIN score :
       score[k] \in Right \cup {"none", "wrong", "judgedWrong", "judgeFailed"}
  /\ asked \in [verdict : 0 .. JudgeRepairs, response : 1 .. MaxAttempts,
                post : 1 .. MaxAttempts]

\* An episode that completed has one valid attempt of Main in each phase it went through;
\* one that gave up, all its attempts of the last phase invalid. Of the rest nothing is told.
SummaryAddsUp(s) ==
  LET phases == IF s.spawned = 0 THEN 1 ELSE 2 IN
  /\ s.spawned = s.succeeded + s.failed
  /\ s.events = s.attempts + s.spawned
  /\ s.status = "completed" => s.attempts - s.invalid = phases
  /\ s.status = "gaveUp" => s.attempts - s.invalid = phases - 1 /\ s.invalid > Repairs
  /\ s.status \in {"refused", "raised"} => s.attempts = 0

\* Whatever became of an episode and of its search, it leaves one summary and one
\* prediction, at its place: a completed episode its answer, any other none. What a summary
\* counts is of this episode alone and adds up, and the score passes over exactly the
\* episodes that did not complete (api_pilot.py, run; xbench.py, evaluate_repeat_exact:
\* "repeat score prediction count does not match manifest").
PilotAccounts ==
  /\ \A t \in DOMAIN predictions :
       Len(predictions[t]) = Cardinality({k \in DOMAIN summaries : TaskOf(k) = t})
  /\ \A k \in DOMAIN summaries :
       /\ SummaryAddsUp(summaries[k])
       /\ (predictions[TaskOf(k)][RepeatOf(k)] = "none") <=> (summaries[k].status # "completed")
  /\ \A k \in DOMAIN score :
       /\ (score[k] = "none") <=> (summaries[k].status # "completed")
       /\ score[k] \in {"judgedRight", "judgedWrong", "judgeFailed"} => pilot.judge

\* Every episode ends, and every pilot is scored to its last prediction, however often
\* models repeat invalid actions and judges raise.
RunsEnd ==
  /\ EpisodesEnd
  /\ runner = "api" ~> Len(score) = Total

=============================================================================
