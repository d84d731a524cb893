---------------------------- MODULE SpawnEpisode ----------------------------
(***************************************************************************)
(* One-round episodes: Main answers or delegates once, every Sub makes one *)
(* search and one generation, and Main answers from what the Subs found.   *)
(* Two orchestrators of this kind: the trainable one, which the rollouts   *)
(* of a batch share with its budget ledger and its semaphore, and the API  *)
(* one, made for one evaluation episode.  What a model says, and whether a *)
(* service raises, is open.                                                *)
(***************************************************************************)
EXTENDS Integers, Sequences, FiniteSets, SequencesExt

CONSTANTS
  Episodes,    \* the rollouts gathered over one trainable orchestrator
  Alone,       \* the episode that runs when the orchestrator is the API one
  MaxSpawn,    \* max_spawn_per_episode
  Repairs,     \* repair_attempts
  Capacity     \* max_concurrency

ASSUME SpawnAssumption ==
  /\ Alone \in Episodes
  /\ MaxSpawn \in Nat \ {0}
  /\ Repairs \in Nat
  /\ Capacity \in Nat \ {0}

\* Agents of an episode: Main is 0. A step is named after its agent and its place; the API
\* orchestrator names events by their index, which is the place of that step in the stream.
Step == [agent : 0 .. MaxSpawn, kind : {"initial", "final", "search", "model", "failure"},
         index : 0 .. Repairs]

MainStep(phase, k) == [agent |-> 0, kind |-> phase, index |-> k]

SubStep(i, kind) == [agent |-> i, kind |-> kind, index |-> 0]

Event(step, causes, ok) == [step |-> step, causes |-> causes, ok |-> ok]

VARIABLES
  runner,     \* "trainable" or "api"
  pc,         \* per episode: what it awaits, or how it ended
  attempt,    \* per episode: Main's attempt at its action
  subs,       \* per episode: the Subs it spawned, with their progress
  events,     \* per episode: the fact stream
  outcomes,   \* per episode: what is told of each Sub, in request order
  heard,      \* per episode: the steps that cause Main's final action
  permits,    \* the semaphore
  ledger      \* the budget ledger: committed reservations

episode == <<runner, pc, attempt, subs, events, outcomes, heard>>
budget == <<permits, ledger>>
vars == <<episode, budget>>

Generating == {"initial", "final"}

Traced == {"success", "failed"}

Over == Traced \cup {"raised"}

\* How a Sub ended: what it could not do, or "success". An API model answers in text.
ApiEnds == {"search", "generate", "success"}

TrainableEnds == ApiEnds \cup {"decode"}

Ends == IF runner = "api" THEN ApiEnds ELSE TrainableEnds

Init ==
  /\ runner \in {"trainable", "api"}
  /\ pc = [e \in Episodes |-> IF runner = "api" /\ e # Alone THEN "absent" ELSE "initial"]
  /\ attempt = [e \in Episodes |-> 0]
  /\ subs = [e \in Episodes |-> <<>>]
  /\ events = [e \in Episodes |-> <<>>]
  /\ outcomes = [e \in Episodes |-> <<>>]
  /\ heard = [e \in Episodes |-> <<>>]
  /\ permits = Capacity
  /\ ledger = {}

-----------------------------------------------------------------------------
(* Main *)

\* An answer, something that is no action, or a delegation to that many Subs.
Outputs == {[kind |-> "answer"], [kind |-> "other"]}
             \cup {[kind |-> "spawn", count |-> n] : n \in 1 .. MaxSpawn + 1}

ValidAnyCount(phase, out) ==
  \/ out.kind = "answer"
  \/ out.kind = "spawn" /\ phase = "initial"

Valid(phase, out) ==
  \/ out.kind = "answer"
  \/ out.kind = "spawn" /\ phase = "initial" /\ out.count <= MaxSpawn

\* Every attempt is kept, and a repair is caused by the attempt before it too.
CausesOfAttempt(e) ==
  heard[e] \o IF attempt[e] = 0 THEN <<>> ELSE <<MainStep(pc[e], attempt[e] - 1)>>

Recorded(e, ok) ==
  events' = [events EXCEPT ![e] =
               Append(@, Event(MainStep(pc[e], attempt[e]), CausesOfAttempt(e), ok))]

Answers(e, out) ==
  /\ out.kind = "answer"
  /\ Recorded(e, TRUE)
  /\ pc' = [pc EXCEPT ![e] = "success"]
  /\ UNCHANGED <<attempt, subs>>

Delegates(e, out) ==
  /\ out.kind = "spawn"
  /\ Valid(pc[e], out)
  /\ Recorded(e, TRUE)
  /\ pc' = [pc EXCEPT ![e] = "subs"]
  /\ subs' = [subs EXCEPT ![e] = [i \in 1 .. out.count |-> "queued"]]
  /\ UNCHANGED attempt

\* The trainable orchestrator keeps a failed trace; the API one raises an EpisodeRunError.
GivesUp(e) == pc' = [pc EXCEPT ![e] = IF runner = "api" THEN "raised" ELSE "failed"]

Errs(e, out) ==
  /\ ~Valid(pc[e], out)
  /\ Recorded(e, FALSE)
  /\ IF attempt[e] < Repairs
     THEN attempt' = [attempt EXCEPT ![e] = @ + 1] /\ UNCHANGED pc
     ELSE GivesUp(e) /\ UNCHANGED attempt
  /\ UNCHANGED subs

\* A generation of Main comes back.
MainTurn(e) ==
  /\ pc[e] \in Generating
  /\ \E out \in Outputs : Answers(e, out) \/ Delegates(e, out) \/ Errs(e, out)
  /\ UNCHANGED <<runner, outcomes, heard, budget>>

\* It raises, or is another revision's: the episode has no trace.
MainRaises(e) ==
  /\ pc[e] \in Generating
  /\ pc' = [pc EXCEPT ![e] = "raised"]
  /\ UNCHANGED <<runner, attempt, subs, events, outcomes, heard, budget>>

-----------------------------------------------------------------------------
(* Subs, gathered under the semaphore *)

\* reserve raises for a reservation that is there, or when the ledger is full.
Admits(id) == id \notin ledger /\ Cardinality(ledger) < Capacity

\* A Sub gets the semaphore. Were its reservation refused, the whole episode would raise.
SubBegins(e, i) ==
  /\ subs[e][i] = "queued"
  /\ permits > 0
  /\ IF Admits(<<e, i>>)
     THEN /\ permits' = permits - 1
          /\ ledger' = ledger \cup {<<e, i>>}
          /\ subs' = [subs EXCEPT ![e][i] = "searching"]
          /\ UNCHANGED pc
     ELSE /\ pc' = [pc EXCEPT ![e] = "raised"]
          /\ subs' = [subs EXCEPT ![e][i] = "refused"]
          /\ UNCHANGED budget
  /\ UNCHANGED <<runner, attempt, events, outcomes, heard>>

Searched(e, i) ==
  /\ subs[e][i] = "searching"
  /\ subs' = [subs EXCEPT ![e][i] = "generating"]
  /\ UNCHANGED <<runner, pc, attempt, events, outcomes, heard, budget>>

ReleasedOnSuccess(id, end) == IF end = "success" THEN ledger \ {id} ELSE ledger

\* The reservation is released however the Sub ended.
Released(id, end) == ledger \ {id}

PermitKeptOnFailure(end) == IF end = "success" THEN permits + 1 ELSE permits

PermitsAfter(end) == permits + 1

SubEnds(e, i) ==
  /\ \E end \in Ends :
       /\ subs[e][i] = IF end = "search" THEN "searching" ELSE "generating"
       /\ subs' = [subs EXCEPT ![e][i] = end]
       /\ ledger' = Released(<<e, i>>, end)
       /\ permits' = PermitsAfter(end)
  /\ UNCHANGED <<runner, pc, attempt, events, outcomes, heard>>

-----------------------------------------------------------------------------
(* The merge *)

\* What the trainable orchestrator records of Sub i: its search; its generation, if there
\* is one; its failure.
TrainableEvents(e, i, delegation) ==
  LET end    == subs[e][i]
      search == SubStep(i, "search")
      model  == SubStep(i, "model")
      fails(cause) == <<Event(SubStep(i, "failure"), <<cause>>, FALSE)>>
  IN  <<Event(search, <<delegation>>, end # "search")>> \o
      CASE end \in {"search", "generate"} -> fails(search)
        [] end = "decode"  -> <<Event(model, <<search>>, FALSE)>> \o fails(model)
        [] end = "success" -> <<Event(model, <<search>>, TRUE)>>

\* The API orchestrator records one result.
ApiEvents(e, i, delegation) ==
  <<Event(SubStep(i, "model"), <<delegation>>, subs[e][i] = "success")>>

EventsOf(e, i, delegation) ==
  IF runner = "api" THEN ApiEvents(e, i, delegation) ELSE TrainableEvents(e, i, delegation)

HeardOfSuccesses(e, streams) ==
  LET n == Len(streams) IN
  SelectSeq([i \in 1 .. n |-> Last(streams[i]).step],
            LAMBDA step : subs[e][step.agent] = "success")

\* Main's final action is caused by the last step of every Sub.
Heard(e, streams) == [i \in 1 .. Len(streams) |-> Last(streams[i]).step]

StepIn(stream, kind) ==   \* at most one
  {ev.step : ev \in {ev \in ToSet(stream) : ev.step.kind = kind}}

Outcome(e, i, stream) ==
  [ok |-> subs[e][i] = "success",
   search |-> StepIn(stream, "search"), model |-> StepIn(stream, "model")]

\* All Subs ended, well or not: their events and outcomes in request order.
Merge(e) ==
  /\ pc[e] = "subs"
  /\ \A i \in DOMAIN subs[e] : subs[e][i] \in Ends
  /\ LET delegation == Last(events[e]).step
         streams    == [i \in DOMAIN subs[e] |-> EventsOf(e, i, delegation)]
     IN  /\ events' = [events EXCEPT ![e] = @ \o FlattenSeq(streams)]
         /\ outcomes' = [outcomes EXCEPT ![e] =
                           [i \in DOMAIN streams |-> Outcome(e, i, streams[i])]]
         /\ heard' = [heard EXCEPT ![e] = Heard(e, streams)]
  /\ pc' = [pc EXCEPT ![e] = "final"]
  /\ attempt' = [attempt EXCEPT ![e] = 0]
  /\ UNCHANGED <<runner, subs, budget>>

-----------------------------------------------------------------------------
SubStepOf(e, i) ==
  \/ SubBegins(e, i)
  \/ Searched(e, i)
  \/ SubEnds(e, i)

Next ==
  \E e \in Episodes :
    \/ MainTurn(e)
    \/ MainRaises(e)
    \/ \E i \in DOMAIN subs[e] : SubStepOf(e, i)
    \/ Merge(e)

Spec == Init /\ [][Next]_vars

\* Generations and searches come back or raise, and a Sub that can take the semaphore does.
Fairness ==
  \A e \in Episodes :
    /\ WF_vars(MainTurn(e) \/ MainRaises(e))
    /\ WF_vars(Merge(e))
    /\ \A i \in 1 .. MaxSpawn : WF_vars(i \in DOMAIN subs[e] /\ SubStepOf(e, i))

FairSpec == Spec /\ Fairness

-----------------------------------------------------------------------------
(* Properties *)

\* Every part of the state has its type.
TypeOK ==
  /\ runner \in {"trainable", "api"}
  /\ pc \in [Episodes -> {"absent", "subs"} \cup Generating \cup Over]
  /\ attempt \in [Episodes -> 0 .. Repairs]
  /\ \A e \in Episodes :
       /\ Len(subs[e]) <= MaxSpawn
       /\ \A i \in DOMAIN subs[e] :
            subs[e][i] \in {"queued", "searching", "generating", "refused"} \cup Ends
       /\ \A k \in DOMAIN events[e] : events[e][k].step \in Step
       /\ \A k \in DOMAIN heard[e] : heard[e][k] \in Step
  /\ permits \in 0 .. Capacity
  /\ ledger \subseteq Episodes \X (1 .. MaxSpawn)

StepsOf(evs) == {evs[k].step : k \in DOMAIN evs}

\* What the trace's validator demands: steps are recorded once, causes earlier, and an
\* outcome names steps that are there.
Consistent(e) ==
  /\ Cardinality(StepsOf(events[e])) = Len(events[e])
  /\ \A k \in DOMAIN events[e] :
       Range(events[e][k].causes) \subseteq StepsOf(SubSeq(events[e], 1, k - 1))
  /\ \A i \in DOMAIN outcomes[e] :
       outcomes[e][i].search \cup outcomes[e][i].model \subseteq StepsOf(events[e])

\* An episode that delegated has one outcome of each of its Subs, and Main's final attempts
\* are caused by something each of them did last, failed or not.
AllHeard(e) ==
  pc[e] \in Traced /\ subs[e] # <<>> =>
    /\ Len(outcomes[e]) = Len(subs[e])
    /\ \A k \in DOMAIN events[e] :
         events[e][k].step.kind = "final" =>
           \A i \in DOMAIN subs[e] :
             \E cause \in Range(events[e][k].causes) :
               /\ cause.agent = i
               /\ \A j \in DOMAIN events[e] : events[e][j].step.agent = i =>
                    \E n \in DOMAIN events[e] : n >= j /\ events[e][n].step = cause

\* A trace is accepted by its validator, and no Sub is missing from it, whatever failed and
\* in whatever order the Subs ended (trainable_episode.py, run; trainable_models.py,
\* TrainableSubOutcome: "failures never cancel sibling executions").
TraceComplete == \A e \in Episodes : Consistent(e) /\ AllHeard(e)

\* The ledger never refuses a Sub the semaphore let through, although the Subs of several
\* episodes share both, and every slot is given back: an API episode sees an empty budget
\* whenever it takes a snapshot (trainable_episode.py, _run_sub; api_episode.py, run).
LedgerHolds ==
  /\ Cardinality(ledger) = Capacity - permits
  /\ \A e \in Episodes : \A i \in DOMAIN subs[e] :
       /\ subs[e][i] # "refused"
       /\ subs[e][i] = "queued" => <<e, i>> \notin ledger
  /\ (\A e \in Episodes : pc[e] # "subs") => ledger = {}

\* Every episode ends: no Sub waits for the semaphore for ever, and Main's repairs do.
EpisodesEnd == \A e \in Episodes : pc[e] # "absent" ~> pc[e] \in Over

=============================================================================
