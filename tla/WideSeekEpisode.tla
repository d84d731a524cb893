-------------------------- MODULE WideSeekEpisode --------------------------
(***************************************************************************)
(* One WideSeek episode: a Main that answers or delegates in bounded       *)
(* rounds, the Subs of a round running concurrently in bounded turns, and  *)
(* their search and access calls, which share the concurrency budget of    *)
(* the episode.  What a model says, and whether a service raises, is open. *)
(*                                                                         *)
(* An action is what a task does from one suspension to the next.  Content *)
(* and digests are left out: an event is its step and the steps that       *)
(* caused it.                                                              *)
(***************************************************************************)
EXTENDS Naturals, Sequences, FiniteSets, SequencesExt

CONSTANTS
  Urls,        \* what a search can discover and an access can ask for
  Profiles     \* the limits an episode may be given

\* The limits of an episode: tool calls that run at once, rounds of Main, turns of a Sub,
\* Subs of a round and of the episode, tool calls of a turn, and the attempts after an
\* invalid turn of Main and of a Sub.
Limits ==
  [concurrency : Nat \ {0}, mainRounds : Nat \ {0}, subTurns : Nat \ {0},
   spawnPerRound : 1 .. 4, spawnPerEpisode : Nat \ {0}, toolsPerTurn : 1 .. 3,
   mainRepairs : Nat, subRepairs : Nat]

ASSUME EpisodeAssumption == Profiles \subseteq Limits

-----------------------------------------------------------------------------
(* Data *)

Subs == UNION {1 .. p.spawnPerEpisode : p \in Profiles}

Places == UNION {1 .. p.toolsPerTurn : p \in Profiles}

\* A step is named after its agent (Main is 0), its round or turn, and the attempt or
\* the place of the tool call in the turn.
Step == [agent : {0} \cup Subs, kind : {"model", "search", "access", "failure"},
         turn : Nat, index : Nat]

MainStep(r, a) == [agent |-> 0, kind |-> "model", turn |-> r, index |-> a]

SubStep(n, t, a) == [agent |-> n, kind |-> "model", turn |-> t, index |-> a]

ToolStep(n, t, i, call) == [agent |-> n, kind |-> call.name, turn |-> t, index |-> i]

FailureStep(n) == [agent |-> n, kind |-> "failure", turn |-> 0, index |-> 0]

Event(step, causes) == [step |-> step, causes |-> causes]

\* A tool call of a Sub turn: a search, or an access of one address.
SearchCall == [name |-> "search", url |-> "none"]

AccessCall(u) == [name |-> "access", url |-> u]

Calls == {SearchCall} \cup {AccessCall(u) : u \in Urls}

-----------------------------------------------------------------------------
(* State *)

VARIABLES
  limits,     \* those of this episode
  status,     \* "running", "success", "failed", or "raised" (no trace)
  round,      \* Main's round
  attempt,    \* Main's attempt in the round
  waiting,    \* Main awaits the Subs of the round
  causes,     \* what Main's next attempt is caused by
  events,     \* the fact stream
  rounds,     \* accepted delegations: [main : step, subs : the Subs]
  outcomes,   \* Sub completions, in request order
  tools,      \* tool outcomes, in request order
  sub,        \* per Sub: its execution
  committed,  \* the budget ledger: slots in use
  permits     \* the tool semaphore

main == <<limits, status, round, attempt, waiting, causes, events, rounds, outcomes, tools>>
budget == <<committed, permits>>
vars == <<main, sub, budget>>

MaxConcurrency == limits.concurrency
MaxMainRounds == limits.mainRounds
MaxSubTurns == limits.subTurns
MaxSpawnPerRound == limits.spawnPerRound
MaxSpawnPerEpisode == limits.spawnPerEpisode
MaxToolsPerTurn == limits.toolsPerTurn
MainRepairs == limits.mainRepairs
SubRepairs == limits.subRepairs

\* A Sub that was not spawned yet. pc is "none", "generate", "tools" or "done"; calls are
\* the tool calls of the turn, states theirs; known is what its searches discovered.
NewSub ==
  [pc |-> "none", turn |-> 0, attempt |-> 0, causes |-> {}, events |-> <<>>, tools |-> <<>>,
   known |-> {}, calls |-> <<>>, states |-> <<>>, final |-> FailureStep(0), ok |-> FALSE]

TypeOK ==
  /\ limits \in Profiles
  /\ status \in {"running", "success", "failed", "raised"}
  /\ round \in 0 .. MaxMainRounds
  /\ attempt \in 0 .. MainRepairs
  /\ waiting \in BOOLEAN
  /\ causes \subseteq Step
  /\ \A k \in DOMAIN events : events[k].step \in Step /\ events[k].causes \subseteq Step
  /\ \A k \in DOMAIN rounds : rounds[k].main \in Step /\ rounds[k].subs \subseteq Subs
  /\ DOMAIN sub = Subs
  /\ \A n \in Subs :
       /\ sub[n].pc \in {"none", "generate", "tools", "done"}
       /\ sub[n].turn \in 0 .. MaxSubTurns
       /\ sub[n].attempt \in 0 .. SubRepairs
       /\ Len(sub[n].calls) <= MaxToolsPerTurn
  /\ committed \subseteq Step
  /\ permits \in 0 .. MaxConcurrency

Init ==
  /\ limits \in Profiles
  /\ status = "running"
  /\ round = 0
  /\ attempt = 0
  /\ waiting = FALSE
  /\ causes = {}
  /\ events = <<>>
  /\ rounds = <<>>
  /\ outcomes = <<>>
  /\ tools = <<>>
  /\ sub = [n \in Subs |-> NewSub]
  /\ committed = {}
  /\ permits = MaxConcurrency

-----------------------------------------------------------------------------
(* Main *)

MainTurns ==   \* a truncated answer is an invalid turn
  {[kind |-> "answer"], [kind |-> "invalid"]}
    \cup {[kind |-> "spawn", count |-> k] : k \in 1 .. 4}

Spawned == Len(outcomes)

\* The last round must answer; a round and the episode bound the Subs.
MaySpawn(k) ==
  /\ round < MaxMainRounds - 1
  /\ k <= MaxSpawnPerRound
  /\ k <= MaxSpawnPerEpisode - Spawned

Accepted(turn) ==
  \/ turn.kind = "answer"
  \/ turn.kind = "spawn" /\ MaySpawn(turn.count)

\* A generation of Main that was answered: the turn becomes an event, whether it is
\* accepted or not. After an invalid one Main repairs it, as long as it may.
MainTurn ==
  /\ status = "running"
  /\ ~waiting
  /\ \E turn \in MainTurns :
       LET step == MainStep(round, attempt) IN
       /\ events' = Append(events, Event(step, causes))
       /\ CASE turn.kind = "answer" ->
                 status' = "success" /\ UNCHANGED <<attempt, waiting, causes, rounds, sub>>
            [] turn.kind = "spawn" /\ Accepted(turn) ->
                 LET chosen == (Spawned + 1) .. (Spawned + turn.count) IN
                 /\ waiting' = TRUE
                 /\ causes' = {step}
                 /\ rounds' = Append(rounds, [main |-> step, subs |-> chosen])
                 /\ sub' = [n \in Subs |->
                              IF n \in chosen
                              THEN [NewSub EXCEPT !.pc = "generate", !.causes = {step}]
                              ELSE sub[n]]
                 /\ UNCHANGED <<status, attempt>>
            [] OTHER ->
                 /\ UNCHANGED <<waiting, rounds, sub>>
                 /\ IF attempt < MainRepairs
                    THEN /\ attempt' = attempt + 1
                         /\ causes' = (causes \ {MainStep(round, attempt - 1)}) \cup {step}
                         /\ UNCHANGED status
                    ELSE status' = "failed" /\ UNCHANGED <<attempt, causes>>
  /\ UNCHANGED <<limits, round, outcomes, tools, budget>>

\* Main's generation raised: the rollout is lost.
MainRaises ==
  /\ status = "running"
  /\ ~waiting
  /\ status' = "raised"
  /\ UNCHANGED <<limits, round, attempt, waiting, causes, events, rounds, outcomes, tools, sub,
                 budget>>

RoundSubs == Last(rounds).subs

SucceededSubs == {n \in RoundSubs : sub[n].ok}

\* The executions of the round are merged in request order, failed ones included.
MergedSubs == RoundSubs

NewestFirst(S) == CHOOSE s \in SetToSeqs(S) : \A i, j \in DOMAIN s : i < j => s[i] > s[j]

InOrder(S) == CHOOSE s \in SetToSeqs(S) : \A i, j \in DOMAIN s : i < j => s[i] < s[j]

Joined(S, field(_)) == FlattenSeq([k \in DOMAIN InOrder(S) |-> field(InOrder(S)[k])])

\* All the Subs of the round completed.
Merge ==
  /\ status = "running"
  /\ waiting
  /\ \A n \in RoundSubs : sub[n].pc = "done"
  /\ LET eventsOf(n) == sub[n].events
         toolsOf(n) == sub[n].tools
         outcomeOf(n) == <<[agent |-> n, ok |-> sub[n].ok]>>
     IN
     /\ events' = events \o Joined(MergedSubs, eventsOf)
     /\ tools' = tools \o Joined(MergedSubs, toolsOf)
     /\ outcomes' = outcomes \o Joined(MergedSubs, outcomeOf)
  /\ causes' = causes \cup {sub[n].final : n \in MergedSubs}
  /\ round' = round + 1
  /\ attempt' = 0
  /\ waiting' = FALSE
  /\ status' = IF round + 1 = MaxMainRounds THEN "failed" ELSE status
  /\ UNCHANGED <<limits, rounds, sub, budget>>

-----------------------------------------------------------------------------
(* Subs *)

SubTurns ==   \* a truncated summary is an invalid turn
  {[kind |-> "summary"], [kind |-> "invalid"]}
    \cup {[kind |-> "tools", calls |-> c] : c \in UNION {[1 .. k -> Calls] : k \in 1 .. 3}}

\* _failed_sub: the failure is an event of its own, caused by the last one.
FailedSub(s, n) ==
  LET cause == IF s.events = <<>> THEN s.causes ELSE {Last(s.events).step} IN
  [s EXCEPT !.pc = "done",
            !.events = Append(@, Event(FailureStep(n), cause)),
            !.final = FailureStep(n)]

OnceTooOften(s) == s.attempt <= SubRepairs

MayRepair(s) == s.attempt < SubRepairs

KnownAlways(s, call) == TRUE

\* An address can be accessed when a search of an earlier turn of the Sub returned it.
Known(s, call) == call.name = "search" \/ \E k \in s.known : k.url = call.url

\* The calls of an accepted turn; an access that is refused has failed before it ran.
CallStates(s, calls) ==
  [i \in DOMAIN calls |-> IF Known(s, calls[i]) THEN "waiting" ELSE "failed"]

\* A Sub's generation was answered.
SubTurn(n) ==
  /\ sub[n].pc = "generate"
  /\ \E turn \in SubTurns :
       LET step == SubStep(n, sub[n].turn, sub[n].attempt)
           s == [sub[n] EXCEPT !.events = Append(@, Event(step, sub[n].causes))]
       IN
       sub' = [sub EXCEPT ![n] =
                 CASE turn.kind = "summary" ->
                        [s EXCEPT !.pc = "done", !.final = step, !.ok = TRUE]
                   [] turn.kind = "tools" /\ Len(turn.calls) <= MaxToolsPerTurn ->
                        [s EXCEPT !.pc = "tools", !.causes = {step}, !.calls = turn.calls,
                                  !.states = CallStates(sub[n], turn.calls)]
                   [] OTHER ->
                        IF MayRepair(s)
                        THEN [s EXCEPT !.attempt = @ + 1, !.causes = @ \cup {step}]
                        ELSE FailedSub(s, n)]
  /\ UNCHANGED <<main, budget>>

\* A Sub's generation raised: whatever it was, the Sub has failed.
SubRaises(n) ==
  /\ sub[n].pc = "generate"
  /\ sub' = [sub EXCEPT ![n] = FailedSub(sub[n], n)]
  /\ UNCHANGED <<main, budget>>

StepOf(n, i) == ToolStep(n, sub[n].turn, i, sub[n].calls[i])

\* reserve raises.
Refused(step) == step \in committed \/ Cardinality(committed) >= MaxConcurrency

\* A call gets a permit of the semaphore and a slot of the ledger.
StartTool(n, i) ==
  /\ sub[n].pc = "tools"
  /\ i \in DOMAIN sub[n].calls
  /\ sub[n].states[i] = "waiting"
  /\ permits > 0
  /\ ~Refused(StepOf(n, i))
  /\ permits' = permits - 1
  /\ committed' = committed \cup {StepOf(n, i)}
  /\ sub' = [sub EXCEPT ![n].states[i] = "running"]
  /\ UNCHANGED main

KeptWhenFailed(step, outcome) == IF outcome = "failed" THEN committed ELSE committed \ {step}

Released(step, outcome) == committed \ {step}

PermitLost(outcome) == IF outcome = "failed" THEN permits ELSE permits + 1

PermitsAfter(outcome) == permits + 1

\* The tool answered or raised; slot and permit are given back in either case.
EndTool(n, i) ==
  /\ sub[n].pc = "tools"
  /\ i \in DOMAIN sub[n].calls
  /\ sub[n].states[i] = "running"
  /\ \E outcome \in {"success", "failed"} :
       /\ sub' = [sub EXCEPT ![n].states[i] = outcome]
       /\ committed' = Released(StepOf(n, i), outcome)
       /\ permits' = PermitsAfter(outcome)
  /\ UNCHANGED main

\* What the turn's calls add to the Sub's record: their events and outcomes in request
\* order, a successful access with a search that had returned the address.
ToolEvents(s, n) ==
  [i \in DOMAIN s.calls |-> Event(ToolStep(n, s.turn, i, s.calls[i]), s.causes)]

ToolOutcomes(s, n) ==
  [i \in DOMAIN s.calls |->
     [step |-> ToolStep(n, s.turn, i, s.calls[i]),
      ok |-> s.states[i] = "success",
      source |-> {k.step : k \in {k \in s.known : k.url = s.calls[i].url}}]]

\* The last search that returned an address is its source.
Discovered(s, n, found) ==
  LET searches == {i \in DOMAIN s.calls : s.calls[i].name = "search"
                                          /\ s.states[i] = "success"}
      newest(u) == {i \in searches : u \in found[i]
                                     /\ \A j \in searches : u \in found[j] => j <= i}
      new == {[url |-> p[1], step |-> ToolStep(n, s.turn, p[2], s.calls[p[2]])] :
                p \in {q \in Urls \X searches : q[2] \in newest(q[1])}}
  IN new \cup {k \in s.known : \A d \in new : d.url # k.url}

\* The calls of the turn ended: the Sub goes on with its next turn, if it may.
EndTurn(n) ==
  LET s == sub[n] IN
  /\ s.pc = "tools"
  /\ \A i \in DOMAIN s.states : s.states[i] \in {"success", "failed"}
  /\ \E found \in [DOMAIN s.calls -> SUBSET Urls] :
       LET after == [pc |-> "generate", turn |-> s.turn + 1, attempt |-> 0,
                     causes |-> {e.step : e \in ToSet(ToolEvents(s, n))},
                     events |-> s.events \o ToolEvents(s, n),
                     tools |-> s.tools \o ToolOutcomes(s, n),
                     known |-> Discovered(s, n, found),
                     calls |-> <<>>, states |-> <<>>, final |-> s.final, ok |-> s.ok]
       IN sub' = [sub EXCEPT ![n] =
                    IF after.turn = MaxSubTurns THEN FailedSub(after, n) ELSE after]
  /\ UNCHANGED <<main, budget>>

-----------------------------------------------------------------------------
MainNext == MainTurn \/ MainRaises \/ Merge

SubNext(n) ==
  \/ SubTurn(n)
  \/ SubRaises(n)
  \/ \E i \in Places : StartTool(n, i) \/ EndTool(n, i)
  \/ EndTurn(n)

Next ==
  \/ MainNext
  \/ \E n \in Subs : SubNext(n)

Spec == Init /\ [][Next]_vars

\* Policies and tools answer or raise, and a free permit goes to a waiting call.
Fairness ==
  /\ WF_vars(MainNext)
  /\ \A n \in Subs : WF_vars(SubNext(n))
  /\ \A n \in Subs, i \in Places : SF_vars(StartTool(n, i))

FairSpec == Spec /\ Fairness

-----------------------------------------------------------------------------
(* Properties *)

Returned == status \in {"success", "failed"}

PlaceOf(step) == CHOOSE k \in DOMAIN events : events[k].step = step

Steps == {e.step : e \in ToSet(events)}

\* The trace passes its own validation, whatever failed on the way: steps are unique,
\* causes lie in the past, and each Sub that was spawned has an outcome
\* (trace_must_be_internally_consistent; a trace that does not pass loses the rollout).
TraceConsistent ==
  Returned =>
    /\ \A j, k \in DOMAIN events : events[j].step = events[k].step => j = k
    /\ \A k \in DOMAIN events : \A c \in events[k].causes :
         c \in Steps /\ PlaceOf(c) < k
    /\ Cardinality(UNION {r.subs : r \in ToSet(rounds)}) = Len(outcomes)
    /\ {r.main : r \in ToSet(rounds)} \subseteq Steps
    /\ {t.step : t \in ToSet(tools)} \subseteq Steps

\* The fact stream lists Main's turns and the Subs in request order, the facts of one Sub
\* together, however the Subs interleaved: what the order says is what Main read.
RequestOrder ==
  /\ \A k \in DOMAIN outcomes : outcomes[k].agent = k
  /\ \A j, k \in DOMAIN events :
       LET a == events[j].step.agent
           b == events[k].step.agent
       IN j < k /\ a # 0 /\ b # 0 => a <= b

\* A successful access has one source: a search of an earlier turn of the same Sub.
AccessesDiscovered ==
  \A k \in DOMAIN tools :
    tools[k].step.kind = "access" /\ tools[k].ok =>
      /\ Cardinality(tools[k].source) = 1
      /\ \A s \in tools[k].source :
        /\ s.kind = "search"
        /\ s.agent = tools[k].step.agent
        /\ s.turn < tools[k].step.turn
        /\ Returned => PlaceOf(s) < PlaceOf(tools[k].step)

\* The trace an episode leaves is the one its batch is built from: accepted by its validator,
\* in the order of the requests, and with a source for whatever was accessed, however the
\* Subs and their calls interleaved and failed (wideseek_episode.py, run, _run_sub).
TraceSound == TraceConsistent /\ RequestOrder /\ AccessesDiscovered

\* The ledger never refuses a call that holds a permit: slots and permits go together,
\* and all of them are back when the trace is returned.
BudgetKept ==
  /\ Cardinality(committed) + permits = MaxConcurrency
  /\ \A n \in Subs : \A i \in DOMAIN sub[n].calls :
       sub[n].states[i] = "waiting" /\ permits > 0 => ~Refused(StepOf(n, i))
  /\ Returned => committed = {}

\* Main delegates within its limits and never in its last round.
SpawnsBounded ==
  /\ Len(rounds) < MaxMainRounds
  /\ \A k \in DOMAIN rounds : Cardinality(rounds[k].subs) <= MaxSpawnPerRound
  /\ Cardinality(UNION {r.subs : r \in ToSet(rounds)}) <= MaxSpawnPerEpisode

\* Both kinds of limits of an episode (budget.py; wideseek_episode.py, _generate_main_turn).
LimitsKept == BudgetKept /\ SpawnsBounded

\* An episode ends, whatever the models say and the tools do.
EpisodeEnds == <>(status # "running")

=============================================================================
