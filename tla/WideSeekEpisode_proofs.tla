------------------------ MODULE WideSeekEpisode_proofs -------------------------
(***************************************************************************)
(* Proofs about the WideSeek episode, for every set of addresses and every *)
(* limits: its state is typed, slots and permits of the tool budget go     *)
(* together and come back, Main delegates within its limits, and the trace *)
(* is one its validator accepts.                                           *)
(***************************************************************************)
EXTENDS WideSeekEpisode, FiniteSetTheorems, SequenceTheorems, TLAPS

-----------------------------------------------------------------------------
(* The inductive invariant: types and limits                                 *)

Events == [step : Step, causes : SUBSET Step]

ToolRecords == [step : Step, ok : BOOLEAN, source : SUBSET Step]

Discoveries == [url : Urls, step : Step]

CallRecords == [name : {"search", "access"}, url : Urls \cup {"none"}]

Executions ==
  [pc : {"none", "generate", "tools", "done"}, turn : Nat, attempt : Nat,
   causes : SUBSET Step, events : Seq(Events), tools : Seq(ToolRecords),
   known : SUBSET Discoveries, calls : Seq(CallRecords),
   states : Seq({"waiting", "running", "success", "failed"}), final : Step, ok : BOOLEAN]

Typed ==
  /\ limits \in Profiles
  /\ status \in {"running", "success", "failed", "raised"}
  /\ round \in Nat /\ attempt \in Nat
  /\ waiting \in BOOLEAN
  /\ causes \subseteq Step
  /\ events \in Seq(Events)
  /\ rounds \in Seq([main : Step, subs : SUBSET Subs])
  /\ outcomes \in Seq([agent : Subs, ok : BOOLEAN])
  /\ tools \in Seq(ToolRecords)
  /\ sub \in [Subs -> Executions]
  /\ committed \subseteq Step
  /\ permits \in Nat

\* A Sub is within its limits, and makes tool calls only in a turn that asked for them.
Fits(s) ==
  /\ s.attempt <= SubRepairs
  /\ s.turn <= MaxSubTurns
  /\ s.pc \in {"generate", "tools"} => s.turn < MaxSubTurns
  /\ Len(s.calls) <= MaxToolsPerTurn
  /\ Len(s.states) = Len(s.calls)
  /\ s.pc # "tools" => s.calls = <<>>

\* Main answers in its last round at the latest, and waits only while the episode runs.
Limited ==
  /\ attempt <= MainRepairs
  /\ round < MaxMainRounds
  /\ waiting => round + 1 < MaxMainRounds /\ status = "running"
  /\ Len(rounds) = IF waiting THEN round + 1 ELSE round
  /\ \A n \in Subs : Fits(sub[n])

\* The next k Subs.
Following(k) == (Len(outcomes) + 1) .. (Len(outcomes) + k)

\* The Subs Main waits for.
Awaited == IF waiting THEN RoundSubs ELSE {}

\* The Subs were spawned in the order of their numbers; those of earlier rounds are done.
Delegated ==
  /\ Len(outcomes) <= MaxSpawnPerEpisode
  /\ waiting => \E k \in 1 .. 4 : /\ k <= MaxSpawnPerRound
                                  /\ Len(outcomes) + k <= MaxSpawnPerEpisode
                                  /\ RoundSubs = Following(k)
  /\ \A k \in DOMAIN rounds :
       /\ IsFiniteSet(rounds[k].subs)
       /\ Cardinality(rounds[k].subs) <= MaxSpawnPerRound
  /\ UNION {r.subs : r \in ToSet(rounds)} = (1 .. Len(outcomes)) \cup Awaited
  /\ \A n \in Subs : /\ n <= Len(outcomes) => sub[n].pc = "done"
                     /\ n \in Awaited => sub[n].pc # "none"
                     /\ n > Len(outcomes) /\ n \notin Awaited => sub[n].pc = "none"

\* The tool calls that hold a slot.
Running == {t \in Subs \X Places : /\ t[2] \in DOMAIN sub[t[1]].states
                                   /\ sub[t[1]].states[t[2]] = "running"}

\* Every running call, and no other, has a slot, and a permit each.
Budgeted ==
  /\ committed = {StepOf(t[1], t[2]) : t \in Running}
  /\ IsFiniteSet(committed)
  /\ Cardinality(committed) + permits = MaxConcurrency

AInv == Typed /\ Limited /\ Delegated /\ Budgeted

-----------------------------------------------------------------------------
(* Lemmas: limits, places, names                                             *)

\* The limits of the episode are numbers.
LEMMA LimitsTyped ==
  ASSUME limits \in Profiles
  PROVE  /\ MaxConcurrency \in Nat \ {0} /\ MaxMainRounds \in Nat \ {0}
         /\ MaxSubTurns \in Nat \ {0} /\ MaxSpawnPerRound \in 1 .. 4
         /\ MaxSpawnPerEpisode \in Nat \ {0} /\ MaxToolsPerTurn \in 1 .. 3
         /\ MainRepairs \in Nat /\ SubRepairs \in Nat
BY EpisodeAssumption
   DEF Limits, MaxConcurrency, MaxMainRounds, MaxSubTurns, MaxSpawnPerRound,
       MaxSpawnPerEpisode, MaxToolsPerTurn, MainRepairs, SubRepairs

\* As long as the episode keeps its limits there are Subs, and places, enough.
LEMMA SubsNumbered ==
  ASSUME limits \in Profiles
  PROVE  /\ \A n \in 1 .. MaxSpawnPerEpisode : n \in Subs
         /\ \A i \in 1 .. MaxToolsPerTurn : i \in Places
BY DEF Subs, Places, MaxSpawnPerEpisode, MaxToolsPerTurn

\* Subs and places are numbers.
LEMMA Numbers == Subs \subseteq Nat \ {0} /\ Places \subseteq Nat \ {0}
<1>1. ASSUME NEW p \in Profiles PROVE p.spawnPerEpisode \in Nat /\ p.toolsPerTurn \in 1 .. 3
  BY EpisodeAssumption DEF Limits
<1> QED
  BY <1>1 DEF Subs, Places

\* The steps of a Sub are steps, and differ when agent, turn, index or kind do.
LEMMA StepsTyped ==
  /\ \A r, a \in Nat : MainStep(r, a) \in Step
  /\ \A n \in Subs : \A t, a \in Nat : SubStep(n, t, a) \in Step
  /\ \A n \in Subs : \A t, i \in Nat : \A call \in CallRecords : ToolStep(n, t, i, call) \in Step
  /\ \A n \in Subs \cup {0} : FailureStep(n) \in Step
BY DEF Step, MainStep, SubStep, ToolStep, FailureStep, CallRecords

\* A Sub that was not spawned yet is within every limits.
LEMMA NewSubTyped == NewSub \in Executions /\ (limits \in Profiles => Fits(NewSub))
<1>1. FailureStep(0) \in Step
  BY StepsTyped
<1>2. NewSub \in Executions
  BY <1>1 DEF NewSub, Executions
<1>3. ASSUME limits \in Profiles PROVE Fits(NewSub)
  BY <1>3, LimitsTyped DEF Fits, NewSub
<1> QED
  BY <1>2, <1>3

\* The invariant holds at the start.
LEMMA AInit == Init => AInv
<1> SUFFICES ASSUME Init PROVE AInv
  OBVIOUS
<1>1. limits \in Profiles
  BY DEF Init
<1>2. Typed
  <2>1. sub \in [Subs -> Executions]
    BY NewSubTyped DEF Init
  <2>2. permits \in Nat
    BY <1>1, LimitsTyped DEF Init
  <2>3. /\ status = "running" /\ round = 0 /\ attempt = 0 /\ waiting = FALSE /\ causes = {}
        /\ events = <<>> /\ rounds = <<>> /\ outcomes = <<>> /\ tools = <<>> /\ committed = {}
    BY DEF Init
  <2>4. /\ events \in Seq(Events) /\ tools \in Seq(ToolRecords)
        /\ rounds \in Seq([main : Step, subs : SUBSET Subs])
        /\ outcomes \in Seq([agent : Subs, ok : BOOLEAN])
    BY <2>3
  <2> QED
    BY <1>1, <2>1, <2>2, <2>3, <2>4 DEF Typed
<1>3. Limited
  BY <1>1, NewSubTyped, LimitsTyped DEF Init, Limited
<1>4. Delegated
  <2>1. Len(outcomes) = 0 /\ DOMAIN rounds = {} /\ ToSet(rounds) = {} /\ Awaited = {}
    BY DEF Init, ToSet, Awaited
  <2>2. \A n \in Subs : n \in Nat /\ n > 0 /\ sub[n].pc = "none"
    BY Numbers DEF Init, NewSub
  <2>3. Len(outcomes) <= MaxSpawnPerEpisode
    BY <2>1, <1>1, LimitsTyped
  <2>4. UNION {r.subs : r \in ToSet(rounds)} = (1 .. Len(outcomes)) \cup Awaited
    BY <2>1
  <2>5. ~waiting
    BY DEF Init
  <2> QED
    BY <2>1, <2>2, <2>3, <2>4, <2>5 DEF Delegated
<1>5. Budgeted
  <2>1. Running = {}
    BY DEF Init, NewSub, Running
  <2> QED
    BY <2>1, <1>1, FS_EmptySet, LimitsTyped DEF Init, Budgeted
<1> QED
  BY <1>2, <1>3, <1>4, <1>5 DEF AInv

-----------------------------------------------------------------------------
(* Subs: a step of one of them                                               *)

\* A Sub that is at work is one that Main waits for.
LEMMA AtWork ==
  ASSUME AInv, NEW n \in Subs, sub[n].pc \in {"generate", "tools"}
  PROVE  n \in Awaited /\ waiting /\ n \in Nat /\ n > Len(outcomes)
<1>1. n \in Nat /\ Len(outcomes) \in Nat
  BY Numbers DEF AInv, Typed
<1>2. n > Len(outcomes) /\ n \in Awaited
  BY <1>1 DEF AInv, Delegated
<1> QED
  BY <1>1, <1>2 DEF Awaited

\* The parts of the invariant that a step of a Sub cannot disturb but through its record.
LEMMA SubReplaced ==
  ASSUME AInv, NEW n \in Subs, sub[n].pc \in {"generate", "tools"},
         NEW s \in Executions, Fits(s), s.pc # "none",
         sub' = [sub EXCEPT ![n] = s], UNCHANGED main
  PROVE  /\ (sub \in [Subs -> Executions])'
         /\ Limited' /\ Delegated'
<1>1. n \in Awaited /\ waiting /\ n \in Nat /\ n > Len(outcomes)
  BY AtWork
<1>2. sub \in [Subs -> Executions]
  BY DEF AInv, Typed
<1>3. (sub \in [Subs -> Executions])'
  BY <1>2
<1>4. UNCHANGED <<limits, status, round, attempt, waiting, causes, events, rounds, outcomes,
                  tools>>
  BY DEF main
<1>5. \A m \in Subs : sub'[m] = IF m = n THEN s ELSE sub[m]
  BY <1>2
<1>6. Limited'
  <2>1. \A m \in Subs : Fits(sub'[m])
    BY <1>5 DEF AInv, Limited
  <2>2. \A m \in Subs : Fits(sub[m])'
    BY <2>1, <1>4 DEF Fits, SubRepairs, MaxSubTurns, MaxToolsPerTurn
  <2> QED
    BY <2>2, <1>4 DEF AInv, Limited, MainRepairs, MaxMainRounds
<1>7. Delegated'
  <2>1. RoundSubs' = RoundSubs /\ Awaited' = Awaited
    BY <1>4 DEF RoundSubs, Awaited
  <2>2. /\ MaxSpawnPerEpisode' = MaxSpawnPerEpisode /\ MaxSpawnPerRound' = MaxSpawnPerRound
        /\ \A k : Following(k)' = Following(k)
    BY <1>4 DEF MaxSpawnPerEpisode, MaxSpawnPerRound, Following
  <2>3. Len(outcomes) \in Nat
    BY DEF AInv, Typed
  <2>4. \A m \in Subs : /\ m <= Len(outcomes) => sub'[m].pc = "done"
                        /\ m \in Awaited => sub'[m].pc # "none"
                        /\ m > Len(outcomes) /\ m \notin Awaited => sub'[m].pc = "none"
    BY <1>1, <1>5, <2>3 DEF AInv, Delegated
  <2> QED
    BY <1>4, <2>1, <2>2, <2>4 DEF AInv, Delegated
<1> QED
  BY <1>3, <1>6, <1>7

\* A turn that holds no slots before and after it leaves the budget alone.
LEMMA TurnKeepsBudget ==
  ASSUME AInv, NEW n \in Subs, NEW s \in Executions,
         \A i \in DOMAIN sub[n].states : sub[n].states[i] # "running",
         \A i \in DOMAIN s.states : s.states[i] # "running",
         sub' = [sub EXCEPT ![n] = s], UNCHANGED <<main, budget>>
  PROVE  Budgeted'
<1>1. sub \in [Subs -> Executions]
  BY DEF AInv, Typed
<1>2. \A m \in Subs : sub'[m] = IF m = n THEN s ELSE sub[m]
  BY <1>1
<1>3. Running' = Running
  BY <1>2 DEF Running
<1>4. \A t \in Running : StepOf(t[1], t[2])' = StepOf(t[1], t[2])
  BY <1>2 DEF Running, StepOf
<1>5. {StepOf(t[1], t[2]) : t \in Running}' = {StepOf(t[1], t[2]) : t \in Running}
  BY <1>3, <1>4
<1>6. committed' = committed /\ permits' = permits /\ MaxConcurrency' = MaxConcurrency
  BY DEF budget, main, MaxConcurrency
<1> QED
  BY <1>5, <1>6 DEF AInv, Budgeted

\* The two together.
LEMMA TurnKeeps ==
  ASSUME AInv, NEW n \in Subs, sub[n].pc \in {"generate", "tools"},
         NEW s \in Executions, Fits(s), s.pc # "none",
         \A i \in DOMAIN sub[n].states : sub[n].states[i] # "running",
         \A i \in DOMAIN s.states : s.states[i] # "running",
         sub' = [sub EXCEPT ![n] = s], UNCHANGED <<main, budget>>
  PROVE  AInv'
<1>1. (sub \in [Subs -> Executions])' /\ Limited' /\ Delegated'
  BY SubReplaced
<1>2. Budgeted'
  BY TurnKeepsBudget
<1>3. Typed'
  BY <1>1 DEF main, budget, AInv, Typed
<1> QED
  BY <1>1, <1>2, <1>3 DEF AInv

\* A Sub that generates has no calls.
LEMMA Generating ==
  ASSUME AInv, NEW n \in Subs, sub[n].pc = "generate"
  PROVE  sub[n].calls = <<>> /\ sub[n].states = <<>> /\ sub[n].turn < MaxSubTurns
<1>1. sub[n] \in Executions /\ Fits(sub[n])
  BY DEF AInv, Typed, Limited
<1>2. sub[n].states \in Seq({"waiting", "running", "success", "failed"})
  BY <1>1 DEF Executions
<1>3. sub[n].calls = <<>> /\ Len(sub[n].states) = 0 /\ sub[n].turn < MaxSubTurns
  BY <1>1 DEF Fits
<1> QED
  BY <1>2, <1>3

\* What a failed Sub is left as, in full.
LEMMA FailedIs ==
  ASSUME NEW n \in Subs, NEW s \in Executions
  PROVE  \E cause \in SUBSET Step :
           /\ cause = (IF s.events = <<>> THEN s.causes ELSE {Last(s.events).step})
           /\ FailedSub(s, n) =
                [pc |-> "done", turn |-> s.turn, attempt |-> s.attempt, causes |-> s.causes,
                 events |-> Append(s.events, Event(FailureStep(n), cause)), tools |-> s.tools,
                 known |-> s.known, calls |-> s.calls, states |-> s.states,
                 final |-> FailureStep(n), ok |-> s.ok]
           /\ FailedSub(s, n) \in Executions
<1> DEFINE cause == IF s.events = <<>> THEN s.causes ELSE {Last(s.events).step}
<1>1. cause \in SUBSET Step
  <2>1. CASE s.events = <<>>
    BY <2>1 DEF Executions
  <2>2. CASE s.events # <<>>
    <3>1. s.events \in Seq(Events) /\ Len(s.events) > 0
      BY <2>2 DEF Executions
    <3>2. s.events[Len(s.events)] \in Events
      BY <3>1
    <3> QED
      BY <2>2, <3>2 DEF Last, Events
  <2> QED
    BY <2>1, <2>2
<1>2. FailedSub(s, n) =
        [pc |-> "done", turn |-> s.turn, attempt |-> s.attempt, causes |-> s.causes,
         events |-> Append(s.events, Event(FailureStep(n), cause)), tools |-> s.tools,
         known |-> s.known, calls |-> s.calls, states |-> s.states,
         final |-> FailureStep(n), ok |-> s.ok]
  <2>1. s = [pc |-> s.pc, turn |-> s.turn, attempt |-> s.attempt, causes |-> s.causes,
             events |-> s.events, tools |-> s.tools, known |-> s.known, calls |-> s.calls,
             states |-> s.states, final |-> s.final, ok |-> s.ok]
    BY DEF Executions
  <2>2. FailedSub(s, n) = [s EXCEPT !.pc = "done",
                                    !.events = Append(s.events, Event(FailureStep(n), cause)),
                                    !.final = FailureStep(n)]
    BY DEF FailedSub
  <2> HIDE DEF cause
  <2> QED
    BY <2>1, <2>2
<1>3. Append(s.events, Event(FailureStep(n), cause)) \in Seq(Events)
  BY <1>1, StepsTyped DEF Event, Events, Executions
<1> HIDE DEF cause
<1>4. FailedSub(s, n) \in Executions
  BY <1>2, <1>3, StepsTyped DEF Executions
<1> QED
  BY <1>1, <1>2, <1>4 DEF cause

\* A generation that raises ends its Sub.
LEMMA SubRaisesKeeps ==
  ASSUME AInv, NEW n \in Subs, SubRaises(n)
  PROVE  AInv'
<1>1. sub[n].pc = "generate" /\ UNCHANGED <<main, budget>>
  BY DEF SubRaises
<1>2. sub[n] \in Executions /\ Fits(sub[n])
  BY DEF AInv, Typed, Limited
<1> DEFINE s == FailedSub(sub[n], n)
<1>3. s \in Executions
  BY <1>2, FailedIs
<1>4. /\ s.pc = "done" /\ s.turn = sub[n].turn /\ s.attempt = sub[n].attempt
      /\ s.calls = sub[n].calls /\ s.states = sub[n].states
  BY <1>2, FailedIs
<1>5. sub' = [sub EXCEPT ![n] = s]
  BY DEF SubRaises
<1> HIDE DEF s
<1>6. sub[n].calls = <<>> /\ sub[n].states = <<>>
  BY <1>1, Generating
<1>7. Fits(s) /\ s.pc # "none"
  BY <1>2, <1>4, <1>6 DEF Fits
<1>8. /\ \A i \in DOMAIN sub[n].states : sub[n].states[i] # "running"
      /\ \A i \in DOMAIN s.states : s.states[i] # "running"
  BY <1>4, <1>6
<1>9. sub[n].pc \in {"generate", "tools"}
  BY <1>1
<1> QED
  BY <1>1, <1>3, <1>5, <1>7, <1>8, <1>9, TurnKeeps

-----------------------------------------------------------------------------
(* Subs: their turns                                                         *)

\* A record of an execution has its fields and no others.
LEMMA Explicit ==
  ASSUME NEW s \in Executions
  PROVE  s = [pc |-> s.pc, turn |-> s.turn, attempt |-> s.attempt, causes |-> s.causes,
              events |-> s.events, tools |-> s.tools, known |-> s.known, calls |-> s.calls,
              states |-> s.states, final |-> s.final, ok |-> s.ok]
BY DEF Executions

\* The step of a Sub's generation, and what the Sub has said with it.
Now(n) == SubStep(n, sub[n].turn, sub[n].attempt)

Said(n) == Append(sub[n].events, Event(Now(n), sub[n].causes))

Spoken(n) ==
  [pc |-> sub[n].pc, turn |-> sub[n].turn, attempt |-> sub[n].attempt,
   causes |-> sub[n].causes, events |-> Said(n), tools |-> sub[n].tools,
   known |-> sub[n].known, calls |-> sub[n].calls, states |-> sub[n].states,
   final |-> sub[n].final, ok |-> sub[n].ok]

Summarized(n) ==
  [pc |-> "done", turn |-> sub[n].turn, attempt |-> sub[n].attempt,
   causes |-> sub[n].causes, events |-> Said(n), tools |-> sub[n].tools,
   known |-> sub[n].known, calls |-> sub[n].calls, states |-> sub[n].states,
   final |-> Now(n), ok |-> TRUE]

Calling(n, calls) ==
  [pc |-> "tools", turn |-> sub[n].turn, attempt |-> sub[n].attempt,
   causes |-> {Now(n)}, events |-> Said(n), tools |-> sub[n].tools,
   known |-> sub[n].known, calls |-> calls, states |-> CallStates(sub[n], calls),
   final |-> sub[n].final, ok |-> sub[n].ok]

Repairing(n) ==
  [pc |-> sub[n].pc, turn |-> sub[n].turn, attempt |-> sub[n].attempt + 1,
   causes |-> sub[n].causes \cup {Now(n)}, events |-> Said(n), tools |-> sub[n].tools,
   known |-> sub[n].known, calls |-> sub[n].calls, states |-> sub[n].states,
   final |-> sub[n].final, ok |-> sub[n].ok]

\* A turn that makes calls is a sequence of them.
LEMMA CallsTyped ==
  ASSUME NEW turn \in SubTurns, turn.kind = "tools"
  PROVE  turn.calls \in Seq(CallRecords)
<1> DEFINE Tuples == UNION {[1 .. k -> Calls] : k \in 1 .. 3}
<1>1. \A c \in Tuples : \E k \in 1 .. 3 : c \in [1 .. k -> Calls]
  BY Zenon
<1>2. Calls \subseteq CallRecords
  BY DEF Calls, SearchCall, AccessCall, CallRecords
<1>3. ASSUME NEW c \in Tuples PROVE c \in Seq(CallRecords)
  <2>1. PICK k \in 1 .. 3 : c \in [1 .. k -> Calls]
    BY <1>1
  <2>2. k \in Nat /\ c \in [1 .. k -> CallRecords]
    BY <1>2, <2>1
  <2> QED
    BY <2>2
<1>4. SubTurns = {[kind |-> "summary"], [kind |-> "invalid"]}
                   \cup {[kind |-> "tools", calls |-> c] : c \in Tuples}
  BY Zenon DEF SubTurns
<1> HIDE DEF Tuples
<1>5. PICK c \in Tuples : turn = [kind |-> "tools", calls |-> c]
  BY <1>4
<1> QED
  BY <1>3, <1>5

\* A generation that was answered: a summary, tool calls, another attempt, or the end.
LEMMA SubTurnIs ==
  ASSUME AInv, NEW n \in Subs, SubTurn(n)
  PROVE  /\ sub[n].pc = "generate" /\ UNCHANGED <<main, budget>>
         /\ Spoken(n) \in Executions
         /\ \/ sub' = [sub EXCEPT ![n] = Summarized(n)]
            \/ \E calls \in Seq(CallRecords) :
                 /\ Len(calls) <= MaxToolsPerTurn
                 /\ sub' = [sub EXCEPT ![n] = Calling(n, calls)]
            \/ /\ sub[n].attempt < SubRepairs
               /\ sub' = [sub EXCEPT ![n] = Repairing(n)]
            \/ sub' = [sub EXCEPT ![n] = FailedSub(Spoken(n), n)]
<1>1. sub[n].pc = "generate" /\ UNCHANGED <<main, budget>>
  BY DEF SubTurn
<1>2. sub[n] \in Executions
  BY DEF AInv, Typed
<1>3. Now(n) \in Step
  BY <1>2, StepsTyped DEF Now, Executions
<1>4. Said(n) \in Seq(Events)
  BY <1>2, <1>3 DEF Said, Event, Events, Executions
<1>5. Spoken(n) \in Executions
  BY <1>2, <1>4 DEF Spoken, Executions
<1> DEFINE s == [sub[n] EXCEPT !.events = Append(@, Event(Now(n), sub[n].causes))]
<1>6. s = Spoken(n)
  BY <1>2, Explicit DEF Spoken, Said
<1>7. PICK turn \in SubTurns :
        sub' = [sub EXCEPT ![n] =
                 CASE turn.kind = "summary" ->
                        [s EXCEPT !.pc = "done", !.final = Now(n), !.ok = TRUE]
                   [] turn.kind = "tools" /\ Len(turn.calls) <= MaxToolsPerTurn ->
                        [s EXCEPT !.pc = "tools", !.causes = {Now(n)}, !.calls = turn.calls,
                                  !.states = CallStates(sub[n], turn.calls)]
                   [] OTHER ->
                        IF MayRepair(s)
                        THEN [s EXCEPT !.attempt = @ + 1, !.causes = @ \cup {Now(n)}]
                        ELSE FailedSub(s, n)]
  BY DEF SubTurn, Now
<1>11. /\ s \in Executions /\ s.events = Said(n)
       /\ s.pc = sub[n].pc /\ s.turn = sub[n].turn /\ s.attempt = sub[n].attempt
       /\ s.causes = sub[n].causes /\ s.tools = sub[n].tools /\ s.known = sub[n].known
       /\ s.calls = sub[n].calls /\ s.states = sub[n].states /\ s.final = sub[n].final
       /\ s.ok = sub[n].ok
  BY <1>5, <1>6 DEF Spoken
<1> HIDE DEF s
<1>8. CASE turn.kind = "summary"
  <2>1. sub' = [sub EXCEPT ![n] = [s EXCEPT !.pc = "done", !.final = Now(n), !.ok = TRUE]]
    BY <1>7, <1>8
  <2>2. [s EXCEPT !.pc = "done", !.final = Now(n), !.ok = TRUE] = Summarized(n)
    <3> DEFINE r1 == [s EXCEPT !.pc = "done"]
    <3> DEFINE r2 == [r1 EXCEPT !.final = Now(n)]
    <3> DEFINE r3 == [r2 EXCEPT !.ok = TRUE]
    <3>1. [s EXCEPT !.pc = "done", !.final = Now(n), !.ok = TRUE] = r3
      OBVIOUS
    <3>2. /\ r1 = [s EXCEPT !.pc = "done"]
         /\ r2 = [r1 EXCEPT !.final = Now(n)]
         /\ r3 = [r2 EXCEPT !.ok = TRUE]
      OBVIOUS
    <3> HIDE DEF r1, r2, r3
    <3>3. s = [pc |-> s.pc, turn |-> s.turn, attempt |-> s.attempt, causes |-> s.causes,
              events |-> s.events, tools |-> s.tools, known |-> s.known, calls
              |-> s.calls, states |-> s.states, final |-> s.final, ok |-> s.ok]
      BY <1>11, Explicit
    <3>4. r1 = [pc |-> "done", turn |-> s.turn, attempt |-> s.attempt, causes |-> s.causes,
               events |-> s.events, tools |-> s.tools, known |-> s.known,
               calls |-> s.calls, states |-> s.states, final |-> s.final, ok
               |-> s.ok]
      BY <3>2, <3>3
    <3>5. r2 = [pc |-> "done", turn |-> s.turn, attempt |-> s.attempt, causes |-> s.causes,
               events |-> s.events, tools |-> s.tools, known |-> s.known,
               calls |-> s.calls, states |-> s.states, final |-> Now(n), ok
               |-> s.ok]
      BY <3>2, <3>4
    <3>6. r3 = [pc |-> "done", turn |-> s.turn, attempt |-> s.attempt, causes |-> s.causes,
               events |-> s.events, tools |-> s.tools, known |-> s.known,
               calls |-> s.calls, states |-> s.states, final |-> Now(n), ok
               |-> TRUE]
      BY <3>2, <3>5
    <3> QED
      BY <3>1, <3>6, <1>11 DEF Summarized
  <2> QED
    BY <1>1, <1>5, <2>1, <2>2
<1>9. CASE turn.kind = "tools" /\ Len(turn.calls) <= MaxToolsPerTurn
  <2>1. sub' = [sub EXCEPT ![n] =
                  [s EXCEPT !.pc = "tools", !.causes = {Now(n)}, !.calls = turn.calls,
                            !.states = CallStates(sub[n], turn.calls)]]
    BY <1>7, <1>9
  <2>2. [s EXCEPT !.pc = "tools", !.causes = {Now(n)}, !.calls = turn.calls,
                  !.states = CallStates(sub[n], turn.calls)] = Calling(n, turn.calls)
    <3> DEFINE r1 == [s EXCEPT !.pc = "tools"]
    <3> DEFINE r2 == [r1 EXCEPT !.causes = {Now(n)}]
    <3> DEFINE r3 == [r2 EXCEPT !.calls = turn.calls]
    <3> DEFINE r4 == [r3 EXCEPT !.states = CallStates(sub[n], turn.calls)]
    <3>1. [s EXCEPT !.pc = "tools", !.causes = {Now(n)}, !.calls = turn.calls, !.states = CallStates(sub[n], turn.calls)] = r4
      OBVIOUS
    <3>2. /\ r1 = [s EXCEPT !.pc = "tools"]
         /\ r2 = [r1 EXCEPT !.causes = {Now(n)}]
         /\ r3 = [r2 EXCEPT !.calls = turn.calls]
         /\ r4 = [r3 EXCEPT !.states = CallStates(sub[n], turn.calls)]
      OBVIOUS
    <3> HIDE DEF r1, r2, r3, r4
    <3>3. s = [pc |-> s.pc, turn |-> s.turn, attempt |-> s.attempt, causes |-> s.causes,
              events |-> s.events, tools |-> s.tools, known |-> s.known, calls
              |-> s.calls, states |-> s.states, final |-> s.final, ok |-> s.ok]
      BY <1>11, Explicit
    <3>4. r1 = [pc |-> "tools", turn |-> s.turn, attempt |-> s.attempt, causes |-> s.causes,
               events |-> s.events, tools |-> s.tools, known |-> s.known,
               calls |-> s.calls, states |-> s.states, final |-> s.final, ok
               |-> s.ok]
      BY <3>2, <3>3
    <3>5. r2 = [pc |-> "tools", turn |-> s.turn, attempt |-> s.attempt, causes |-> {Now(n)},
               events |-> s.events, tools |-> s.tools, known |-> s.known,
               calls |-> s.calls, states |-> s.states, final |-> s.final, ok
               |-> s.ok]
      BY <3>2, <3>4
    <3>6. r3 = [pc |-> "tools", turn |-> s.turn, attempt |-> s.attempt, causes |-> {Now(n)},
               events |-> s.events, tools |-> s.tools, known |-> s.known,
               calls |-> turn.calls, states |-> s.states, final |-> s.final,
               ok |-> s.ok]
      BY <3>2, <3>5
    <3>7. r4 = [pc |-> "tools", turn |-> s.turn, attempt |-> s.attempt, causes |-> {Now(n)},
               events |-> s.events, tools |-> s.tools, known |-> s.known,
               calls |-> turn.calls, states |-> CallStates(sub[n],
               turn.calls), final |-> s.final, ok |-> s.ok]
      BY <3>2, <3>6
    <3> QED
      BY <3>1, <3>7, <1>11 DEF Calling
  <2>3. turn.calls \in Seq(CallRecords)
    BY <1>9, CallsTyped
  <2> QED
    BY <1>1, <1>5, <1>9, <2>1, <2>2, <2>3
<1>10. CASE /\ turn.kind # "summary"
            /\ ~(turn.kind = "tools" /\ Len(turn.calls) <= MaxToolsPerTurn)
  <2>1. sub' = [sub EXCEPT ![n] = IF MayRepair(s)
                                  THEN [s EXCEPT !.attempt = @ + 1, !.causes = @ \cup {Now(n)}]
                                  ELSE FailedSub(s, n)]
    BY <1>7, <1>10
  <2>2. CASE MayRepair(s)
    <3>1. [s EXCEPT !.attempt = @ + 1, !.causes = @ \cup {Now(n)}] = Repairing(n)
      <4> DEFINE r1 == [s EXCEPT !.attempt = (s.attempt + 1)]
      <4> DEFINE r2 == [r1 EXCEPT !.causes = (s.causes \cup {Now(n)})]
      <4>1. [s EXCEPT !.attempt = (s.attempt + 1), !.causes = (s.causes \cup {Now(n)})] = r2
        OBVIOUS
      <4>2. /\ r1 = [s EXCEPT !.attempt = (s.attempt + 1)]
           /\ r2 = [r1 EXCEPT !.causes = (s.causes \cup {Now(n)})]
        OBVIOUS
      <4> HIDE DEF r1, r2
      <4>3. s = [pc |-> s.pc, turn |-> s.turn, attempt |-> s.attempt, causes |-> s.causes,
                events |-> s.events, tools |-> s.tools, known |-> s.known,
                calls |-> s.calls, states |-> s.states, final |-> s.final, ok
                |-> s.ok]
        BY <1>11, Explicit
      <4>4. r1 = [pc |-> s.pc, turn |-> s.turn, attempt |-> (s.attempt + 1), causes |->
                 s.causes, events |-> s.events, tools |-> s.tools, known |->
                 s.known, calls |-> s.calls, states |-> s.states, final |->
                 s.final, ok |-> s.ok]
        BY <4>2, <4>3
      <4>5. r2 = [pc |-> s.pc, turn |-> s.turn, attempt |-> (s.attempt + 1), causes |->
                 (s.causes \cup {Now(n)}), events |-> s.events, tools |->
                 s.tools, known |-> s.known, calls |-> s.calls, states |->
                 s.states, final |-> s.final, ok |-> s.ok]
        BY <4>2, <4>4
      <4> QED
        BY <4>1, <4>5, <1>11 DEF Repairing
    <3>2. sub[n].attempt < SubRepairs
      BY <1>6, <2>2 DEF MayRepair, Spoken
    <3> QED
      BY <1>1, <1>5, <2>1, <2>2, <3>1, <3>2
  <2>3. CASE ~MayRepair(s)
    BY <1>1, <1>5, <1>6, <2>1, <2>3
  <2> QED
    BY <2>2, <2>3
<1> QED
  BY <1>8, <1>9, <1>10

\* A Sub's turn leaves a typed record within its limits.
LEMMA SubTurnKeeps ==
  ASSUME AInv, NEW n \in Subs, SubTurn(n)
  PROVE  AInv'
<1>1. /\ sub[n].pc = "generate" /\ UNCHANGED <<main, budget>> /\ Spoken(n) \in Executions
      /\ \/ sub' = [sub EXCEPT ![n] = Summarized(n)]
         \/ \E calls \in Seq(CallRecords) :
              /\ Len(calls) <= MaxToolsPerTurn
              /\ sub' = [sub EXCEPT ![n] = Calling(n, calls)]
         \/ /\ sub[n].attempt < SubRepairs
            /\ sub' = [sub EXCEPT ![n] = Repairing(n)]
         \/ sub' = [sub EXCEPT ![n] = FailedSub(Spoken(n), n)]
  BY SubTurnIs
<1>2. sub[n] \in Executions /\ Fits(sub[n])
  BY DEF AInv, Typed, Limited
<1>3. sub[n].calls = <<>> /\ sub[n].states = <<>> /\ sub[n].turn < MaxSubTurns
  BY <1>1, Generating
<1>4. sub[n].pc \in {"generate", "tools"} /\ \A i \in DOMAIN sub[n].states : sub[n].states[i] # "running"
  BY <1>1, <1>3
<1>5. Now(n) \in Step /\ Said(n) \in Seq(Events)
  BY <1>1, <1>2, StepsTyped DEF Now, Spoken, Executions
<1>6. SubRepairs \in Nat /\ MaxSubTurns \in Nat /\ MaxToolsPerTurn \in Nat
  BY LimitsTyped DEF AInv, Typed
<1>7. ASSUME sub' = [sub EXCEPT ![n] = Summarized(n)] PROVE AInv'
  <2>1. Summarized(n) \in Executions
    BY <1>2, <1>5 DEF Summarized, Executions
  <2>2. /\ Fits(Summarized(n)) /\ Summarized(n).pc # "none"
         /\ \A i \in DOMAIN Summarized(n).states : Summarized(n).states[i] # "running"
    BY <1>2, <1>3 DEF Fits, Summarized
  <2> QED
    BY <1>1, <1>4, <1>7, <2>1, <2>2, TurnKeeps
<1>8. ASSUME NEW calls \in Seq(CallRecords), Len(calls) <= MaxToolsPerTurn,
             sub' = [sub EXCEPT ![n] = Calling(n, calls)]
      PROVE  AInv'
  <2> DEFINE c == CallStates(sub[n], calls)
  <2>1. /\ c \in Seq({"waiting", "running", "success", "failed"}) /\ Len(c) = Len(calls)
        /\ \A i \in DOMAIN c : c[i] # "running"
    BY DEF CallStates
  <2> HIDE DEF c
  <2>2. Calling(n, calls) \in Executions
    BY <1>2, <1>5, <2>1 DEF Calling, Executions, c
  <2>3. Fits(Calling(n, calls)) /\ Calling(n, calls).pc # "none"
    BY <1>2, <1>3, <1>8, <2>1 DEF Fits, Calling, c
  <2>4. \A i \in DOMAIN Calling(n, calls).states : Calling(n, calls).states[i] # "running"
    BY <2>1 DEF Calling, c
  <2> QED
    BY <1>1, <1>4, <1>8, <2>2, <2>3, <2>4, TurnKeeps
<1>9. ASSUME sub[n].attempt < SubRepairs, sub' = [sub EXCEPT ![n] = Repairing(n)] PROVE AInv'
  <2>1. Repairing(n) \in Executions
    BY <1>2, <1>5 DEF Repairing, Executions
  <2>2. sub[n].attempt \in Nat
    BY <1>2 DEF Executions
  <2>3. /\ Fits(Repairing(n)) /\ Repairing(n).pc # "none"
         /\ \A i \in DOMAIN Repairing(n).states : Repairing(n).states[i] # "running"
    BY <1>1, <1>2, <1>3, <1>6, <1>9, <2>2 DEF Fits, Repairing
  <2> QED
    BY <1>1, <1>4, <1>9, <2>1, <2>3, TurnKeeps
<1>10. ASSUME sub' = [sub EXCEPT ![n] = FailedSub(Spoken(n), n)] PROVE AInv'
  <2> DEFINE s == FailedSub(Spoken(n), n)
  <2>1. s \in Executions
    BY <1>1, FailedIs
  <2>2. /\ s.pc = "done" /\ s.turn = sub[n].turn /\ s.attempt = sub[n].attempt
        /\ s.calls = sub[n].calls /\ s.states = sub[n].states
    BY <1>1, FailedIs DEF Spoken
  <2> HIDE DEF s
  <2>3. /\ Fits(s) /\ s.pc # "none"
        /\ \A i \in DOMAIN s.states : s.states[i] # "running"
    BY <1>2, <1>3, <2>2 DEF Fits
  <2>4. sub' = [sub EXCEPT ![n] = s]
    BY <1>10 DEF s
  <2> QED
    BY <1>1, <1>4, <2>1, <2>3, <2>4, TurnKeeps
<1> QED
  BY <1>1, <1>7, <1>8, <1>9, <1>10

-----------------------------------------------------------------------------
(* Subs: the ends of their turns, and their calls                            *)

\* A Sub whose turn ended, with what its searches found.
Ended(n, found) ==
  [pc |-> "generate", turn |-> sub[n].turn + 1, attempt |-> 0,
   causes |-> {e.step : e \in ToSet(ToolEvents(sub[n], n))},
   events |-> sub[n].events \o ToolEvents(sub[n], n),
   tools |-> sub[n].tools \o ToolOutcomes(sub[n], n),
   known |-> Discovered(sub[n], n, found),
   calls |-> <<>>, states |-> <<>>, final |-> sub[n].final, ok |-> sub[n].ok]

\* What a turn's calls add to a record is typed.
LEMMA TurnRecords ==
  ASSUME NEW n \in Subs, NEW s \in Executions
  PROVE  /\ ToolEvents(s, n) \in Seq(Events) /\ Len(ToolEvents(s, n)) = Len(s.calls)
         /\ ToolOutcomes(s, n) \in Seq(ToolRecords)
         /\ Len(ToolOutcomes(s, n)) = Len(s.calls)
         /\ \A i \in DOMAIN s.calls : ToolStep(n, s.turn, i, s.calls[i]) \in Step
<1>1. /\ s.calls \in Seq(CallRecords) /\ s.turn \in Nat /\ s.causes \subseteq Step
      /\ s.known \subseteq Discoveries
  BY DEF Executions
<1>2. DOMAIN s.calls = 1 .. Len(s.calls) /\ Len(s.calls) \in Nat
  BY <1>1
<1>3. ASSUME NEW i \in DOMAIN s.calls PROVE ToolStep(n, s.turn, i, s.calls[i]) \in Step
  <2>1. s.calls[i] \in CallRecords /\ i \in Nat
    BY <1>1, <1>2
  <2> QED
    BY <1>1, <2>1, StepsTyped
<1>4. ToolEvents(s, n) \in [1 .. Len(s.calls) -> Events]
  BY <1>1, <1>2, <1>3 DEF ToolEvents, Event, Events
<1>5. ASSUME NEW i \in DOMAIN s.calls
      PROVE  {k.step : k \in {k \in s.known : k.url = s.calls[i].url}} \subseteq Step
  BY <1>1 DEF Discoveries
<1>6. ToolOutcomes(s, n) \in [1 .. Len(s.calls) -> ToolRecords]
  BY <1>2, <1>3, <1>5 DEF ToolOutcomes, ToolRecords
<1> QED
  BY <1>2, <1>3, <1>4, <1>6

\* So is what its searches discovered.
LEMMA DiscoveredTyped ==
  ASSUME NEW n \in Subs, NEW s \in Executions, NEW found
  PROVE  Discovered(s, n, found) \subseteq Discoveries
<1> DEFINE searches == {i \in DOMAIN s.calls : s.calls[i].name = "search"
                                               /\ s.states[i] = "success"}
           newest(u) == {i \in searches : u \in found[i]
                                          /\ \A j \in searches : u \in found[j] => j <= i}
           pairs == {q \in Urls \X searches : q[2] \in newest(q[1])}
           new == {[url |-> p[1], step |-> ToolStep(n, s.turn, p[2], s.calls[p[2]])] : p \in pairs}
<1>1. Discovered(s, n, found) = new \cup {k \in s.known : \A d \in new : d.url # k.url}
  BY DEF Discovered
<1>2. \A p \in pairs : p[1] \in Urls /\ p[2] \in DOMAIN s.calls
  OBVIOUS
<1> HIDE DEF pairs
<1>3. \A p \in pairs : ToolStep(n, s.turn, p[2], s.calls[p[2]]) \in Step
  BY <1>2, TurnRecords
<1>4. new \subseteq Discoveries
  BY <1>2, <1>3 DEF Discoveries
<1>5. s.known \subseteq Discoveries
  BY DEF Executions
<1> HIDE DEF new
<1> QED
  BY <1>1, <1>4, <1>5

\* A turn that ended, and the end of the Sub when it was the last.
LEMMA EndTurnIs ==
  ASSUME AInv, NEW n \in Subs, EndTurn(n)
  PROVE  /\ sub[n].pc = "tools" /\ UNCHANGED <<main, budget>>
         /\ \A i \in DOMAIN sub[n].states : sub[n].states[i] \in {"success", "failed"}
         /\ \E found \in [DOMAIN sub[n].calls -> SUBSET Urls] :
              /\ Ended(n, found) \in Executions
              /\ \/ /\ sub[n].turn + 1 # MaxSubTurns
                    /\ sub' = [sub EXCEPT ![n] = Ended(n, found)]
                 \/ sub' = [sub EXCEPT ![n] = FailedSub(Ended(n, found), n)]
<1>1. /\ sub[n].pc = "tools" /\ UNCHANGED <<main, budget>>
      /\ \A i \in DOMAIN sub[n].states : sub[n].states[i] \in {"success", "failed"}
  BY DEF EndTurn
<1>2. PICK found \in [DOMAIN sub[n].calls -> SUBSET Urls] :
        sub' = [sub EXCEPT ![n] =
                  IF Ended(n, found).turn = MaxSubTurns
                  THEN FailedSub(Ended(n, found), n) ELSE Ended(n, found)]
  BY DEF EndTurn, Ended
<1>3. sub[n] \in Executions
  BY DEF AInv, Typed
<1>4. /\ ToolEvents(sub[n], n) \in Seq(Events) /\ ToolOutcomes(sub[n], n) \in Seq(ToolRecords)
      /\ Discovered(sub[n], n, found) \subseteq Discoveries
  BY <1>3, TurnRecords, DiscoveredTyped
<1>5. {e.step : e \in ToSet(ToolEvents(sub[n], n))} \subseteq Step
  <2>1. \A e \in ToSet(ToolEvents(sub[n], n)) : e \in Events
    BY <1>4 DEF ToSet
  <2> QED
    BY <2>1 DEF Events
<1>6. /\ sub[n].events \o ToolEvents(sub[n], n) \in Seq(Events)
      /\ sub[n].tools \o ToolOutcomes(sub[n], n) \in Seq(ToolRecords)
      /\ sub[n].turn + 1 \in Nat /\ sub[n].final \in Step /\ sub[n].ok \in BOOLEAN
  BY <1>3, <1>4 DEF Executions
<1>7. Ended(n, found) \in Executions
  BY <1>4, <1>5, <1>6 DEF Ended, Executions
<1>8. Ended(n, found).turn = sub[n].turn + 1
  BY DEF Ended
<1> QED
  BY <1>1, <1>2, <1>7, <1>8

\* A turn ends within the limits.
LEMMA EndTurnKeeps ==
  ASSUME AInv, NEW n \in Subs, EndTurn(n)
  PROVE  AInv'
<1>1. /\ sub[n].pc = "tools" /\ UNCHANGED <<main, budget>>
      /\ \A i \in DOMAIN sub[n].states : sub[n].states[i] \in {"success", "failed"}
  BY EndTurnIs
<1>2. PICK found : /\ Ended(n, found) \in Executions
                   /\ \/ /\ sub[n].turn + 1 # MaxSubTurns
                         /\ sub' = [sub EXCEPT ![n] = Ended(n, found)]
                      \/ sub' = [sub EXCEPT ![n] = FailedSub(Ended(n, found), n)]
  BY EndTurnIs
<1>3. sub[n] \in Executions /\ Fits(sub[n])
  BY DEF AInv, Typed, Limited
<1>4. /\ SubRepairs \in Nat /\ MaxSubTurns \in Nat /\ MaxToolsPerTurn \in Nat
      /\ sub[n].turn \in Nat /\ sub[n].turn < MaxSubTurns
  BY <1>1, <1>3, LimitsTyped DEF AInv, Typed, Executions, Fits
<1>5. /\ sub[n].pc \in {"generate", "tools"}
      /\ \A i \in DOMAIN sub[n].states : sub[n].states[i] # "running"
  BY <1>1
<1> DEFINE s == Ended(n, found)
           f == FailedSub(Ended(n, found), n)
<1>6. /\ s.turn = sub[n].turn + 1 /\ s.attempt = 0 /\ s.calls = <<>> /\ s.states = <<>>
      /\ s.pc = "generate"
  BY DEF Ended
<1>7. /\ f \in Executions /\ f.pc = "done" /\ f.turn = s.turn /\ f.attempt = s.attempt
      /\ f.calls = s.calls /\ f.states = s.states
  BY <1>2, FailedIs
<1> HIDE DEF s, f
<1>8. CASE sub[n].turn + 1 # MaxSubTurns /\ sub' = [sub EXCEPT ![n] = s]
  <2>1. Fits(s) /\ s.pc # "none" /\ s \in Executions
    BY <1>2, <1>4, <1>6, <1>8 DEF Fits, s
  <2>2. \A i \in DOMAIN s.states : s.states[i] # "running"
    BY <1>6
  <2> QED
    BY <1>1, <1>5, <1>8, <2>1, <2>2, TurnKeeps
<1>9. CASE sub' = [sub EXCEPT ![n] = f]
  <2>1. Fits(f) /\ f.pc # "none"
    BY <1>4, <1>6, <1>7 DEF Fits
  <2>2. \A i \in DOMAIN f.states : f.states[i] # "running"
    BY <1>6, <1>7
  <2> QED
    BY <1>1, <1>5, <1>7, <1>9, <2>1, <2>2, TurnKeeps
<1> QED
  BY <1>2, <1>8, <1>9 DEF s, f

-----------------------------------------------------------------------------
(* Subs: the budget of their calls                                           *)

CallState == {"waiting", "running", "success", "failed"}

Moved(n, i, v) == [sub EXCEPT ![n].states[i] = v]

\* The record of the Sub after it.
MovedTo(s, n, i, v) ==
  /\ s.states = [sub[n].states EXCEPT ![i] = v]
  /\ s.pc = sub[n].pc /\ s.turn = sub[n].turn /\ s.attempt = sub[n].attempt
  /\ s.causes = sub[n].causes /\ s.events = sub[n].events /\ s.tools = sub[n].tools
  /\ s.known = sub[n].known /\ s.calls = sub[n].calls /\ s.final = sub[n].final
  /\ s.ok = sub[n].ok

\* A call that goes on changes nothing of its Sub but its own state.
LEMMA CallMoved ==
  ASSUME AInv, NEW n \in Subs, NEW i \in DOMAIN sub[n].calls, sub[n].pc = "tools",
         NEW v \in CallState, sub' = Moved(n, i, v)
  PROVE  \E s \in Executions :
           /\ sub' = [sub EXCEPT ![n] = s] /\ MovedTo(s, n, i, v) /\ Fits(s)
           /\ i \in DOMAIN sub[n].states /\ DOMAIN s.states = DOMAIN sub[n].states
<1> DEFINE t == [sub[n].states EXCEPT ![i] = v]
           s == [sub[n] EXCEPT !.states = t]
<1>1. sub[n] \in Executions /\ Fits(sub[n]) /\ sub \in [Subs -> Executions]
  BY DEF AInv, Typed, Limited
<1>2. /\ sub[n].states \in Seq(CallState) /\ sub[n].calls \in Seq(CallRecords)
      /\ Len(sub[n].states) = Len(sub[n].calls)
  BY <1>1 DEF Executions, CallState, Fits
<1>3. i \in DOMAIN sub[n].states
  BY <1>2
<1>4. t \in Seq(CallState) /\ Len(t) = Len(sub[n].states) /\ DOMAIN t = DOMAIN sub[n].states
  BY <1>2, <1>3
<1>5. sub' = [sub EXCEPT ![n] = s]
  BY DEF Moved
<1> HIDE DEF t
<1>6. /\ s \in Executions /\ s.states = t
      /\ s.pc = sub[n].pc /\ s.turn = sub[n].turn /\ s.attempt = sub[n].attempt
      /\ s.causes = sub[n].causes /\ s.events = sub[n].events /\ s.tools = sub[n].tools
      /\ s.known = sub[n].known /\ s.calls = sub[n].calls /\ s.final = sub[n].final
      /\ s.ok = sub[n].ok
  BY <1>1, <1>4 DEF Executions, CallState
<1> HIDE DEF s
<1>7. Fits(s)
  BY <1>1, <1>2, <1>4, <1>6 DEF Fits
<1> QED
  BY <1>3, <1>4, <1>5, <1>6, <1>7 DEF t, MovedTo

\* The steps of calls are those of a Sub and a place each.
LEMMA StepOfInjective ==
  ASSUME NEW m, NEW n, NEW i, NEW j, StepOf(m, i) = StepOf(n, j)
  PROVE  m = n /\ i = j
BY DEF StepOf, ToolStep

\* Places in a turn are places.
LEMMA PlacesOfCalls ==
  ASSUME AInv, NEW n \in Subs, NEW i \in DOMAIN sub[n].calls
  PROVE  i \in Places /\ StepOf(n, i) \in Step
<1>1. sub[n] \in Executions /\ Fits(sub[n]) /\ limits \in Profiles
  BY DEF AInv, Typed, Limited
<1>2. sub[n].calls \in Seq(CallRecords) /\ Len(sub[n].calls) <= MaxToolsPerTurn
  BY <1>1 DEF Executions, Fits
<1>3. i \in 1 .. MaxToolsPerTurn
  BY <1>1, <1>2, LimitsTyped
<1> QED
  BY <1>1, <1>3, SubsNumbered, TurnRecords DEF StepOf

\* A call that gets a permit gets a slot of its own.
LEMMA StartToolKeeps ==
  ASSUME AInv, NEW n \in Subs, NEW i \in Places, StartTool(n, i)
  PROVE  AInv'
<1>1. /\ sub[n].pc = "tools" /\ i \in DOMAIN sub[n].calls /\ sub[n].states[i] = "waiting"
      /\ permits > 0 /\ ~Refused(StepOf(n, i)) /\ permits' = permits - 1
      /\ committed' = committed \cup {StepOf(n, i)}
      /\ sub' = Moved(n, i, "running") /\ UNCHANGED main
  BY DEF StartTool, Moved
<1>2. "running" \in CallState
  BY DEF CallState
<1>3. PICK s \in Executions :
        /\ sub' = [sub EXCEPT ![n] = s] /\ MovedTo(s, n, i, "running") /\ Fits(s)
        /\ i \in DOMAIN sub[n].states /\ DOMAIN s.states = DOMAIN sub[n].states
  BY <1>1, <1>2, CallMoved
<1>4. sub \in [Subs -> Executions] /\ permits \in Nat /\ committed \subseteq Step
  BY DEF AInv, Typed
<1>5. \A m \in Subs : sub'[m] = IF m = n THEN s ELSE sub[m]
  BY <1>3, <1>4
<1>6. sub[n].pc \in {"generate", "tools"} /\ s.pc # "none"
  BY <1>1, <1>3 DEF MovedTo
<1>7. (sub \in [Subs -> Executions])' /\ Limited' /\ Delegated'
  BY <1>1, <1>3, <1>6, SubReplaced
<1>8. \A j \in DOMAIN s.states : s.states[j] = IF j = i THEN "running" ELSE sub[n].states[j]
  BY <1>3 DEF MovedTo
<1>9. Running' = Running \cup {<<n, i>>}
  <2>1. ASSUME NEW t \in Subs \X Places
        PROVE  t \in Running' <=> t \in Running \/ t = <<n, i>>
    <3>1. CASE t[1] # n
      BY <3>1, <1>5 DEF Running
    <3>2. CASE t[1] = n /\ t[2] # i
      BY <3>2, <1>3, <1>5, <1>8 DEF Running
    <3>3. CASE t[1] = n /\ t[2] = i
      <4>1. sub'[n] = s
        BY <1>5
      <4>2. i \in DOMAIN s.states /\ s.states[i] = "running"
        BY <1>3, <1>8
      <4> QED
        BY <3>3, <4>1, <4>2 DEF Running
    <3> QED
      BY <3>1, <3>2, <3>3
  <2>2. Running' \subseteq Subs \X Places /\ Running \subseteq Subs \X Places
    BY DEF Running
  <2> QED
    BY <2>1, <2>2
<1>10. \A m \in Subs : \A j : StepOf(m, j)' = StepOf(m, j)
  BY <1>3, <1>5 DEF StepOf, MovedTo
<1>11. committed' = {StepOf(t[1], t[2]) : t \in Running}'
  <2>1. committed = {StepOf(t[1], t[2]) : t \in Running}
    BY DEF AInv, Budgeted
  <2>2. \A t \in Running' : t[1] \in Subs
    BY DEF Running
  <2>3. {StepOf(t[1], t[2]) : t \in Running}' = {StepOf(t[1], t[2]) : t \in Running \cup {<<n, i>>}}
    BY <1>9, <1>10, <2>2
  <2>4. StepOf(<<n, i>>[1], <<n, i>>[2]) = StepOf(n, i)
    OBVIOUS
  <2>5. {StepOf(t[1], t[2]) : t \in Running \cup {<<n, i>>}} =
          {StepOf(t[1], t[2]) : t \in Running} \cup {StepOf(<<n, i>>[1], <<n, i>>[2])}
    BY Zenon
  <2> QED
    BY <1>1, <2>1, <2>3, <2>4, <2>5
<1>12. Budgeted'
  <2>1. StepOf(n, i) \notin committed
    BY <1>1 DEF Refused
  <2>2. /\ IsFiniteSet(committed')
        /\ Cardinality(committed') = Cardinality(committed) + 1
    BY <1>1, <2>1, FS_AddElement DEF AInv, Budgeted
  <2>3. MaxConcurrency' = MaxConcurrency
    BY <1>1 DEF main, MaxConcurrency
  <2>4. Cardinality(committed) \in Nat
    BY FS_CardinalityType DEF AInv, Budgeted
  <2>5. Cardinality(committed') + permits' = MaxConcurrency'
    BY <1>1, <1>4, <2>2, <2>3, <2>4 DEF AInv, Budgeted
  <2> QED
    BY <1>11, <2>2, <2>5 DEF Budgeted
<1>13. Typed'
  <2>1. StepOf(n, i) \in Step
    BY <1>1, PlacesOfCalls
  <2>2. permits' \in Nat /\ committed' \subseteq Step
    BY <1>1, <1>4, <2>1
  <2> QED
    BY <1>1, <1>7, <2>2 DEF main, AInv, Typed
<1> QED
  BY <1>7, <1>12, <1>13 DEF AInv

\* A call that ends gives back its slot and its permit, whether it answered or raised.
LEMMA EndToolKeeps ==
  ASSUME AInv, NEW n \in Subs, NEW i \in Places, EndTool(n, i)
  PROVE  AInv'
<1>1. PICK outcome \in {"success", "failed"} :
        /\ sub' = Moved(n, i, outcome)
        /\ committed' = committed \ {StepOf(n, i)} /\ permits' = permits + 1
  BY DEF EndTool, Released, PermitsAfter, Moved
<1>2. /\ sub[n].pc = "tools" /\ i \in DOMAIN sub[n].calls /\ sub[n].states[i] = "running"
      /\ UNCHANGED main /\ outcome \in CallState
  BY DEF EndTool, CallState
<1>3. PICK s \in Executions :
        /\ sub' = [sub EXCEPT ![n] = s] /\ MovedTo(s, n, i, outcome) /\ Fits(s)
        /\ i \in DOMAIN sub[n].states /\ DOMAIN s.states = DOMAIN sub[n].states
  BY <1>1, <1>2, CallMoved
<1>4. sub \in [Subs -> Executions] /\ permits \in Nat /\ committed \subseteq Step
  BY DEF AInv, Typed
<1>5. \A m \in Subs : sub'[m] = IF m = n THEN s ELSE sub[m]
  BY <1>3, <1>4
<1>6. sub[n].pc \in {"generate", "tools"} /\ s.pc # "none"
  BY <1>2, <1>3 DEF MovedTo
<1>7. (sub \in [Subs -> Executions])' /\ Limited' /\ Delegated'
  BY <1>2, <1>3, <1>6, SubReplaced
<1>8. \A j \in DOMAIN s.states : s.states[j] = IF j = i THEN outcome ELSE sub[n].states[j]
  BY <1>3 DEF MovedTo
<1>9. Running' = Running \ {<<n, i>>} /\ <<n, i>> \in Running
  <2>1. ASSUME NEW t \in Subs \X Places
        PROVE  t \in Running' <=> t \in Running /\ t # <<n, i>>
    <3>1. CASE t[1] # n
      BY <3>1, <1>5 DEF Running
    <3>2. CASE t[1] = n /\ t[2] # i
      BY <3>2, <1>3, <1>5, <1>8 DEF Running
    <3>3. CASE t[1] = n /\ t[2] = i
      <4>1. sub'[n] = s
        BY <1>5
      <4>2. s.states[i] # "running" /\ t = <<n, i>>
        BY <1>3, <1>8, <3>3
      <4> QED
        BY <3>3, <4>1, <4>2 DEF Running
    <3> QED
      BY <3>1, <3>2, <3>3
  <2>2. Running' \subseteq Subs \X Places /\ Running \subseteq Subs \X Places
    BY DEF Running
  <2>3. <<n, i>> \in Running
    BY <1>2, <1>3 DEF Running
  <2> QED
    BY <2>1, <2>2, <2>3
<1>10. \A m \in Subs : \A j : StepOf(m, j)' = StepOf(m, j)
  BY <1>3, <1>5 DEF StepOf, MovedTo
<1>11. committed' = {StepOf(t[1], t[2]) : t \in Running}'
  <2>1. committed = {StepOf(t[1], t[2]) : t \in Running}
    BY DEF AInv, Budgeted
  <2>2. \A t \in Running' : t[1] \in Subs
    BY DEF Running
  <2>3. {StepOf(t[1], t[2]) : t \in Running}' = {StepOf(t[1], t[2]) : t \in Running \ {<<n, i>>}}
    BY <1>9, <1>10, <2>2
  <2>4. \A t \in Running : StepOf(t[1], t[2]) = StepOf(n, i) => t = <<n, i>>
    <3>1. \A t \in Running : t = <<t[1], t[2]>>
      BY DEF Running
    <3> QED
      BY <3>1, StepOfInjective
  <2>5. StepOf(<<n, i>>[1], <<n, i>>[2]) = StepOf(n, i)
    OBVIOUS
  <2>6. \A t \in Running : t = <<n, i>> => StepOf(t[1], t[2]) = StepOf(n, i)
    BY <2>5, Zenon
  <2>7. {StepOf(t[1], t[2]) : t \in Running \ {<<n, i>>}} =
          {StepOf(t[1], t[2]) : t \in Running} \ {StepOf(n, i)}
    BY <2>4, <2>6, Zenon
  <2> QED
    BY <1>1, <2>1, <2>3, <2>7
<1>12. Budgeted'
  <2>1. StepOf(n, i) \in committed
    BY <1>9 DEF AInv, Budgeted
  <2>2. /\ IsFiniteSet(committed')
        /\ Cardinality(committed') = Cardinality(committed) - 1
    BY <1>1, <2>1, FS_RemoveElement DEF AInv, Budgeted
  <2>3. MaxConcurrency' = MaxConcurrency
    BY <1>2 DEF main, MaxConcurrency
  <2>4. Cardinality(committed) \in Nat
    BY FS_CardinalityType DEF AInv, Budgeted
  <2>5. Cardinality(committed') + permits' = MaxConcurrency'
    BY <1>1, <1>4, <2>2, <2>3, <2>4 DEF AInv, Budgeted
  <2> QED
    BY <1>11, <2>2, <2>5 DEF Budgeted
<1>13. Typed'
  <2>1. permits' \in Nat /\ committed' \subseteq Step
    BY <1>1, <1>4
  <2> QED
    BY <1>2, <1>7, <2>1 DEF main, AInv, Typed
<1> QED
  BY <1>7, <1>12, <1>13 DEF AInv


-----------------------------------------------------------------------------
(* Main: the outcomes of a round                                             *)

\* What FlattenSeq is, for the few sequences of a round: partial concatenations.
LEMMA FlattenIs ==
  ASSUME NEW ss, NEW c \in 1 .. 4, Len(ss) = c
  PROVE  \E f : /\ FlattenSeq(ss) = f[c] /\ f[1] = ss[1]
                /\ \A i \in 2 .. c : f[i] = f[i - 1] \o ss[i]
<1> DEFINE Partial(f) == f = [i \in 1 .. c |-> IF i = 1 THEN ss[i] ELSE f[i - 1] \o ss[i]]
           g == [i \in 1 .. c |->
                   IF i = 1 THEN ss[1] ELSE IF i = 2 THEN ss[1] \o ss[2]
                   ELSE IF i = 3 THEN (ss[1] \o ss[2]) \o ss[3]
                   ELSE ((ss[1] \o ss[2]) \o ss[3]) \o ss[4]]
<1>1. FlattenSeq(ss) = (CHOOSE f : Partial(f))[c]
  BY DEF FlattenSeq
<1>2. ASSUME NEW i \in 1 .. c
      PROVE  g[i] = IF i = 1 THEN ss[i] ELSE g[i - 1] \o ss[i]
  <2>1. i = 1 \/ i = 2 \/ i = 3 \/ i = 4
    OBVIOUS
  <2> QED
    BY <2>1
<1>3. g = [i \in 1 .. c |-> IF i = 1 THEN ss[i] ELSE g[i - 1] \o ss[i]]
  <2>1. g = [i \in 1 .. c |-> g[i]]
    OBVIOUS
  <2> HIDE DEF g
  <2> QED
    BY <1>2, <2>1
<1>4. Partial(g)
  BY <1>3
<1> HIDE DEF g
<1>5. \E f : Partial(f)
  BY <1>4
<1> DEFINE f == CHOOSE f : Partial(f)
<1>6. Partial(f)
  BY <1>5
<1> HIDE DEF f
<1>7. \A i \in 1 .. c : f[i] = IF i = 1 THEN ss[i] ELSE f[i - 1] \o ss[i]
  BY <1>6
<1>8. f[1] = ss[1] /\ \A i \in 2 .. c : i \in 1 .. c /\ i # 1
  BY <1>7
<1> HIDE DEF Partial
<1>9. \A i \in 2 .. c : f[i] = f[i - 1] \o ss[i]
  BY <1>7, <1>8, Zenon
<1> QED
  BY <1>1, <1>8, <1>9 DEF f

\* Appending is associative.
After(a, b) == a \o b

LEMMA Associates ==
  ASSUME NEW S, NEW a \in Seq(S), NEW b \in Seq(S), NEW d \in Seq(S)
  PROVE  After(After(a, b), d) = After(a, After(b, d))
BY DEF After

\* What is kept as the sequences of a round are appended one by one.
LEMMA Stages ==
  ASSUME NEW S, NEW e \in Seq(S), NEW c \in 1 .. 4, NEW ss \in [1 .. c -> Seq(S)],
         NEW G, e \in G[0],
         \A k \in 1 .. c : \A x \in Seq(S) : x \in G[k - 1] => x \o ss[k] \in G[k]
  PROVE  e \o FlattenSeq(ss) \in Seq(S) /\ e \o FlattenSeq(ss) \in G[c]
<1>1. Len(ss) = c
  OBVIOUS
<1>2. PICK f : /\ FlattenSeq(ss) = f[c] /\ f[1] = ss[1]
               /\ \A i \in 2 .. c : f[i] = f[i - 1] \o ss[i]
  BY <1>1, FlattenIs
<1> DEFINE P(i) == f[i] \in Seq(S) /\ e \o f[i] \in G[i]
<1>3. P(1)
  <2>1. ss[1] \in Seq(S) /\ 1 \in 1 .. c /\ 1 - 1 = 0
    OBVIOUS
  <2> QED
    BY <1>2, <2>1
<1>4. ASSUME NEW i \in 2 .. c, P(i - 1) PROVE P(i)
  <2>1. i \in 1 .. c
    OBVIOUS
  <2>5. f[i] = f[i - 1] \o ss[i]
    BY <1>2, Zenon
  <2>2. f[i - 1] \in Seq(S) /\ ss[i] \in Seq(S) /\ e \o f[i - 1] \in Seq(S)
    BY <1>4, <2>1
  <2>7. After(After(e, f[i - 1]), ss[i]) = After(e, After(f[i - 1], ss[i]))
    BY <2>2, Associates
  <2>3. (e \o f[i - 1]) \o ss[i] = e \o f[i]
    BY <2>5, <2>7, Zenon DEF After
  <2>4. (e \o f[i - 1]) \o ss[i] \in G[i]
    BY <1>4, <2>1, <2>2
  <2>6. f[i] \in Seq(S)
    BY <2>2, <2>5
  <2> QED
    BY <2>3, <2>4, <2>6
<1> HIDE DEF P
<1>5. P(c)
  <2>1. 2 <= c => P(2)
    BY <1>3, <1>4
  <2>2. 3 <= c => P(3)
    BY <2>1, <1>4
  <2>3. 4 <= c => P(4)
    BY <2>2, <1>4
  <2> QED
    BY <1>3, <2>1, <2>2, <2>3
<1> QED
  BY <1>2, <1>5 DEF P

\* The next Subs, in order.
LEMMA InOrderIs ==
  ASSUME NEW L \in Nat, NEW c \in 1 .. 4
  PROVE  /\ InOrder(L + 1 .. L + c) = [k \in 1 .. c |-> L + k]
         /\ IsFiniteSet(L + 1 .. L + c) /\ Cardinality(L + 1 .. L + c) = c
<1> DEFINE S == L + 1 .. L + c
           q == [k \in 1 .. c |-> L + k]
           Sorted(s) == \A i, j \in DOMAIN s : i < j => s[i] < s[j]
<1>1. IsFiniteSet(S) /\ Cardinality(S) = c
  <2>1. L + 1 \in Int /\ L + c \in Int
    OBVIOUS
  <2>2. Cardinality(S) = IF L + 1 > L + c THEN 0 ELSE (L + c) - (L + 1) + 1
    BY <2>1, FS_Interval
  <2> QED
    BY <2>1, <2>2, FS_Interval
<1>2. SetToSeqs(S) = {f \in [1 .. c -> S] : \A i, j \in 1 .. c : i # j => f[i] # f[j]}
  BY <1>1 DEF SetToSeqs
<1>3. q \in SetToSeqs(S) /\ Sorted(q)
  BY <1>2
<1>4. ASSUME NEW f \in SetToSeqs(S), Sorted(f) PROVE f = q
  <2>1. f \in [1 .. c -> S]
    BY <1>2
  <2>2. \A i, j \in 1 .. c : i < j => f[i] < f[j]
    BY <1>4, <2>1
  <2>3. \A i \in 1 .. c : f[i] \in Nat /\ L + 1 <= f[i] /\ f[i] <= L + c
    BY <2>1
  <2>4. \A i \in 1 .. c : f[i] = L + i
    <3>1. CASE c = 1
      BY <2>3, <3>1
    <3>2. CASE c = 2
      <4>1. f[1] < f[2]
        BY <2>2, <3>2
      <4> QED
        BY <2>3, <3>2, <4>1
    <3>3. CASE c = 3
      <4>1. f[1] < f[2] /\ f[2] < f[3]
        BY <2>2, <3>3
      <4> QED
        BY <2>3, <3>3, <4>1
    <3>4. CASE c = 4
      <4>1. f[1] < f[2] /\ f[2] < f[3] /\ f[3] < f[4]
        BY <2>2, <3>4
      <4> QED
        BY <2>3, <3>4, <4>1
    <3> QED
      BY <3>1, <3>2, <3>3, <3>4
  <2> QED
    BY <2>1, <2>4
<1> HIDE DEF q
<1>5. InOrder(S) = q
  BY <1>3, <1>4 DEF InOrder
<1> QED
  BY <1>1, <1>5 DEF q

\* The records of the Subs of a round, in request order.
EventLists(c) == [k \in 1 .. c |-> sub[Len(outcomes) + k].events]

ToolLists(c) == [k \in 1 .. c |-> sub[Len(outcomes) + k].tools]

OutcomeLists(c) ==
  [k \in 1 .. c |-> <<[agent |-> Len(outcomes) + k, ok |-> sub[Len(outcomes) + k].ok]>>]

\* A merge appends them.
LEMMA MergeIs ==
  ASSUME AInv, Merge
  PROVE  /\ status = "running" /\ waiting
         /\ \A n \in RoundSubs : sub[n].pc = "done"
         /\ \E c \in 1 .. 4 :
              /\ Len(outcomes) + c <= MaxSpawnPerEpisode
              /\ RoundSubs = Following(c) /\ \A k \in 1 .. c : Len(outcomes) + k \in Subs
              /\ events' = events \o FlattenSeq(EventLists(c))
              /\ tools' = tools \o FlattenSeq(ToolLists(c))
              /\ outcomes' = outcomes \o FlattenSeq(OutcomeLists(c))
         /\ causes' = causes \cup {sub[n].final : n \in RoundSubs}
         /\ round' = round + 1 /\ attempt' = 0 /\ waiting' = FALSE
         /\ status' = (IF round + 1 = MaxMainRounds THEN "failed" ELSE status)
         /\ UNCHANGED <<limits, rounds, sub, budget>>
<1>0. Len(outcomes) \in Nat /\ limits \in Profiles
  BY DEF AInv, Typed
<1>1. waiting /\ Len(outcomes) \in Nat /\ limits \in Profiles
  BY <1>0 DEF Merge
<1>2. PICK c \in 1 .. 4 : /\ Len(outcomes) + c <= MaxSpawnPerEpisode
                          /\ RoundSubs = Following(c)
  BY <1>1 DEF AInv, Delegated
<1>3. InOrder(RoundSubs) = [k \in 1 .. c |-> Len(outcomes) + k]
  BY <1>1, <1>2, InOrderIs DEF Following
<1>4. \A k \in 1 .. c : Len(outcomes) + k \in 1 .. MaxSpawnPerEpisode
  BY <1>1, <1>2, LimitsTyped
<1>5. \A k \in 1 .. c : Len(outcomes) + k \in Subs
  BY <1>1, <1>4, SubsNumbered
<1> DEFINE eventsOf(n) == sub[n].events
           toolsOf(n) == sub[n].tools
           outcomeOf(n) == <<[agent |-> n, ok |-> sub[n].ok]>>
<1>6. DOMAIN InOrder(RoundSubs) = 1 .. c /\ \A k \in 1 .. c : InOrder(RoundSubs)[k] = Len(outcomes) + k
  BY <1>3
<1>7. /\ [k \in DOMAIN InOrder(RoundSubs) |-> eventsOf(InOrder(RoundSubs)[k])] = EventLists(c)
      /\ [k \in DOMAIN InOrder(RoundSubs) |-> toolsOf(InOrder(RoundSubs)[k])] = ToolLists(c)
      /\ [k \in DOMAIN InOrder(RoundSubs) |-> outcomeOf(InOrder(RoundSubs)[k])] = OutcomeLists(c)
  BY <1>6 DEF EventLists, ToolLists, OutcomeLists
<1>8. /\ events' = events \o FlattenSeq(EventLists(c))
      /\ tools' = tools \o FlattenSeq(ToolLists(c))
      /\ outcomes' = outcomes \o FlattenSeq(OutcomeLists(c))
  BY <1>7 DEF Merge, MergedSubs, Joined
<1> QED
  BY <1>2, <1>5, <1>8 DEF Merge, MergedSubs


-----------------------------------------------------------------------------
(* Main: its turns                                                            *)

\* The parts of the invariant that are about the Subs hold as long as they do nothing.
LEMMA SubsRest ==
  ASSUME AInv, UNCHANGED <<limits, sub, budget>>
  PROVE  Budgeted' /\ \A n \in Subs : Fits(sub[n])'
<1>1. Running' = Running /\ \A n, i : StepOf(n, i)' = StepOf(n, i)
  BY DEF Running, StepOf
<1>2. {StepOf(t[1], t[2]) : t \in Running}' = {StepOf(t[1], t[2]) : t \in Running}
  BY <1>1
<1>3. Budgeted'
  BY <1>2 DEF AInv, Budgeted, budget, MaxConcurrency
<1>4. ASSUME NEW n \in Subs PROVE Fits(sub[n])'
  BY DEF AInv, Limited, Fits, SubRepairs, MaxSubTurns, MaxToolsPerTurn
<1> QED
  BY <1>3, <1>4

\* Main's turn: the end of the episode, another attempt, or a delegation.
Turned == MainStep(round, attempt)

LEMMA MainTurnIs ==
  ASSUME AInv, MainTurn
  PROVE  /\ status = "running" /\ waiting = FALSE /\ Turned \in Step
         /\ events' = Append(events, Event(Turned, causes))
         /\ UNCHANGED <<limits, round, outcomes, tools, budget>>
         /\ \/ /\ status' \in {"success", "failed"}
               /\ UNCHANGED <<attempt, waiting, causes, rounds, sub>>
            \/ /\ attempt < MainRepairs /\ attempt' = attempt + 1
               /\ causes' = (causes \ {MainStep(round, attempt - 1)}) \cup {Turned}
               /\ UNCHANGED <<status, waiting, rounds, sub>>
            \/ \E c \in 1 .. 4 :
                 /\ MaySpawn(c) /\ waiting' = TRUE /\ causes' = {Turned}
                 /\ rounds' = Append(rounds, [main |-> Turned, subs |-> Following(c)])
                 /\ sub' = [n \in Subs |->
                              IF n \in Following(c)
                              THEN [NewSub EXCEPT !.pc = "generate", !.causes = {Turned}]
                              ELSE sub[n]]
                 /\ UNCHANGED <<status, attempt>>
<1>1. round \in Nat /\ attempt \in Nat /\ waiting \in BOOLEAN
  BY DEF AInv, Typed
<1>2. Turned \in Step
  BY <1>1, StepsTyped DEF Turned
<1>3. status = "running" /\ ~waiting /\ UNCHANGED <<limits, round, outcomes, tools, budget>>
  BY DEF MainTurn
<1>4. PICK turn \in MainTurns :
        /\ events' = Append(events, Event(Turned, causes))
        /\ CASE turn.kind = "answer" ->
                  status' = "success" /\ UNCHANGED <<attempt, waiting, causes, rounds, sub>>
             [] turn.kind = "spawn" /\ Accepted(turn) ->
                  /\ waiting' = TRUE
                  /\ causes' = {Turned}
                  /\ rounds' = Append(rounds, [main |-> Turned, subs |-> Following(turn.count)])
                  /\ sub' = [n \in Subs |->
                               IF n \in Following(turn.count)
                               THEN [NewSub EXCEPT !.pc = "generate", !.causes = {Turned}]
                               ELSE sub[n]]
                  /\ UNCHANGED <<status, attempt>>
             [] OTHER ->
                  /\ UNCHANGED <<waiting, rounds, sub>>
                  /\ IF attempt < MainRepairs
                     THEN /\ attempt' = attempt + 1
                          /\ causes' = (causes \ {MainStep(round, attempt - 1)}) \cup {Turned}
                          /\ UNCHANGED status
                     ELSE status' = "failed" /\ UNCHANGED <<attempt, causes>>
  BY DEF MainTurn, Turned, Following, Spawned
<1>5. CASE turn.kind = "answer"
  BY <1>1, <1>2, <1>3, <1>4, <1>5
<1>6. CASE turn.kind = "spawn" /\ Accepted(turn)
  <2>1. turn.kind # "answer" /\ turn.count \in 1 .. 4 /\ MaySpawn(turn.count)
    BY <1>6 DEF Accepted, MainTurns
  <2> QED
    BY <1>1, <1>2, <1>3, <1>4, <1>6, <2>1
<1>7. CASE turn.kind # "answer" /\ ~(turn.kind = "spawn" /\ Accepted(turn))
  BY <1>1, <1>2, <1>3, <1>4, <1>7
<1> QED
  BY <1>5, <1>6, <1>7

\* A Sub that was just spawned.
LEMMA SpawnedIs ==
  ASSUME NEW cause \in Step
  PROVE  \E s \in Executions :
           /\ s = [NewSub EXCEPT !.pc = "generate", !.causes = {cause}]
           /\ s.pc = "generate" /\ s.causes = {cause} /\ s.turn = 0 /\ s.attempt = 0
           /\ s.events = <<>> /\ s.tools = <<>> /\ s.known = {} /\ s.calls = <<>>
           /\ s.states = <<>>
<1> DEFINE r == [NewSub EXCEPT !.pc = "generate"]
           s == [r EXCEPT !.causes = {cause}]
<1>1. /\ NewSub \in Executions /\ NewSub.turn = 0 /\ NewSub.attempt = 0
      /\ NewSub.events = <<>> /\ NewSub.tools = <<>> /\ NewSub.known = {}
      /\ NewSub.calls = <<>> /\ NewSub.states = <<>>
  BY NewSubTyped DEF NewSub
<1>2. /\ r \in Executions /\ r.pc = "generate" /\ r.turn = 0 /\ r.attempt = 0
      /\ r.events = <<>> /\ r.tools = <<>> /\ r.known = {}
      /\ r.calls = <<>> /\ r.states = <<>>
  BY <1>1 DEF Executions
<1>3. [NewSub EXCEPT !.pc = "generate", !.causes = {cause}] = s
  OBVIOUS
<1> HIDE DEF r
<1>4. /\ s \in Executions /\ s.pc = "generate" /\ s.causes = {cause} /\ s.turn = 0
      /\ s.attempt = 0 /\ s.events = <<>> /\ s.tools = <<>> /\ s.known = {}
      /\ s.calls = <<>> /\ s.states = <<>>
  BY <1>2 DEF Executions
<1> HIDE DEF s
<1> QED
  BY <1>3, <1>4

\* What a sequence is after one more element.
LEMMA AppendIs ==
  ASSUME NEW S, NEW s \in Seq(S), NEW x \in S
  PROVE  /\ Append(s, x) \in Seq(S) /\ Len(Append(s, x)) = Len(s) + 1
         /\ \A k \in 1 .. Len(s) : Append(s, x)[k] = s[k]
         /\ Append(s, x)[Len(s) + 1] = x
         /\ Last(Append(s, x)) = x
         /\ ToSet(Append(s, x)) = ToSet(s) \cup {x}
<1> DEFINE t == Append(s, x)
<1>1. /\ t \in Seq(S) /\ Len(t) = Len(s) + 1 /\ Len(s) \in Nat
      /\ \A k \in 1 .. Len(s) : t[k] = s[k]
      /\ t[Len(s) + 1] = x
  OBVIOUS
<1> HIDE DEF t
<1>2. DOMAIN t = 1 .. Len(t) /\ DOMAIN s = 1 .. Len(s)
  BY <1>1
<1>3. ToSet(t) = ToSet(s) \cup {x}
  <2>1. \A k \in DOMAIN t : k \in DOMAIN s \/ k = Len(s) + 1
    BY <1>1, <1>2
  <2>2. \A k \in DOMAIN s : k \in DOMAIN t /\ t[k] = s[k]
    BY <1>1, <1>2
  <2>3. Len(s) + 1 \in DOMAIN t
    BY <1>1, <1>2
  <2> QED
    BY <1>1, <2>1, <2>2, <2>3 DEF ToSet
<1>4. Last(t) = x
  BY <1>1 DEF Last
<1> QED
  BY <1>1, <1>3, <1>4 DEF t

\* Main delegates within its limits.
LEMMA SpawnKeeps ==
  ASSUME AInv, status = "running", waiting = FALSE, Turned \in Step, NEW c \in 1 .. 4,
         MaySpawn(c), waiting' = TRUE, causes' = {Turned},
         events' = Append(events, Event(Turned, causes)),
         rounds' = Append(rounds, [main |-> Turned, subs |-> Following(c)]),
         sub' = [n \in Subs |-> IF n \in Following(c)
                                THEN [NewSub EXCEPT !.pc = "generate", !.causes = {Turned}]
                                ELSE sub[n]],
         UNCHANGED <<limits, round, outcomes, tools, budget, status, attempt>>
  PROVE  AInv'
<1>1. Typed /\ Limited /\ Delegated /\ Budgeted
  BY DEF AInv
<1>2. limits \in Profiles /\ Len(outcomes) \in Nat /\ sub \in [Subs -> Executions]
  BY <1>1 DEF Typed
<1>3. /\ round + 1 < MaxMainRounds /\ c <= MaxSpawnPerRound
      /\ Len(outcomes) + c <= MaxSpawnPerEpisode
  <2>1. /\ MaxMainRounds \in Nat \ {0} /\ MaxSpawnPerEpisode \in Nat /\ round \in Nat
    BY <1>1, <1>2, LimitsTyped DEF Typed
  <2> QED
    BY <1>2, <2>1 DEF MaySpawn, Spawned
<1>4. Following(c) \subseteq Subs
  <2>1. MaxSpawnPerEpisode \in Nat
    BY <1>2, LimitsTyped
  <2>2. \A n \in 1 .. MaxSpawnPerEpisode : n \in Subs
    BY <1>2, SubsNumbered
  <2>3. c \in Nat
    OBVIOUS
  <2>4. \A n \in Following(c) : n \in 1 .. MaxSpawnPerEpisode
    BY <1>2, <1>3, <2>1, <2>3 DEF Following
  <2> QED
    BY <2>2, <2>4
<1>5. PICK s \in Executions :
        /\ s = [NewSub EXCEPT !.pc = "generate", !.causes = {Turned}]
        /\ s.pc = "generate" /\ s.causes = {Turned} /\ s.turn = 0 /\ s.attempt = 0
        /\ s.events = <<>> /\ s.tools = <<>> /\ s.known = {} /\ s.calls = <<>>
        /\ s.states = <<>>
  BY SpawnedIs
<1>6. \A n \in Subs : sub'[n] = IF n \in Following(c) THEN s ELSE sub[n]
  BY <1>5
<1> DEFINE r == [main |-> Turned, subs |-> Following(c)]
<1>7. rounds \in Seq([main : Step, subs : SUBSET Subs]) /\ r \in [main : Step, subs : SUBSET Subs]
  BY <1>1, <1>4 DEF Typed
<1>8. Typed'
  <2>1. sub' \in [Subs -> Executions]
    BY <1>2, <1>5, <1>6
  <2>2. events' \in Seq(Events)
    <3>1. Event(Turned, causes) \in Events /\ events \in Seq(Events)
      BY <1>1 DEF Typed, Event, Events
    <3> QED
      BY <3>1
  <2>3. rounds' \in Seq([main : Step, subs : SUBSET Subs])
    BY <1>7
  <2>4. causes' \subseteq Step /\ waiting' \in BOOLEAN
    OBVIOUS
  <2> QED
    BY <1>1, <2>1, <2>2, <2>3, <2>4 DEF Typed, budget
<1>9. \A n \in Following(c) : sub[n].pc = "none" /\ DOMAIN sub[n].states = {}
  <2> TAKE n \in Following(c)
  <2>1. n \in Subs /\ n > Len(outcomes) /\ n \notin Awaited
    BY <1>2, <1>4 DEF Following, Awaited
  <2>2. sub[n].pc = "none"
    BY <1>1, <2>1 DEF Delegated
  <2>3. Len(sub[n].states) = 0 /\ sub[n].states \in Seq({"waiting", "running", "success", "failed"})
    BY <1>1, <1>2, <2>1, <2>2 DEF Limited, Fits, Executions
  <2> QED
    BY <2>2, <2>3
<1>10. Len(rounds') = Len(rounds) + 1 /\ Last(rounds') = r /\ ToSet(rounds') = ToSet(rounds) \cup {r}
  <2> DEFINE R == [main : Step, subs : SUBSET Subs]
  <2>3. rounds \in Seq(R) /\ r \in R
    BY <1>7
  <2> HIDE DEF r, R
  <2>1. rounds' = Append(rounds, r)
    BY DEF r
  <2>2. /\ Len(Append(rounds, r)) = Len(rounds) + 1 /\ Last(Append(rounds, r)) = r
        /\ ToSet(Append(rounds, r)) = ToSet(rounds) \cup {r}
    BY <2>3, AppendIs
  <2> QED
    BY <2>1, <2>2
<1>11. Limited'
  <2>1. \A n \in Subs : Fits(sub[n])'
    <3> TAKE n \in Subs
    <3>1. UNCHANGED <<SubRepairs, MaxSubTurns, MaxToolsPerTurn>>
      BY DEF SubRepairs, MaxSubTurns, MaxToolsPerTurn
    <3>2. CASE n \in Following(c)
      <4>1. SubRepairs \in Nat /\ MaxSubTurns \in Nat \ {0} /\ MaxToolsPerTurn \in Nat
        BY <1>2, LimitsTyped
      <4>2. Fits(s)
        BY <1>5, <4>1 DEF Fits
      <4> QED
        BY <1>6, <3>1, <3>2, <4>2 DEF Fits
    <3>3. CASE n \notin Following(c)
      BY <1>1, <1>6, <3>1, <3>3 DEF Fits, Limited
    <3> QED
      BY <3>2, <3>3
  <2>2. UNCHANGED <<MainRepairs, MaxMainRounds>>
    BY DEF MainRepairs, MaxMainRounds
  <2> QED
    BY <1>1, <1>3, <1>10, <2>1, <2>2 DEF Limited
<1>12. Delegated'
  <2>1. RoundSubs' = Following(c) /\ Awaited' = Following(c) /\ Following(c)' = Following(c)
    BY <1>10 DEF RoundSubs, Awaited, Following
  <2>2. UNCHANGED <<MaxSpawnPerEpisode, MaxSpawnPerRound>>
    BY DEF MaxSpawnPerEpisode, MaxSpawnPerRound
  <2>3. IsFiniteSet(Following(c)) /\ Cardinality(Following(c)) = c
    BY <1>2, InOrderIs DEF Following
  <2>4. \A k \in DOMAIN rounds' : /\ IsFiniteSet(rounds'[k].subs)
                                  /\ Cardinality(rounds'[k].subs) <= MaxSpawnPerRound
    <3>1. \A q \in ToSet(rounds) : /\ IsFiniteSet(q.subs)
                                   /\ Cardinality(q.subs) <= MaxSpawnPerRound
      BY <1>1 DEF Delegated, ToSet
    <3>2. \A q \in ToSet(rounds') : /\ IsFiniteSet(q.subs)
                                    /\ Cardinality(q.subs) <= MaxSpawnPerRound
      BY <1>3, <1>10, <2>3, <3>1
    <3> QED
      BY <3>2 DEF ToSet
  <2>5. UNION {q.subs : q \in ToSet(rounds')} = (1 .. Len(outcomes)) \cup Following(c)
    <3>4. r.subs = Following(c)
      OBVIOUS
    <3> HIDE DEF r
    <3>5. {q.subs : q \in ToSet(rounds) \cup {r}} = {q.subs : q \in ToSet(rounds)} \cup {r.subs}
      BY Zenon
    <3>1. {q.subs : q \in ToSet(rounds')} = {q.subs : q \in ToSet(rounds)} \cup {Following(c)}
      BY <1>10, <3>4, <3>5
    <3>2. UNION {q.subs : q \in ToSet(rounds)} = 1 .. Len(outcomes)
      BY <1>1 DEF Delegated, Awaited
    <3> QED
      BY <3>1, <3>2
  <2>6. \A n \in Subs : /\ n <= Len(outcomes) => sub'[n].pc = "done"
                        /\ n \in Following(c) => sub'[n].pc # "none"
                        /\ n > Len(outcomes) /\ n \notin Following(c) => sub'[n].pc = "none"
    <3> TAKE n \in Subs
    <3>1. n <= Len(outcomes) => n \notin Following(c)
      BY <1>2 DEF Following
    <3> QED
      BY <1>1, <1>5, <1>6, <3>1 DEF Delegated, Awaited
  <2>7. Len(outcomes) <= MaxSpawnPerEpisode
    BY <1>1 DEF Delegated
  <2> QED
    BY <1>3, <2>1, <2>2, <2>4, <2>5, <2>6, <2>7 DEF Delegated
<1>13. Budgeted'
  <2>1. Running' = Running
    BY <1>5, <1>6, <1>9 DEF Running
  <2>2. \A t \in Running : StepOf(t[1], t[2])' = StepOf(t[1], t[2])
    <3>1. \A t \in Running : t[1] \in Subs /\ t[1] \notin Following(c)
      BY <1>9 DEF Running
    <3> QED
      BY <1>6, <3>1 DEF StepOf
  <2>3. {StepOf(t[1], t[2]) : t \in Running}' = {StepOf(t[1], t[2]) : t \in Running}
    BY <2>1, <2>2
  <2> QED
    BY <1>1, <2>3 DEF Budgeted, budget, MaxConcurrency
<1> QED
  BY <1>8, <1>11, <1>12, <1>13 DEF AInv

\* Main's turn keeps the limits, whatever it is.
LEMMA MainTurnKeeps ==
  ASSUME AInv, MainTurn
  PROVE  AInv'
<1>1. /\ status = "running" /\ waiting = FALSE /\ Turned \in Step
      /\ events' = Append(events, Event(Turned, causes))
      /\ UNCHANGED <<limits, round, outcomes, tools, budget>>
      /\ \/ /\ status' \in {"success", "failed"}
            /\ UNCHANGED <<attempt, waiting, causes, rounds, sub>>
         \/ /\ attempt < MainRepairs /\ attempt' = attempt + 1
            /\ causes' = (causes \ {MainStep(round, attempt - 1)}) \cup {Turned}
            /\ UNCHANGED <<status, waiting, rounds, sub>>
         \/ \E c \in 1 .. 4 :
              /\ MaySpawn(c) /\ waiting' = TRUE /\ causes' = {Turned}
              /\ rounds' = Append(rounds, [main |-> Turned, subs |-> Following(c)])
              /\ sub' = [n \in Subs |->
                           IF n \in Following(c)
                           THEN [NewSub EXCEPT !.pc = "generate", !.causes = {Turned}]
                           ELSE sub[n]]
              /\ UNCHANGED <<status, attempt>>
  BY MainTurnIs
<1>2. CASE \E c \in 1 .. 4 :
             /\ MaySpawn(c) /\ waiting' = TRUE /\ causes' = {Turned}
             /\ rounds' = Append(rounds, [main |-> Turned, subs |-> Following(c)])
             /\ sub' = [n \in Subs |->
                          IF n \in Following(c)
                          THEN [NewSub EXCEPT !.pc = "generate", !.causes = {Turned}]
                          ELSE sub[n]]
             /\ UNCHANGED <<status, attempt>>
  BY <1>1, <1>2, SpawnKeeps
<1>3. ASSUME UNCHANGED <<waiting, rounds, sub>>, status' \in {"running", "success", "failed"},
             attempt' \in Nat, attempt' <= MainRepairs, causes' \subseteq Step
      PROVE  AInv'
  <2>1. Typed /\ Limited /\ Delegated
    BY DEF AInv
  <2>2. Budgeted' /\ \A n \in Subs : Fits(sub[n])'
    BY <1>1, <1>3, SubsRest
  <2>3. Typed'
    <3>1. Event(Turned, causes) \in Events /\ events \in Seq(Events)
      BY <1>1, <2>1 DEF Typed, Event, Events
    <3>2. events' \in Seq(Events)
      BY <1>1, <3>1
    <3> QED
      BY <1>1, <1>3, <2>1, <3>2 DEF Typed, budget
  <2>4. Limited'
    BY <1>1, <1>3, <2>1, <2>2 DEF Limited, MainRepairs, MaxMainRounds
  <2>5. Delegated'
    BY <1>1, <1>3, <2>1
       DEF Delegated, Awaited, RoundSubs, Following, MaxSpawnPerEpisode, MaxSpawnPerRound
  <2> QED
    BY <2>2, <2>3, <2>4, <2>5 DEF AInv
<1>4. attempt \in Nat /\ attempt <= MainRepairs /\ causes \subseteq Step /\ MainRepairs \in Nat
  BY LimitsTyped DEF AInv, Typed, Limited
<1>5. CASE /\ status' \in {"success", "failed"}
           /\ UNCHANGED <<attempt, waiting, causes, rounds, sub>>
  BY <1>3, <1>4, <1>5
<1>6. CASE /\ attempt < MainRepairs /\ attempt' = attempt + 1
           /\ causes' = (causes \ {MainStep(round, attempt - 1)}) \cup {Turned}
           /\ UNCHANGED <<status, waiting, rounds, sub>>
  <2>1. causes' \subseteq Step /\ attempt' \in Nat /\ attempt' <= MainRepairs
    BY <1>1, <1>4, <1>6
  <2> QED
    BY <1>1, <1>3, <1>6, <2>1
<1> QED
  BY <1>1, <1>2, <1>5, <1>6

\* A lost rollout keeps whatever it had.
LEMMA MainRaisesKeeps ==
  ASSUME AInv, MainRaises
  PROVE  AInv'
<1>1. /\ status = "running" /\ ~waiting /\ status' = "raised"
      /\ UNCHANGED <<limits, round, attempt, waiting, causes, events, rounds, outcomes, tools,
                     sub, budget>>
  BY DEF MainRaises
<1>2. Typed /\ Limited /\ Delegated
  BY DEF AInv
<1>3. Budgeted' /\ \A n \in Subs : Fits(sub[n])'
  BY <1>1, SubsRest
<1>4. Typed'
  BY <1>1, <1>2 DEF Typed, budget
<1>5. Limited'
  BY <1>1, <1>2, <1>3 DEF Limited, MainRepairs, MaxMainRounds
<1>6. Delegated'
  BY <1>1, <1>2
     DEF Delegated, Awaited, RoundSubs, Following, MaxSpawnPerEpisode, MaxSpawnPerRound
<1> QED
  BY <1>3, <1>4, <1>5, <1>6 DEF AInv


\* The outcomes of a round.
LEMMA OutcomesMerged ==
  ASSUME AInv, NEW c \in 1 .. 4, \A k \in 1 .. c : Len(outcomes) + k \in Subs
  PROVE  LET new == outcomes \o FlattenSeq(OutcomeLists(c)) IN
         /\ new \in Seq([agent : Subs, ok : BOOLEAN])
         /\ Len(new) = Len(outcomes) + c
         /\ (\A k \in DOMAIN outcomes : outcomes[k].agent = k)
              => \A k \in DOMAIN new : new[k].agent = k
<1> DEFINE O == [agent : Subs, ok : BOOLEAN]
           L == Len(outcomes)
           Named(x) == \A k \in DOMAIN x : x[k].agent = k
           G == [k \in 0 .. c |-> {x \in Seq(O) : /\ Len(x) = L + k
                                                  /\ Named(outcomes) => Named(x)}]
           ss == OutcomeLists(c)
<1>1. outcomes \in Seq(O) /\ L \in Nat /\ sub \in [Subs -> Executions]
  BY DEF AInv, Typed
<1>2. ASSUME NEW k \in 1 .. c
      PROVE  \E o \in O : ss[k] = <<o>> /\ o.agent = L + k
  <2>1. L + k \in Subs
    OBVIOUS
  <2>2. sub[L + k].ok \in BOOLEAN
    BY <1>1, <2>1 DEF Executions
  <2> DEFINE o == [agent |-> L + k, ok |-> sub[L + k].ok]
  <2>3. o \in O /\ o.agent = L + k /\ ss[k] = <<o>>
    BY <2>1, <2>2 DEF OutcomeLists
  <2> QED
    BY <2>3
<1>3. ss \in [1 .. c -> Seq(O)]
  <2>3. ASSUME NEW o \in O PROVE <<o>> \in Seq(O)
    OBVIOUS
  <2> HIDE DEF O
  <2>1. \A k \in 1 .. c : ss[k] \in Seq(O)
    BY <1>2, <2>3
  <2>2. ss = [k \in 1 .. c |-> ss[k]]
    BY DEF OutcomeLists
  <2> HIDE DEF ss
  <2> QED
    BY <2>1, <2>2
<1> HIDE DEF ss, L
<1>4. outcomes \in G[0]
  BY <1>1 DEF L
<1>5. ASSUME NEW k \in 1 .. c, NEW x \in Seq(O), x \in G[k - 1] PROVE x \o ss[k] \in G[k]
  <2>1. PICK o \in O : ss[k] = <<o>> /\ o.agent = L + k
    BY <1>2
  <2>2. k - 1 \in 0 .. c /\ Len(x) = L + (k - 1) /\ (Named(outcomes) => Named(x))
    BY <1>5
  <2> DEFINE y == x \o <<o>>
  <2>3. /\ y \in Seq(O) /\ Len(y) = Len(x) + 1 /\ \A j \in 1 .. Len(x) : y[j] = x[j]
        /\ y[Len(x) + 1] = o
    OBVIOUS
  <2> HIDE DEF y
  <2>4. Len(y) = L + k /\ DOMAIN y = 1 .. L + k /\ DOMAIN x = 1 .. (L + k) - 1
    BY <1>1, <2>2, <2>3
  <2>5. \A j \in 1 .. L + k : j \in 1 .. Len(x) \/ j = L + k
    BY <1>1, <2>2
  <2>6. Named(x) => Named(y)
    BY <1>1, <2>1, <2>2, <2>3, <2>4, <2>5
  <2>7. y \in G[k]
    BY <2>2, <2>3, <2>4, <2>6
  <2> QED
    BY <2>1, <2>7 DEF y
<1> HIDE DEF G
<1>6. outcomes \o FlattenSeq(ss) \in G[c]
  BY <1>1, <1>3, <1>4, <1>5, Stages
<1>7. c \in 0 .. c
  OBVIOUS
<1> QED
  BY <1>6, <1>7 DEF G, L, ss

\* So are the facts and the tool outcomes of the round typed.
LEMMA RecordsMerged ==
  ASSUME AInv, NEW c \in 1 .. 4, \A k \in 1 .. c : Len(outcomes) + k \in Subs
  PROVE  /\ events \o FlattenSeq(EventLists(c)) \in Seq(Events)
         /\ tools \o FlattenSeq(ToolLists(c)) \in Seq(ToolRecords)
<1>1. events \in Seq(Events) /\ tools \in Seq(ToolRecords) /\ sub \in [Subs -> Executions]
  BY DEF AInv, Typed
<1>2. EventLists(c) \in [1 .. c -> Seq(Events)] /\ ToolLists(c) \in [1 .. c -> Seq(ToolRecords)]
  BY <1>1 DEF EventLists, ToolLists, Executions
<1>3. events \o FlattenSeq(EventLists(c)) \in Seq(Events)
  <2> DEFINE G == [k \in 0 .. c |-> Seq(Events)]
             ss == EventLists(c)
  <2>1. events \in G[0]
    BY <1>1
  <2>2. \A k \in 1 .. c : \A x \in Seq(Events) : x \in G[k - 1] => x \o ss[k] \in G[k]
    BY <1>2
  <2>3. ss \in [1 .. c -> Seq(Events)]
    BY <1>2
  <2> HIDE DEF G, ss
  <2>4. events \o FlattenSeq(ss) \in Seq(Events)
    BY <1>1, <2>1, <2>2, <2>3, Stages
  <2> QED
    BY <2>4 DEF ss
<1>4. tools \o FlattenSeq(ToolLists(c)) \in Seq(ToolRecords)
  <2> DEFINE G == [k \in 0 .. c |-> Seq(ToolRecords)]
             ss == ToolLists(c)
  <2>1. tools \in G[0]
    BY <1>1
  <2>2. \A k \in 1 .. c : \A x \in Seq(ToolRecords) : x \in G[k - 1] => x \o ss[k] \in G[k]
    BY <1>2
  <2>3. ss \in [1 .. c -> Seq(ToolRecords)]
    BY <1>2
  <2> HIDE DEF G, ss
  <2>4. tools \o FlattenSeq(ss) \in Seq(ToolRecords)
    BY <1>1, <2>1, <2>2, <2>3, Stages
  <2> QED
    BY <2>4 DEF ss
<1> QED
  BY <1>3, <1>4

\* The Subs of a round that was merged are done, and all the earlier ones are.
LEMMA MergeKeeps ==
  ASSUME AInv, Merge
  PROVE  AInv'
<1>1. /\ status = "running" /\ waiting /\ \A n \in RoundSubs : sub[n].pc = "done"
      /\ causes' = causes \cup {sub[n].final : n \in RoundSubs}
      /\ round' = round + 1 /\ attempt' = 0 /\ waiting' = FALSE
      /\ status' = (IF round + 1 = MaxMainRounds THEN "failed" ELSE status)
      /\ UNCHANGED <<limits, rounds, sub, budget>>
  BY MergeIs
<1>2. PICK c \in 1 .. 4 :
        /\ Len(outcomes) + c <= MaxSpawnPerEpisode
        /\ RoundSubs = Following(c) /\ \A k \in 1 .. c : Len(outcomes) + k \in Subs
        /\ events' = events \o FlattenSeq(EventLists(c))
        /\ tools' = tools \o FlattenSeq(ToolLists(c))
        /\ outcomes' = outcomes \o FlattenSeq(OutcomeLists(c))
  BY MergeIs
<1>3. Typed /\ Limited /\ Delegated
  BY DEF AInv
<1>4. /\ outcomes' \in Seq([agent : Subs, ok : BOOLEAN])
      /\ Len(outcomes') = Len(outcomes) + c
  BY <1>2, OutcomesMerged
<1>5. events' \in Seq(Events) /\ tools' \in Seq(ToolRecords)
  BY <1>2, RecordsMerged
<1>6. Len(outcomes) \in Nat /\ limits \in Profiles /\ sub \in [Subs -> Executions] /\ round \in Nat
  BY <1>3 DEF Typed
<1>7. RoundSubs \subseteq Subs
  <2>1. \A n \in Following(c) : n - Len(outcomes) \in 1 .. c /\ n = Len(outcomes) + (n - Len(outcomes))
    BY <1>6 DEF Following
  <2> QED
    BY <1>2, <2>1
<1>8. causes' \subseteq Step
  <2>1. \A n \in RoundSubs : sub[n].final \in Step
    BY <1>6, <1>7 DEF Executions
  <2> QED
    BY <1>1, <1>3, <2>1 DEF Typed
<1>9. Typed'
  <2>1. /\ status' \in {"running", "success", "failed", "raised"} /\ round' \in Nat
        /\ attempt' \in Nat /\ waiting' \in BOOLEAN
        /\ UNCHANGED <<limits, rounds, sub, committed, permits>>
    <3>1. round + 1 \in Nat /\ 0 \in Nat
      BY <1>6
    <3>2. status' = "failed" \/ status' = "running"
      BY <1>1
    <3> QED
      BY <1>1, <3>1, <3>2 DEF budget
  <2> QED
    BY <1>3, <1>4, <1>5, <1>8, <2>1 DEF Typed
<1>10. Budgeted' /\ \A n \in Subs : Fits(sub[n])'
  BY <1>1, SubsRest
<1>11. Limited'
  <2>1. /\ MainRepairs' = MainRepairs /\ MaxMainRounds' = MaxMainRounds
        /\ MainRepairs \in Nat
    BY <1>1, <1>6, LimitsTyped DEF MainRepairs, MaxMainRounds
  <2> QED
    BY <1>1, <1>3, <1>6, <1>10, <2>1 DEF Limited
<1>12. Delegated'
  <2>1. Awaited' = {} /\ Awaited = Following(c)
    BY <1>1, <1>2 DEF Awaited
  <2>2. MaxSpawnPerEpisode' = MaxSpawnPerEpisode /\ MaxSpawnPerRound' = MaxSpawnPerRound
    BY <1>1 DEF MaxSpawnPerEpisode, MaxSpawnPerRound
  <2>3. (1 .. Len(outcomes)) \cup Following(c) = 1 .. Len(outcomes) + c
    BY <1>6 DEF Following
  <2>4. UNION {r.subs : r \in ToSet(rounds')} = 1 .. Len(outcomes')
    BY <1>1, <1>3, <1>4, <2>1, <2>3 DEF Delegated
  <2>5. \A n \in Subs : /\ n <= Len(outcomes') => sub[n].pc = "done"
                        /\ n > Len(outcomes') => sub[n].pc = "none"
    <3> TAKE n \in Subs
    <3>1. n \in Nat \ {0}
      BY Numbers
    <3>2. CASE n <= Len(outcomes)
      BY <1>3, <1>4, <1>6, <3>1, <3>2 DEF Delegated
    <3>3. CASE n > Len(outcomes) /\ n <= Len(outcomes) + c
      <4>1. n \in RoundSubs
        BY <1>2, <1>6, <3>1, <3>3 DEF Following
      <4> QED
        BY <1>1, <1>4, <1>6, <3>1, <3>3, <4>1
    <3>4. CASE n > Len(outcomes) + c
      <4>1. n \notin Awaited /\ n > Len(outcomes)
        BY <1>6, <2>1, <3>1, <3>4 DEF Following
      <4> QED
        BY <1>3, <1>4, <1>6, <3>1, <3>4, <4>1 DEF Delegated
    <3> QED
      BY <1>6, <3>1, <3>2, <3>3, <3>4
  <2> QED
    BY <1>1, <1>2, <1>3, <1>4, <2>1, <2>2, <2>4, <2>5 DEF Delegated
<1> QED
  BY <1>9, <1>10, <1>11, <1>12 DEF AInv

-----------------------------------------------------------------------------
(* Types and limits, for every episode                                       *)

\* Every step keeps the invariant.
THEOREM EpisodeStep == AInv /\ [Next]_vars => AInv'
<1> SUFFICES ASSUME AInv, [Next]_vars PROVE AInv'
  OBVIOUS
<1>1. CASE MainNext
  BY <1>1, MainTurnKeeps, MainRaisesKeeps, MergeKeeps DEF MainNext
<1>2. ASSUME NEW n \in Subs, SubNext(n) PROVE AInv'
  BY <1>2, SubTurnKeeps, SubRaisesKeeps, StartToolKeeps, EndToolKeeps, EndTurnKeeps DEF SubNext
<1>3. CASE UNCHANGED vars
  <2>1. UNCHANGED <<limits, status, round, attempt, waiting, causes, events, rounds, outcomes,
                    tools, sub, committed, permits>>
    BY <1>3 DEF vars, main, budget
  <2>2. Typed' /\ Budgeted' /\ \A n \in Subs : Fits(sub[n])'
    BY <2>1, SubsRest DEF budget, AInv, Typed
  <2>3. Limited'
    BY <2>1, <2>2 DEF AInv, Limited, MainRepairs, MaxMainRounds
  <2>4. Delegated'
    BY <2>1 DEF AInv, Delegated, Awaited, RoundSubs, Following, MaxSpawnPerEpisode,
                MaxSpawnPerRound
  <2> QED
    BY <2>2, <2>3, <2>4 DEF AInv
<1> QED
  BY <1>1, <1>2, <1>3 DEF Next

\* What the invariant says of types.
LEMMA TypesHold == AInv => TypeOK
<1> SUFFICES ASSUME AInv PROVE TypeOK
  OBVIOUS
<1>1. Typed /\ Limited /\ Budgeted
  BY DEF AInv
<1>2. /\ MaxMainRounds \in Nat /\ MainRepairs \in Nat /\ MaxSubTurns \in Nat
      /\ SubRepairs \in Nat /\ MaxConcurrency \in Nat /\ limits \in Profiles
  BY <1>1, LimitsTyped DEF Typed
<1>3. round \in 0 .. MaxMainRounds /\ attempt \in 0 .. MainRepairs
  BY <1>1, <1>2 DEF Typed, Limited
<1>4. \A k \in DOMAIN events : events[k].step \in Step /\ events[k].causes \subseteq Step
  <2>1. \A k \in DOMAIN events : events[k] \in Events
    BY <1>1 DEF Typed
  <2> QED
    BY <2>1 DEF Events
<1>5. \A k \in DOMAIN rounds : rounds[k].main \in Step /\ rounds[k].subs \subseteq Subs
  <2>1. \A k \in DOMAIN rounds : rounds[k] \in [main : Step, subs : SUBSET Subs]
    <3> DEFINE R == [main : Step, subs : SUBSET Subs]
    <3>1. rounds \in Seq(R)
      BY <1>1 DEF Typed
    <3> HIDE DEF R
    <3>2. \A k \in DOMAIN rounds : rounds[k] \in R
      BY <3>1
    <3> QED
      BY <3>2 DEF R
  <2> QED
    BY <2>1
<1>6. ASSUME NEW n \in Subs
      PROVE  /\ sub[n].pc \in {"none", "generate", "tools", "done"}
             /\ sub[n].turn \in 0 .. MaxSubTurns
             /\ sub[n].attempt \in 0 .. SubRepairs
             /\ Len(sub[n].calls) <= MaxToolsPerTurn
  BY <1>1, <1>2 DEF Typed, Executions, Limited, Fits
<1>7. permits \in 0 .. MaxConcurrency
  <2>1. Cardinality(committed) \in Nat /\ permits \in Nat
    BY <1>1, FS_CardinalityType DEF Budgeted, Typed
  <2>2. Cardinality(committed) + permits = MaxConcurrency
    BY <1>1 DEF Budgeted
  <2> QED
    BY <1>2, <2>1, <2>2
<1> QED
  BY <1>1, <1>3, <1>4, <1>5, <1>6, <1>7 DEF TypeOK, Typed

\* What it says of the limits: a call that waits holds no slot, so with a permit left there
\* is one for it; when Main has returned, no call runs.
LEMMA LimitsHold == AInv => LimitsKept
<1> SUFFICES ASSUME AInv PROVE LimitsKept
  OBVIOUS
<1>1. Typed /\ Limited /\ Delegated /\ Budgeted
  BY DEF AInv
<1>2. /\ MaxMainRounds \in Nat /\ MaxConcurrency \in Nat /\ MaxSpawnPerEpisode \in Nat
      /\ limits \in Profiles /\ Len(outcomes) \in Nat /\ Cardinality(committed) \in Nat
      /\ permits \in Nat /\ round \in Nat
  BY <1>1, LimitsTyped, FS_CardinalityType DEF Typed, Budgeted
<1>3. BudgetKept
  <2>1. ASSUME NEW n \in Subs, NEW i \in DOMAIN sub[n].calls, sub[n].states[i] = "waiting",
               permits > 0
        PROVE  ~Refused(StepOf(n, i))
    <3>1. ASSUME StepOf(n, i) \in committed PROVE FALSE
      <4>1. PICK t \in Running : StepOf(n, i) = StepOf(t[1], t[2])
        BY <1>1, <3>1 DEF Budgeted
      <4>2. t[1] = n /\ t[2] = i
        BY <4>1, StepOfInjective
      <4> QED
        BY <2>1, <4>1, <4>2 DEF Running
    <3>2. ~(Cardinality(committed) >= MaxConcurrency)
      BY <1>1, <1>2, <2>1 DEF Budgeted
    <3> QED
      BY <3>1, <3>2 DEF Refused
  <2>2. ASSUME Returned PROVE committed = {}
    <3>1. ~waiting
      BY <1>1, <2>2 DEF Returned, Limited
    <3>2. ASSUME NEW n \in Subs PROVE DOMAIN sub[n].states = {}
      <4>1. sub[n].pc # "tools"
        <5>1. n \in Nat
          BY Numbers
        <5> QED
          BY <1>1, <1>2, <3>1, <5>1 DEF Delegated, Awaited
      <4>2. Len(sub[n].states) = 0
        BY <1>1, <4>1 DEF Limited, Fits
      <4>3. sub[n].states \in Seq({"waiting", "running", "success", "failed"})
        BY <1>1 DEF Typed, Executions
      <4> QED
        BY <4>2, <4>3
    <3>3. Running = {}
      BY <3>2 DEF Running
    <3> QED
      BY <1>1, <3>3 DEF Budgeted
  <2> QED
    BY <1>1, <2>1, <2>2 DEF BudgetKept, Budgeted
<1>4. SpawnsBounded
  <2>1. Len(rounds) < MaxMainRounds
    BY <1>1, <1>2 DEF Limited
  <2>2. Cardinality(UNION {r.subs : r \in ToSet(rounds)}) <= MaxSpawnPerEpisode
    <3>1. \E k \in Nat : /\ UNION {r.subs : r \in ToSet(rounds)} = 1 .. k
                         /\ k <= MaxSpawnPerEpisode
      <4>1. CASE ~waiting
        BY <1>1, <1>2, <4>1 DEF Delegated, Awaited
      <4>2. CASE waiting
        <5>1. PICK c \in 1 .. 4 : /\ Len(outcomes) + c <= MaxSpawnPerEpisode
                                  /\ RoundSubs = Following(c)
          BY <1>1, <4>2 DEF Delegated
        <5>2. (1 .. Len(outcomes)) \cup Following(c) = 1 .. Len(outcomes) + c
          BY <1>2 DEF Following
        <5>3. Len(outcomes) + c \in Nat
          BY <1>2
        <5> QED
          BY <1>1, <4>2, <5>1, <5>2, <5>3 DEF Delegated, Awaited
      <4> QED
        BY <4>1, <4>2
    <3>2. PICK k \in Nat : /\ UNION {r.subs : r \in ToSet(rounds)} = 1 .. k
                           /\ k <= MaxSpawnPerEpisode
      BY <3>1
    <3>3. Cardinality(1 .. k) = k
      <4>1. Cardinality(1 .. k) = IF 1 > k THEN 0 ELSE k - 1 + 1
        BY FS_Interval
      <4> QED
        BY <4>1
    <3> QED
      BY <3>2, <3>3
  <2>3. \A k \in DOMAIN rounds : Cardinality(rounds[k].subs) <= MaxSpawnPerRound
    BY <1>1 DEF Delegated
  <2> QED
    BY <2>1, <2>2, <2>3 DEF SpawnsBounded
<1> QED
  BY <1>3, <1>4 DEF LimitsKept

\* The state of an episode is typed (wideseek_episode.py; budget.py).
THEOREM TypeCorrect == Spec => []TypeOK
<1>1. Spec => []AInv
  BY AInit, EpisodeStep, PTL DEF Spec
<1> QED
  BY <1>1, TypesHold, PTL

\* Slots and permits go together and come back, and Main delegates within its limits,
\* for every limits an episode is given (budget.py; wideseek_episode.py, _generate_main_turn).
THEOREM LimitsKeptAlways == Spec => []LimitsKept
<1>1. Spec => []AInv
  BY AInit, EpisodeStep, PTL DEF Spec
<1> QED
  BY <1>1, LimitsHold, PTL


-----------------------------------------------------------------------------
(* The trace: what a Sub records, and what Main merges                        *)

\* A sequence of facts has a step, and has it before another.
Has(q, x) == \E j \in DOMAIN q : q[j].step = x

Precedes(q, x, y) == \E i, j \in DOMAIN q : i < j /\ q[i].step = x /\ q[j].step = y

\* The facts of Sub n: each has a step of its own, caused by the delegation o or earlier.
Lines(q, n, o) ==
  /\ \A i \in DOMAIN q : q[i].step.agent = n
  /\ \A i, j \in DOMAIN q : q[i].step = q[j].step => i = j
  /\ \A i \in DOMAIN q : \A c \in q[i].causes :
       c = o \/ \E j \in DOMAIN q : j < i /\ q[j].step = c

\* A step that comes before all the Sub may do next.
Past(s, x) ==
  /\ x.kind # "failure"
  /\ \/ x.turn < s.turn
     \/ /\ x.turn = s.turn /\ x.kind = "model"
        /\ s.pc = "generate" => x.index < s.attempt

\* What the Sub does next is caused by what it has.
Pending(s, o) == \A c \in s.causes : c = o \/ Has(s.events, c)

\* What it knows it found in searches of earlier turns, one for an address.
Searches(known, turn, q, n) ==
  /\ \A k \in known : /\ k.step.kind = "search" /\ k.step.agent = n /\ k.step.turn < turn
                      /\ Has(q, k.step)
  /\ \A k, l \in known : k.url = l.url => k = l

\* Its tool outcomes are among its steps; what it accessed has one source, before it.
Found(t, q, n, x) ==
  /\ t.source = {x} /\ x.kind = "search" /\ x.agent = n /\ x.turn < t.step.turn
  /\ Precedes(q, x, t.step)

Sourced(records, q, n) ==
  \A k \in DOMAIN records :
    /\ Has(q, records[k].step)
    /\ records[k].step.kind = "access" /\ records[k].ok => \E x : Found(records[k], q, n, x)

\* It calls what it knows, or fails.
Allowed(s) == \A i \in DOMAIN s.calls : s.states[i] = "failed" \/ Known(s, s.calls[i])

Own(s, n, o) ==
  /\ Lines(s.events, n, o)
  /\ s.pc # "done" => Pending(s, o) /\ \A i \in DOMAIN s.events : Past(s, s.events[i].step)
  /\ s.pc = "done" => Has(s.events, s.final)
  /\ Searches(s.known, s.turn, s.events, n)
  /\ Sourced(s.tools, s.events, n)
  /\ s.pc = "tools" => Allowed(s)

\* Main's own steps differ, and are caused by what lies before them.
Chain(q) ==
  \A k \in DOMAIN q :
    q[k].step.agent = 0 =>
      /\ \A j \in DOMAIN q : q[j].step = q[k].step => j = k
      /\ \A c \in q[k].causes : \E j \in DOMAIN q : j < k /\ q[j].step = c

\* The facts of the first m Subs lie in q one after the other, those of n behind at[n],
\* and its delegation before them.
Laid(q, at, m, subs) ==
  /\ \A n \in 1 .. m :
       /\ at[n] + Len(subs[n].events) <= Len(q)
       /\ \A i \in DOMAIN subs[n].events : q[at[n] + i] = subs[n].events[i]
       /\ \E o : Own(subs[n], n, o) /\ \E p \in 1 .. at[n] : q[p].step = o
       /\ \A l \in 1 .. m : n < l => at[n] + Len(subs[n].events) <= at[l]
  /\ \A k \in DOMAIN q :
       LET n == q[k].step.agent IN
       n # 0 => n \in 1 .. m /\ k - at[n] \in DOMAIN subs[n].events

\* Main's steps so far come before the next one it may take.
MayTurn == status = "running" /\ ~waiting

MainPast(x, r, a, may) == x.turn < r \/ (x.turn = r /\ (may => x.index < a))

Merged ==
  /\ Chain(events)
  /\ \E at \in [1 .. Len(outcomes) -> Nat] : Laid(events, at, Len(outcomes), sub)
  /\ \A k \in DOMAIN events :
       events[k].step.agent = 0 => MainPast(events[k].step, round, attempt, MayTurn)

\* What Main refers to, it has.
Referred ==
  /\ \A c \in causes : Has(events, c)
  /\ \A k \in DOMAIN rounds : Has(events, rounds[k].main)
  /\ \A k \in DOMAIN outcomes : outcomes[k].agent = k
  /\ \A k \in DOMAIN tools :
       \E n \in 1 .. Len(outcomes) : \E i \in DOMAIN sub[n].tools : tools[k] = sub[n].tools[i]

\* The Subs at work were delegated by the last round.
Working == waiting => \A n \in RoundSubs : Own(sub[n], n, Last(rounds).main)

TInv == AInv /\ Merged /\ Referred /\ Working

-----------------------------------------------------------------------------
(* The trace: lemmas about sequences of facts                                *)

\* r goes on where q ends.
Extends(q, r) == DOMAIN q \subseteq DOMAIN r /\ \A i \in DOMAIN q : r[i] = q[i]

\* A longer sequence has what a shorter one has, in the same order.
LEMMA Longer ==
  ASSUME NEW q, NEW r, Extends(q, r)
  PROVE  /\ \A x : Has(q, x) => Has(r, x)
         /\ \A x, y : Precedes(q, x, y) => Precedes(r, x, y)
         /\ \A n, known, turn : Searches(known, turn, q, n) => Searches(known, turn, r, n)
         /\ \A n, records : Sourced(records, q, n) => Sourced(records, r, n)
<1>1. \A x : Has(q, x) => Has(r, x)
  BY DEF Has, Extends
<1>2. \A x, y : Precedes(q, x, y) => Precedes(r, x, y)
  BY DEF Precedes, Extends
<1>3. \A n, known, turn : Searches(known, turn, q, n) => Searches(known, turn, r, n)
  BY <1>1 DEF Searches
<1>4. \A t, n, x : Found(t, q, n, x) => Found(t, r, n, x)
  BY <1>2 DEF Found
<1>5. \A n, records : Sourced(records, q, n) => Sourced(records, r, n)
  BY <1>1, <1>4 DEF Sourced
<1> QED
  BY <1>1, <1>2, <1>3, <1>5

\* One more fact, of a new step that has its causes.
LEMMA LinesAppend ==
  ASSUME NEW q \in Seq(Events), NEW e \in Events, NEW n, NEW o, Lines(q, n, o),
         e.step.agent = n, \A i \in DOMAIN q : q[i].step # e.step,
         \A c \in e.causes : c = o \/ Has(q, c)
  PROVE  LET r == Append(q, e) IN
         /\ r \in Seq(Events) /\ Len(r) = Len(q) + 1 /\ Extends(q, r) /\ Has(r, e.step)
         /\ \A i \in DOMAIN r : i \in DOMAIN q \/ r[i] = e
         /\ Lines(r, n, o)
<1> DEFINE r == Append(q, e)
<1>1. /\ r \in Seq(Events) /\ Len(r) = Len(q) + 1 /\ Len(q) \in Nat
      /\ \A k \in 1 .. Len(q) : r[k] = q[k]
      /\ r[Len(q) + 1] = e
  OBVIOUS
<1>2. DOMAIN r = 1 .. Len(q) + 1 /\ DOMAIN q = 1 .. Len(q)
  BY <1>1
<1> HIDE DEF r
<1>3. Extends(q, r) /\ \A i \in DOMAIN r : i \in DOMAIN q \/ i = Len(q) + 1
  BY <1>1, <1>2 DEF Extends
<1>4. Has(r, e.step) /\ Len(q) + 1 \in DOMAIN r /\ r[Len(q) + 1] = e
  BY <1>1, <1>2 DEF Has
<1>5. \A i \in DOMAIN r : i \in DOMAIN q \/ r[i] = e
  BY <1>3, <1>4
<1>6. \A i \in DOMAIN r : r[i].step.agent = n
  BY <1>3, <1>5 DEF Lines, Extends
<1>7. ASSUME NEW i \in DOMAIN r, NEW j \in DOMAIN r, r[i].step = r[j].step PROVE i = j
  <2>1. CASE i \in DOMAIN q /\ j \in DOMAIN q
    BY <1>3, <1>7, <2>1 DEF Lines, Extends
  <2>2. CASE i \in DOMAIN q /\ j = Len(q) + 1
    BY <1>3, <1>4, <1>7, <2>2 DEF Extends
  <2>3. CASE i = Len(q) + 1 /\ j \in DOMAIN q
    BY <1>3, <1>4, <1>7, <2>3 DEF Extends
  <2> QED
    BY <1>3, <2>1, <2>2, <2>3
<1>8. ASSUME NEW i \in DOMAIN r, NEW c \in r[i].causes
      PROVE  c = o \/ \E j \in DOMAIN r : j < i /\ r[j].step = c
  <2>1. CASE i \in DOMAIN q
    <3>1. r[i] = q[i]
      BY <1>3, <2>1 DEF Extends
    <3>2. c = o \/ \E j \in DOMAIN q : j < i /\ q[j].step = c
      BY <1>8, <2>1, <3>1 DEF Lines
    <3> QED
      BY <1>3, <3>2 DEF Extends
  <2>2. CASE i = Len(q) + 1
    <3>1. c = o \/ \E j \in DOMAIN q : q[j].step = c
      BY <1>4, <1>8, <2>2 DEF Has
    <3>2. \A j \in DOMAIN q : j < i
      BY <1>1, <1>2, <2>2
    <3> QED
      BY <1>3, <3>1, <3>2 DEF Extends
  <2> QED
    BY <1>3, <2>1, <2>2
<1>9. Lines(r, n, o)
  BY <1>6, <1>7, <1>8 DEF Lines
<1> QED
  BY <1>1, <1>3, <1>4, <1>5, <1>9 DEF r

\* The facts of a turn's calls, each of a new step, that have their causes.
LEMMA LinesConcat ==
  ASSUME NEW q \in Seq(Events), NEW t \in Seq(Events), NEW n, NEW o, Lines(q, n, o),
         \A i \in DOMAIN t : /\ t[i].step.agent = n
                             /\ \A j \in DOMAIN q : q[j].step # t[i].step
                             /\ \A j \in DOMAIN t : t[i].step = t[j].step => i = j
                             /\ \A c \in t[i].causes : c = o \/ Has(q, c)
  PROVE  LET r == q \o t IN
         /\ r \in Seq(Events) /\ Extends(q, r)
         /\ \A i \in DOMAIN r : \/ i \in DOMAIN q
                                \/ i - Len(q) \in DOMAIN t /\ r[i] = t[i - Len(q)]
         /\ \A i \in DOMAIN t : Len(q) + i \in DOMAIN r /\ r[Len(q) + i] = t[i]
         /\ Lines(r, n, o)
<1> DEFINE r == q \o t
<1>1. /\ r \in Seq(Events) /\ Len(r) = Len(q) + Len(t) /\ Len(q) \in Nat /\ Len(t) \in Nat
      /\ \A k \in 1 .. Len(q) : r[k] = q[k]
      /\ \A k \in 1 .. Len(t) : r[Len(q) + k] = t[k]
  OBVIOUS
<1>2. DOMAIN r = 1 .. Len(q) + Len(t) /\ DOMAIN q = 1 .. Len(q) /\ DOMAIN t = 1 .. Len(t)
  BY <1>1
<1> HIDE DEF r
<1>3. Extends(q, r)
  BY <1>1, <1>2 DEF Extends
<1>4. \A i \in DOMAIN r : \/ i \in DOMAIN q
                          \/ i - Len(q) \in DOMAIN t /\ r[i] = t[i - Len(q)]
  <2> TAKE i \in DOMAIN r
  <2>1. CASE i > Len(q)
    <3>1. i - Len(q) \in 1 .. Len(t) /\ Len(q) + (i - Len(q)) = i
      BY <1>1, <1>2, <2>1
    <3> QED
      BY <1>1, <1>2, <3>1
  <2> QED
    BY <1>1, <1>2, <2>1
<1>5. \A i \in DOMAIN t : Len(q) + i \in DOMAIN r /\ r[Len(q) + i] = t[i]
  BY <1>1, <1>2
<1>6. \A i \in DOMAIN r : r[i].step.agent = n
  BY <1>3, <1>4 DEF Lines, Extends
<1>7. ASSUME NEW i \in DOMAIN r, NEW j \in DOMAIN r, r[i].step = r[j].step PROVE i = j
  <2>1. CASE i \in DOMAIN q /\ j \in DOMAIN q
    BY <1>3, <1>7, <2>1 DEF Lines, Extends
  <2>2. CASE i \in DOMAIN q /\ j \notin DOMAIN q
    BY <1>3, <1>4, <1>7, <2>2 DEF Extends
  <2>3. CASE i \notin DOMAIN q /\ j \in DOMAIN q
    BY <1>3, <1>4, <1>7, <2>3 DEF Extends
  <2>4. CASE i \notin DOMAIN q /\ j \notin DOMAIN q
    <3>1. i - Len(q) = j - Len(q)
      BY <1>4, <1>7, <2>4
    <3> QED
      BY <1>1, <1>2, <3>1
  <2> QED
    BY <2>1, <2>2, <2>3, <2>4
<1>8. ASSUME NEW i \in DOMAIN r, NEW c \in r[i].causes
      PROVE  c = o \/ \E j \in DOMAIN r : j < i /\ r[j].step = c
  <2>1. CASE i \in DOMAIN q
    <3>1. r[i] = q[i]
      BY <1>3, <2>1 DEF Extends
    <3>2. c = o \/ \E j \in DOMAIN q : j < i /\ q[j].step = c
      BY <1>8, <2>1, <3>1 DEF Lines
    <3> QED
      BY <1>3, <3>2 DEF Extends
  <2>2. CASE i \notin DOMAIN q
    <3>1. c = o \/ \E j \in DOMAIN q : q[j].step = c
      BY <1>4, <1>8, <2>2 DEF Has
    <3>2. \A j \in DOMAIN q : j < i
      BY <1>1, <1>2, <2>2
    <3> QED
      BY <1>3, <3>1, <3>2 DEF Extends
  <2> QED
    BY <2>1, <2>2
<1>9. Lines(r, n, o)
  BY <1>6, <1>7, <1>8 DEF Lines
<1> QED
  BY <1>1, <1>3, <1>4, <1>5, <1>9 DEF r

-----------------------------------------------------------------------------
(* The trace: a step of a Sub                                                *)

\* What a Sub that has not failed has so far.
Live(s, n, o) ==
  /\ Lines(s.events, n, o) /\ Pending(s, o)
  /\ \A i \in DOMAIN s.events : s.events[i].step.kind # "failure"
  /\ Searches(s.known, s.turn, s.events, n) /\ Sourced(s.tools, s.events, n)

\* A failure is a step of its own, caused by the last one or by the delegation.
LEMMA FailedOwn ==
  ASSUME NEW n \in Subs, NEW s \in Executions, NEW o, Live(s, n, o)
  PROVE  Own(FailedSub(s, n), n, o)
<1> DEFINE f == FailedSub(s, n)
<1>1. PICK cause \in SUBSET Step :
        /\ cause = (IF s.events = <<>> THEN s.causes ELSE {Last(s.events).step})
        /\ f = [pc |-> "done", turn |-> s.turn, attempt |-> s.attempt, causes |-> s.causes,
                events |-> Append(s.events, Event(FailureStep(n), cause)), tools |-> s.tools,
                known |-> s.known, calls |-> s.calls, states |-> s.states,
                final |-> FailureStep(n), ok |-> s.ok]
  BY FailedIs
<1> DEFINE e == Event(FailureStep(n), cause)
<1>2. s.events \in Seq(Events) /\ e \in Events /\ e.step = FailureStep(n) /\ e.causes = cause
  BY StepsTyped DEF Executions, Event, Events
<1>3. e.step.agent = n /\ \A i \in DOMAIN s.events : s.events[i].step # e.step
  BY <1>2 DEF FailureStep, Live
<1>4. \A c \in e.causes : c = o \/ Has(s.events, c)
  <2>1. CASE s.events = <<>>
    BY <1>1, <1>2, <2>1 DEF Live, Pending
  <2>2. CASE s.events # <<>>
    <3>1. Len(s.events) \in DOMAIN s.events
      BY <1>2, <2>2
    <3> QED
      BY <1>1, <1>2, <2>2, <3>1 DEF Has, Last
  <2> QED
    BY <2>1, <2>2
<1> HIDE DEF e
<1> DEFINE q == Append(s.events, e)
<1>5. Extends(s.events, q) /\ Has(q, e.step) /\ Lines(q, n, o)
  BY <1>2, <1>3, <1>4, LinesAppend DEF Live
<1>6. f.events = q
  BY <1>1 DEF e
<1>7. /\ f.pc = "done" /\ f.final = e.step /\ f.known = s.known /\ f.turn = s.turn
      /\ f.tools = s.tools
  BY <1>1, <1>2
<1> HIDE DEF f, q
<1>8. Searches(f.known, f.turn, f.events, n) /\ Sourced(f.tools, f.events, n)
  BY <1>5, <1>6, <1>7, Longer DEF Live
<1>9. Own(f, n, o)
  BY <1>5, <1>6, <1>7, <1>8 DEF Own
<1> QED
  BY <1>9 DEF f

\* What a Sub says is new, and caused by what it has.
LEMMA SaidOwn ==
  ASSUME AInv, NEW n \in Subs, NEW o, Own(sub[n], n, o), sub[n].pc = "generate"
  PROVE  /\ Lines(Said(n), n, o) /\ Extends(sub[n].events, Said(n)) /\ Has(Said(n), Now(n))
         /\ \A i \in DOMAIN Said(n) : i \in DOMAIN sub[n].events \/ Said(n)[i].step = Now(n)
         /\ Searches(sub[n].known, sub[n].turn, Said(n), n)
         /\ Sourced(sub[n].tools, Said(n), n)
<1> DEFINE e == Event(Now(n), sub[n].causes)
           q == sub[n].events
<1>1. sub[n] \in Executions
  BY DEF AInv, Typed
<1>2. Now(n) \in Step
  BY <1>1, StepsTyped DEF Now, Executions
<1>3. q \in Seq(Events) /\ e \in Events /\ e.step = Now(n) /\ e.causes = sub[n].causes
  BY <1>1, <1>2 DEF Executions, Event, Events
<1>4. e.step.agent = n /\ \A i \in DOMAIN q : q[i].step # e.step
  <2>1. /\ Now(n).agent = n /\ Now(n).turn = sub[n].turn /\ Now(n).index = sub[n].attempt
        /\ sub[n].turn \in Nat /\ sub[n].attempt \in Nat
    BY <1>1 DEF Now, SubStep, Executions
  <2>2. ASSUME NEW i \in DOMAIN q, q[i].step = Now(n) PROVE FALSE
    <3>1. Past(sub[n], q[i].step)
      BY DEF Own
    <3> QED
      BY <2>1, <2>2, <3>1 DEF Past
  <2> QED
    BY <1>3, <2>1, <2>2
<1>5. \A c \in e.causes : c = o \/ Has(q, c)
  BY <1>3 DEF Own, Pending
<1>6. Lines(q, n, o)
  BY DEF Own
<1> HIDE DEF e
<1>7. /\ Extends(q, Append(q, e)) /\ Has(Append(q, e), e.step) /\ Lines(Append(q, e), n, o)
      /\ \A i \in DOMAIN Append(q, e) : i \in DOMAIN q \/ Append(q, e)[i] = e
  BY <1>3, <1>4, <1>5, <1>6, LinesAppend
<1>8. Said(n) = Append(q, e)
  BY DEF Said, e
<1>9. /\ Searches(sub[n].known, sub[n].turn, Said(n), n)
      /\ Sourced(sub[n].tools, Said(n), n)
  BY <1>7, <1>8, Longer DEF Own
<1> QED
  BY <1>3, <1>7, <1>8, <1>9

\* A generation of a Sub, answered or not, keeps its record sound.
LEMMA GenerateOwn ==
  ASSUME AInv, NEW n \in Subs, NEW o, Own(sub[n], n, o), SubTurn(n) \/ SubRaises(n)
  PROVE  /\ sub[n].pc = "generate" /\ UNCHANGED main
         /\ \E s : sub' = [sub EXCEPT ![n] = s] /\ Own(s, n, o)
<1>1. sub[n] \in Executions
  BY DEF AInv, Typed
<1>2. CASE SubRaises(n)
  <2>1. sub[n].pc = "generate" /\ UNCHANGED main /\ sub' = [sub EXCEPT ![n] = FailedSub(sub[n], n)]
    BY <1>2 DEF SubRaises
  <2>2. Live(sub[n], n, o)
    BY <2>1 DEF Live, Own, Past
  <2> QED
    BY <1>1, <2>1, <2>2, FailedOwn
<1>3. CASE SubTurn(n)
  <2>1. /\ sub[n].pc = "generate" /\ UNCHANGED main /\ Spoken(n) \in Executions
        /\ \/ sub' = [sub EXCEPT ![n] = Summarized(n)]
           \/ \E calls \in Seq(CallRecords) :
                /\ Len(calls) <= MaxToolsPerTurn
                /\ sub' = [sub EXCEPT ![n] = Calling(n, calls)]
           \/ /\ sub[n].attempt < SubRepairs
              /\ sub' = [sub EXCEPT ![n] = Repairing(n)]
           \/ sub' = [sub EXCEPT ![n] = FailedSub(Spoken(n), n)]
    BY <1>3, SubTurnIs
  <2>2. /\ Lines(Said(n), n, o) /\ Extends(sub[n].events, Said(n)) /\ Has(Said(n), Now(n))
        /\ \A i \in DOMAIN Said(n) : i \in DOMAIN sub[n].events \/ Said(n)[i].step = Now(n)
        /\ Searches(sub[n].known, sub[n].turn, Said(n), n)
        /\ Sourced(sub[n].tools, Said(n), n)
    BY <2>1, SaidOwn
  <2>3. \A i \in DOMAIN Said(n) : \/ Said(n)[i].step = Now(n)
                                  \/ Past(sub[n], Said(n)[i].step)
    BY <2>1, <2>2 DEF Extends, Own
  <2>4. /\ Now(n).turn = sub[n].turn /\ Now(n).index = sub[n].attempt /\ Now(n).kind = "model"
        /\ sub[n].turn \in Nat /\ sub[n].attempt \in Nat
    BY <1>1 DEF Now, SubStep, Executions
  <2>5. \A c \in sub[n].causes : c = o \/ Has(Said(n), c)
    BY <2>1, <2>2, Longer DEF Own, Pending
  <2>6. Own(Summarized(n), n, o)
    BY <2>2 DEF Own, Summarized
  <2>7. ASSUME NEW calls \in Seq(CallRecords) PROVE Own(Calling(n, calls), n, o)
    <3> DEFINE s == Calling(n, calls)
    <3>1. /\ s.pc = "tools" /\ s.events = Said(n) /\ s.turn = sub[n].turn /\ s.causes = {Now(n)}
          /\ s.known = sub[n].known /\ s.tools = sub[n].tools /\ s.calls = calls
          /\ s.states = CallStates(sub[n], calls)
      BY DEF Calling
    <3> HIDE DEF s
    <3>2. \A i \in DOMAIN s.events : Past(s, s.events[i].step)
      BY <2>1, <2>3, <2>4, <3>1 DEF Past
    <3>3. Pending(s, o)
      BY <2>2, <3>1 DEF Pending
    <3>4. Allowed(s)
      BY <3>1 DEF Allowed, CallStates, Known
    <3> QED
      BY <2>2, <3>1, <3>2, <3>3, <3>4 DEF Own, s
  <2>8. Own(Repairing(n), n, o)
    <3> DEFINE s == Repairing(n)
    <3>1. /\ s.pc = "generate" /\ s.events = Said(n) /\ s.turn = sub[n].turn
          /\ s.attempt = sub[n].attempt + 1 /\ s.causes = sub[n].causes \cup {Now(n)}
          /\ s.known = sub[n].known /\ s.tools = sub[n].tools
      BY <2>1 DEF Repairing
    <3> HIDE DEF s
    <3>2. \A i \in DOMAIN s.events : s.events[i].step.index \in Nat
      <4>1. Said(n) \in Seq(Events)
        BY <2>1 DEF Spoken, Executions
      <4>2. \A i \in DOMAIN Said(n) : Said(n)[i] \in Events
        BY <4>1
      <4>3. \A e \in Events : e.step.index \in Nat
        BY DEF Events, Step
      <4> QED
        BY <3>1, <4>2, <4>3
    <3>3. \A i \in DOMAIN s.events : Past(s, s.events[i].step)
      BY <2>1, <2>3, <2>4, <3>1, <3>2 DEF Past
    <3>4. Pending(s, o)
      BY <2>2, <2>5, <3>1 DEF Pending
    <3> QED
      BY <2>2, <3>1, <3>3, <3>4 DEF Own, s
  <2>9. Own(FailedSub(Spoken(n), n), n, o)
    <3>1. Live(Spoken(n), n, o)
      BY <2>2, <2>3, <2>4, <2>5 DEF Live, Spoken, Pending, Past
    <3> QED
      BY <2>1, <3>1, FailedOwn
  <2> QED
    BY <2>1, <2>6, <2>7, <2>8, <2>9
<1> QED
  BY <1>2, <1>3

\* What a turn's searches discovered is found in searches of the turn or known before, once.
LEMMA DiscoveredOwn ==
  ASSUME NEW n \in Subs, NEW s \in Executions, NEW found, NEW q,
         Searches(s.known, s.turn, s.events, n), Extends(s.events, q),
         \A i \in DOMAIN s.calls : Has(q, ToolStep(n, s.turn, i, s.calls[i]))
  PROVE  Searches(Discovered(s, n, found), s.turn + 1, q, n)
<1> DEFINE searches == {i \in DOMAIN s.calls : s.calls[i].name = "search"
                                               /\ s.states[i] = "success"}
           newest(u) == {i \in searches : u \in found[i]
                                          /\ \A j \in searches : u \in found[j] => j <= i}
           pairs == {p \in Urls \X searches : p[2] \in newest(p[1])}
           new == {[url |-> p[1], step |-> ToolStep(n, s.turn, p[2], s.calls[p[2]])] : p \in pairs}
           old == {k \in s.known : \A d \in new : d.url # k.url}
<1>1. Discovered(s, n, found) = new \cup old
  BY DEF Discovered
<1>2. s.turn \in Nat /\ DOMAIN s.calls \subseteq Nat /\ s.known \subseteq Discoveries
  BY DEF Executions
<1>3. \A p \in pairs : /\ p[2] \in DOMAIN s.calls /\ s.calls[p[2]].name = "search"
                       /\ p[2] \in newest(p[1])
  OBVIOUS
<1>4. \A p, r \in pairs : p[1] = r[1] => p[2] = r[2]
  <2> SUFFICES ASSUME NEW p \in pairs, NEW r \in pairs, p[1] = r[1] PROVE p[2] = r[2]
    OBVIOUS
  <2>1. p[2] <= r[2] /\ r[2] <= p[2] /\ p[2] \in Nat /\ r[2] \in Nat
    BY <1>2, <1>3
  <2> QED
    BY <2>1
<1> HIDE DEF pairs
<1>5. ASSUME NEW k \in new
      PROVE  \E p \in pairs : k.url = p[1] /\ k.step = ToolStep(n, s.turn, p[2], s.calls[p[2]])
                              /\ k = [url |-> p[1], step |-> ToolStep(n, s.turn, p[2], s.calls[p[2]])]
  OBVIOUS
<1> HIDE DEF new
<1>6. ASSUME NEW k \in new
      PROVE  /\ k.step.kind = "search" /\ k.step.agent = n /\ k.step.turn < s.turn + 1
             /\ Has(q, k.step)
  <2>1. PICK p \in pairs : k.step = ToolStep(n, s.turn, p[2], s.calls[p[2]])
    BY <1>5
  <2>2. /\ k.step.kind = "search" /\ k.step.agent = n /\ k.step.turn = s.turn
    BY <1>3, <2>1 DEF ToolStep
  <2>3. Has(q, k.step)
    BY <1>3, <2>1
  <2> QED
    BY <1>2, <2>2, <2>3
<1>7. ASSUME NEW k \in old
      PROVE  /\ k.step.kind = "search" /\ k.step.agent = n /\ k.step.turn < s.turn + 1
             /\ Has(q, k.step)
  <2>1. /\ k.step.kind = "search" /\ k.step.agent = n /\ k.step.turn < s.turn
        /\ Has(s.events, k.step)
    BY DEF Searches
  <2>2. k.step.turn \in Nat
    <3>1. k \in Discoveries
      BY <1>2
    <3> QED
      BY <3>1 DEF Discoveries, Step
  <2>3. Has(q, k.step)
    BY <2>1, Longer
  <2> QED
    BY <1>2, <2>1, <2>2, <2>3
<1>8. ASSUME NEW k \in new \cup old, NEW l \in new \cup old, k.url = l.url PROVE k = l
  <2>1. CASE k \in new /\ l \in new
    <3>1. PICK p \in pairs : k.url = p[1]
                /\ k = [url |-> p[1], step |-> ToolStep(n, s.turn, p[2], s.calls[p[2]])]
      BY <1>5, <2>1
    <3>2. PICK r \in pairs : l.url = r[1]
                /\ l = [url |-> r[1], step |-> ToolStep(n, s.turn, r[2], s.calls[r[2]])]
      BY <1>5, <2>1
    <3>3. p[1] = r[1] /\ p[2] = r[2]
      BY <1>4, <1>8, <3>1, <3>2
    <3> QED
      BY <3>1, <3>2, <3>3
  <2>2. CASE k \in old /\ l \in old
    BY <1>8, <2>2 DEF Searches
  <2>3. CASE k \in new /\ l \in old
    BY <1>8, <2>3
  <2>4. CASE k \in old /\ l \in new
    BY <1>8, <2>4
  <2> QED
    BY <2>1, <2>2, <2>3, <2>4
<1> HIDE DEF old
<1> QED
  BY <1>1, <1>6, <1>7, <1>8 DEF Searches

\* A successful access has the one search that returned its address as a source.
LEMMA OutcomesOwn ==
  ASSUME NEW n \in Subs, NEW s \in Executions, NEW q, Len(s.states) = Len(s.calls),
         Searches(s.known, s.turn, s.events, n), Sourced(s.tools, s.events, n), Allowed(s),
         Extends(s.events, q), NEW d \in Nat, DOMAIN s.events = 1 .. d,
         \A i \in DOMAIN s.calls : d + i \in DOMAIN q
                                   /\ q[d + i].step = ToolStep(n, s.turn, i, s.calls[i])
  PROVE  Sourced(s.tools \o ToolOutcomes(s, n), q, n)
<1> DEFINE t == ToolOutcomes(s, n)
           r == s.tools \o t
<1>1. /\ s.tools \in Seq(ToolRecords) /\ t \in Seq(ToolRecords) /\ Len(t) = Len(s.calls)
      /\ s.calls \in Seq(CallRecords)
  BY TurnRecords DEF Executions
<1>2. ASSUME NEW i \in DOMAIN s.calls
      PROVE  /\ Has(q, t[i].step)
             /\ t[i].step.kind = "access" /\ t[i].ok => \E x : Found(t[i], q, n, x)
  <2>1. /\ t[i].step = ToolStep(n, s.turn, i, s.calls[i]) /\ t[i].ok = (s.states[i] = "success")
        /\ t[i].source = {k.step : k \in {k \in s.known : k.url = s.calls[i].url}}
    BY DEF ToolOutcomes
  <2>2. Has(q, t[i].step)
    BY <2>1 DEF Has
  <2>3. ASSUME t[i].step.kind = "access", t[i].ok PROVE \E x : Found(t[i], q, n, x)
    <3>7. s.states[i] = "success"
      BY <2>1, <2>3
    <3>8. ToolStep(n, s.turn, i, s.calls[i]).kind = s.calls[i].name
      BY DEF ToolStep
    <3>1. s.calls[i].name # "search" /\ s.states[i] # "failed"
      BY <2>1, <2>3, <3>7, <3>8
    <3>2. PICK k \in s.known : k.url = s.calls[i].url
      BY <3>1 DEF Allowed, Known
    <3>3. /\ k.step.kind = "search" /\ k.step.agent = n /\ k.step.turn < s.turn
          /\ Has(s.events, k.step) /\ \A l \in s.known : l.url = k.url => l = k
      BY DEF Searches
    <3>4. t[i].source = {k.step}
      <4>1. {l \in s.known : l.url = s.calls[i].url} = {k}
        BY <3>2, <3>3
      <4>2. {l.step : l \in {k}} = {k.step}
        BY Zenon
      <4> QED
        BY <2>1, <4>1, <4>2
    <3>5. Precedes(q, k.step, t[i].step)
      <4>1. PICK j \in DOMAIN s.events : s.events[j].step = k.step
        BY <3>3 DEF Has
      <4>2. j \in DOMAIN q /\ q[j].step = k.step
        BY <4>1 DEF Extends
      <4>3. j \in Nat /\ j <= d /\ i \in Nat /\ i > 0
        BY <1>1
      <4>4. j < d + i
        BY <4>3
      <4>5. d + i \in DOMAIN q /\ q[d + i].step = t[i].step
        BY <2>1
      <4> QED
        BY <4>2, <4>4, <4>5 DEF Precedes
    <3>6. t[i].step.turn = s.turn
      BY <2>1 DEF ToolStep
    <3> QED
      BY <3>3, <3>4, <3>5, <3>6 DEF Found
  <2> QED
    BY <2>2, <2>3
<1>3. Sourced(s.tools, q, n)
  BY Longer
<1>4. ASSUME NEW k \in DOMAIN r
      PROVE  \/ k \in DOMAIN s.tools /\ r[k] = s.tools[k]
             \/ \E i \in DOMAIN s.calls : r[k] = t[i]
  <2> DEFINE a == s.tools
  <2>5. a \in Seq(ToolRecords) /\ t \in Seq(ToolRecords) /\ r = a \o t
    BY <1>1
  <2> HIDE DEF t, a, r
  <2>6. DOMAIN r = 1 .. Len(a) + Len(t)
    BY <2>5
  <2>7. /\ \A j \in 1 .. Len(a) : r[j] = a[j]
        /\ \A j \in 1 .. Len(t) : r[Len(a) + j] = t[j]
    BY <2>5
  <2>1. /\ DOMAIN s.tools = 1 .. Len(s.tools) /\ DOMAIN s.calls = 1 .. Len(t)
        /\ Len(s.tools) \in Nat /\ Len(t) \in Nat
    BY <1>1
  <2>2. k \in 1 .. Len(s.tools) + Len(t)
    BY <2>6 DEF a
  <2>3. CASE k <= Len(s.tools)
    BY <2>1, <2>2, <2>3, <2>7 DEF a
  <2>4. CASE k > Len(s.tools)
    <3>1. k - Len(s.tools) \in 1 .. Len(t) /\ Len(s.tools) + (k - Len(s.tools)) = k
      BY <2>1, <2>2, <2>4
    <3> QED
      BY <2>1, <2>7, <3>1 DEF a
  <2> QED
    BY <2>1, <2>2, <2>3, <2>4
<1> HIDE DEF r, t
<1>5. Sourced(r, q, n)
  <2> SUFFICES ASSUME NEW k \in DOMAIN r
               PROVE  /\ Has(q, r[k].step)
                      /\ r[k].step.kind = "access" /\ r[k].ok => \E x : Found(r[k], q, n, x)
    BY DEF Sourced
  <2>1. CASE k \in DOMAIN s.tools /\ r[k] = s.tools[k]
    BY <1>3, <2>1 DEF Sourced
  <2>2. CASE \E i \in DOMAIN s.calls : r[k] = t[i]
    BY <1>2, <2>2
  <2> QED
    BY <1>4, <2>1, <2>2
<1> QED
  BY <1>5 DEF r, t

\* A turn that ends keeps the record sound, and so does a call that goes on.
LEMMA EndTurnOwn ==
  ASSUME AInv, NEW n \in Subs, NEW o, Own(sub[n], n, o), EndTurn(n)
  PROVE  /\ sub[n].pc = "tools" /\ UNCHANGED main
         /\ \E s : sub' = [sub EXCEPT ![n] = s] /\ Own(s, n, o)
<1>1. /\ sub[n].pc = "tools" /\ UNCHANGED main
      /\ \E found \in [DOMAIN sub[n].calls -> SUBSET Urls] :
           /\ Ended(n, found) \in Executions
           /\ \/ /\ sub[n].turn + 1 # MaxSubTurns
                 /\ sub' = [sub EXCEPT ![n] = Ended(n, found)]
              \/ sub' = [sub EXCEPT ![n] = FailedSub(Ended(n, found), n)]
  BY EndTurnIs
<1>2. PICK found : /\ Ended(n, found) \in Executions
                   /\ \/ sub' = [sub EXCEPT ![n] = Ended(n, found)]
                      \/ sub' = [sub EXCEPT ![n] = FailedSub(Ended(n, found), n)]
  BY <1>1
<1> DEFINE s == sub[n]
           q == s.events
           t == ToolEvents(s, n)
           r == q \o t
<1>3. s \in Executions /\ Fits(s)
  BY DEF AInv, Typed, Limited
<1>4. /\ q \in Seq(Events) /\ t \in Seq(Events) /\ Len(t) = Len(s.calls)
      /\ s.calls \in Seq(CallRecords) /\ s.turn \in Nat /\ Len(s.states) = Len(s.calls)
  BY <1>3, TurnRecords DEF Executions, Fits
<1>5. DOMAIN t = DOMAIN s.calls /\ DOMAIN t \subseteq Nat
  BY <1>4
<1>6. \A i \in DOMAIN t : /\ t[i].step = ToolStep(n, s.turn, i, s.calls[i])
                          /\ t[i].causes = s.causes
  BY DEF ToolEvents, Event
<1>7. \A i \in DOMAIN t : /\ t[i].step.agent = n /\ t[i].step.turn = s.turn /\ t[i].step.index = i
                          /\ t[i].step.kind \in {"search", "access"}
  <2>1. \A i \in DOMAIN s.calls : s.calls[i].name \in {"search", "access"}
    <3>1. \A i \in DOMAIN s.calls : s.calls[i] \in CallRecords
      BY <1>4
    <3> QED
      BY <3>1 DEF CallRecords
  <2> HIDE DEF t
  <2>2. \A i : \A call : /\ ToolStep(n, s.turn, i, call).agent = n
                         /\ ToolStep(n, s.turn, i, call).turn = s.turn
                         /\ ToolStep(n, s.turn, i, call).index = i
                         /\ ToolStep(n, s.turn, i, call).kind = call.name
    BY DEF ToolStep
  <2> QED
    BY <1>5, <1>6, <2>1, <2>2
<1>8. Lines(q, n, o) /\ Pending(s, o) /\ \A j \in DOMAIN q : Past(s, q[j].step)
  BY <1>1 DEF Own
<1>9. \A i \in DOMAIN t : \A j \in DOMAIN q : q[j].step # t[i].step
  BY <1>4, <1>7, <1>8 DEF Past
<1> HIDE DEF t
<1>10. \A i \in DOMAIN t : /\ t[i].step.agent = n
                           /\ \A j \in DOMAIN q : q[j].step # t[i].step
                           /\ \A j \in DOMAIN t : t[i].step = t[j].step => i = j
                           /\ \A c \in t[i].causes : c = o \/ Has(q, c)
  BY <1>6, <1>7, <1>8, <1>9 DEF Pending
<1> HIDE DEF q
<1>11. /\ r \in Seq(Events) /\ Extends(q, r) /\ Lines(r, n, o)
       /\ \A i \in DOMAIN r : \/ i \in DOMAIN q
                              \/ i - Len(q) \in DOMAIN t /\ r[i] = t[i - Len(q)]
       /\ \A i \in DOMAIN t : Len(q) + i \in DOMAIN r /\ r[Len(q) + i] = t[i]
  BY <1>4, <1>8, <1>10, LinesConcat
<1> HIDE DEF r
<1>12. \A i \in DOMAIN s.calls :
         /\ Has(r, ToolStep(n, s.turn, i, s.calls[i]))
         /\ Len(q) + i \in DOMAIN r /\ r[Len(q) + i].step = ToolStep(n, s.turn, i, s.calls[i])
  BY <1>5, <1>6, <1>11 DEF Has
<1>13. /\ Searches(s.known, s.turn, q, n) /\ Sourced(s.tools, q, n) /\ Allowed(s)
  BY <1>1 DEF Own, q
<1>14. Searches(Discovered(s, n, found), s.turn + 1, r, n)
  BY <1>3, <1>11, <1>12, <1>13, DiscoveredOwn DEF q
<1>15. Sourced(s.tools \o ToolOutcomes(s, n), r, n)
  <2>1. Len(q) \in Nat /\ DOMAIN q = 1 .. Len(q)
    BY <1>4
  <2> QED
    BY <1>3, <1>4, <1>11, <1>12, <1>13, <2>1, OutcomesOwn DEF q
<1> DEFINE f == Ended(n, found)
<1>16. /\ f.pc = "generate" /\ f.turn = s.turn + 1 /\ f.events = r
       /\ f.tools = s.tools \o ToolOutcomes(s, n) /\ f.known = Discovered(s, n, found)
       /\ f.causes = {e.step : e \in ToSet(t)} /\ f.attempt = 0
  BY DEF Ended, r, q, t
<1> HIDE DEF f
<1>17. \A i \in DOMAIN r : /\ r[i].step.turn < f.turn /\ r[i].step.kind # "failure"
  <2> TAKE i \in DOMAIN r
  <2>1. CASE i \in DOMAIN q
    <3>1. r[i] = q[i] /\ Past(s, q[i].step)
      BY <1>8, <1>11, <2>1 DEF Extends
    <3>2. q[i] \in Events
      BY <1>4, <2>1
    <3>3. q[i].step.turn \in Nat
      BY <3>2 DEF Events, Step
    <3> QED
      BY <1>4, <1>16, <3>1, <3>3 DEF Past
  <2>2. CASE i - Len(q) \in DOMAIN t /\ r[i] = t[i - Len(q)]
    <3>1. r[i].step.turn = s.turn /\ r[i].step.kind \in {"search", "access"}
      BY <1>7, <2>2
    <3> QED
      BY <1>4, <1>16, <3>1
  <2> QED
    BY <1>11, <2>1, <2>2
<1>18. Pending(f, o)
  <2>1. ASSUME NEW c \in f.causes PROVE Has(r, c)
    <3>1. PICK i \in DOMAIN t : c = t[i].step
      BY <1>16, <2>1 DEF ToSet
    <3> QED
      BY <1>5, <1>6, <1>12, <3>1
  <2> QED
    BY <1>16, <2>1 DEF Pending
<1>19. Own(f, n, o)
  BY <1>11, <1>14, <1>15, <1>16, <1>17, <1>18 DEF Own, Past
<1>20. Own(FailedSub(f, n), n, o)
  <2>1. Live(f, n, o)
    BY <1>11, <1>14, <1>15, <1>16, <1>17, <1>18 DEF Live
  <2> QED
    BY <1>2, <2>1, FailedOwn DEF f
<1> QED
  BY <1>1, <1>2, <1>19, <1>20 DEF f

LEMMA ToolOwn ==
  ASSUME AInv, NEW n \in Subs, NEW o, Own(sub[n], n, o), NEW i \in Places,
         StartTool(n, i) \/ EndTool(n, i)
  PROVE  /\ sub[n].pc = "tools" /\ UNCHANGED main
         /\ \E s : sub' = [sub EXCEPT ![n] = s] /\ Own(s, n, o)
<1>1. /\ sub[n].pc = "tools" /\ UNCHANGED main /\ i \in DOMAIN sub[n].calls
      /\ sub[n].states[i] # "failed"
  BY DEF StartTool, EndTool
<1>2. \E v \in CallState : sub' = Moved(n, i, v)
  BY DEF StartTool, EndTool, Moved, CallState
<1>3. PICK v \in CallState : sub' = Moved(n, i, v)
  BY <1>2
<1>4. PICK s \in Executions :
        /\ sub' = [sub EXCEPT ![n] = s] /\ MovedTo(s, n, i, v)
        /\ i \in DOMAIN sub[n].states /\ DOMAIN s.states = DOMAIN sub[n].states
  BY <1>1, <1>3, CallMoved
<1>5. Allowed(s)
  <2>1. Allowed(sub[n])
    BY <1>1 DEF Own
  <2>2. \A j : j # i => s.states[j] = sub[n].states[j] \/ j \notin DOMAIN sub[n].states
    BY <1>4 DEF MovedTo
  <2>3. DOMAIN sub[n].states = DOMAIN sub[n].calls
    <3>1. sub[n] \in Executions /\ Fits(sub[n])
      BY DEF AInv, Typed, Limited
    <3> QED
      BY <3>1 DEF Executions, Fits
  <2>4. Known(sub[n], sub[n].calls[i])
    BY <1>1, <2>1 DEF Allowed
  <2>5. ASSUME NEW j \in DOMAIN s.calls PROVE s.states[j] = "failed" \/ Known(s, s.calls[j])
    <3>1. s.calls = sub[n].calls /\ s.known = sub[n].known
      BY <1>4 DEF MovedTo
    <3>2. sub[n].states[j] = "failed" \/ Known(sub[n], sub[n].calls[j])
      BY <2>1, <2>5, <3>1 DEF Allowed
    <3> QED
      BY <2>2, <2>3, <2>4, <2>5, <3>1, <3>2 DEF Known
  <2> QED
    BY <2>5 DEF Allowed
<1>6. Own(s, n, o)
  <2>1. /\ s.pc = "tools" /\ s.turn = sub[n].turn /\ s.causes = sub[n].causes
        /\ s.events = sub[n].events /\ s.tools = sub[n].tools /\ s.known = sub[n].known
    BY <1>1, <1>4 DEF MovedTo
  <2> QED
    BY <1>1, <1>5, <2>1 DEF Own, Past, Pending
<1> QED
  BY <1>1, <1>4, <1>6

-----------------------------------------------------------------------------
(* The trace: Main, and the Subs it merged                                   *)

\* The Subs that were merged are numbered from 1, and done.
LEMMA MergedSubsDone ==
  ASSUME AInv
  PROVE  /\ Len(outcomes) \in Nat
         /\ \A n \in 1 .. Len(outcomes) : n \in Subs /\ n # 0 /\ sub[n].pc = "done"
<1>1. Len(outcomes) \in Nat /\ Len(outcomes) <= MaxSpawnPerEpisode /\ limits \in Profiles
  BY DEF AInv, Typed, Delegated
<1>2. \A n \in 1 .. Len(outcomes) : n \in 1 .. MaxSpawnPerEpisode
  BY <1>1, LimitsTyped
<1>3. \A n \in 1 .. Len(outcomes) : n \in Subs
  BY <1>1, <1>2, SubsNumbered
<1> QED
  BY <1>1, <1>3 DEF AInv, Delegated

\* A step of a Sub at work disturbs no other, and nothing of Main's.
LEMMA SubTrace ==
  ASSUME TInv, NEW n \in Subs, sub[n].pc \in {"generate", "tools"}, NEW s,
         Own(s, n, Last(rounds).main), sub' = [sub EXCEPT ![n] = s], UNCHANGED main
  PROVE  Merged' /\ Referred' /\ Working'
<1>1. AInv /\ Merged /\ Referred /\ Working
  BY DEF TInv
<1>2. n \in RoundSubs /\ waiting /\ n \in Nat /\ n > Len(outcomes)
  BY <1>1, AtWork DEF Awaited
<1>3. /\ Len(outcomes) \in Nat
      /\ \A m \in 1 .. Len(outcomes) : m \in Subs /\ m # 0 /\ sub[m].pc = "done"
  BY <1>1, MergedSubsDone
<1>4. sub \in [Subs -> Executions]
  BY <1>1 DEF AInv, Typed
<1>5. \A m \in 1 .. Len(outcomes) : sub'[m] = sub[m]
  <2>1. \A m \in 1 .. Len(outcomes) : m # n
    BY <1>2, <1>3
  <2> QED
    BY <1>3, <1>4, <2>1
<1>6. UNCHANGED <<status, round, attempt, waiting, causes, events, rounds, outcomes, tools>>
  BY DEF main
<1>7. Merged'
  <2>1. PICK at \in [1 .. Len(outcomes) -> Nat] : Laid(events, at, Len(outcomes), sub)
    BY <1>1 DEF Merged
  <2>2. Laid(events', at, Len(outcomes'), sub')
    <3>1. events' = events /\ outcomes' = outcomes
      BY <1>6
    <3>2. ASSUME NEW m \in 1 .. Len(outcomes)
          PROVE  /\ at[m] + Len(sub'[m].events) <= Len(events)
                 /\ \A i \in DOMAIN sub'[m].events : events[at[m] + i] = sub'[m].events[i]
                 /\ \E o : Own(sub'[m], m, o) /\ \E p \in 1 .. at[m] : events[p].step = o
                 /\ \A l \in 1 .. Len(outcomes) :
                      m < l => at[m] + Len(sub'[m].events) <= at[l]
      <4>1. sub'[m] = sub[m]
        BY <1>5
      <4>2. /\ at[m] + Len(sub[m].events) <= Len(events)
            /\ \A i \in DOMAIN sub[m].events : events[at[m] + i] = sub[m].events[i]
            /\ \E o : Own(sub[m], m, o) /\ \E p \in 1 .. at[m] : events[p].step = o
            /\ \A l \in 1 .. Len(outcomes) : m < l => at[m] + Len(sub[m].events) <= at[l]
        BY <2>1 DEF Laid
      <4> QED
        BY <4>1, <4>2
    <3>3. ASSUME NEW k \in DOMAIN events, events[k].step.agent # 0
          PROVE  /\ events[k].step.agent \in 1 .. Len(outcomes)
                 /\ k - at[events[k].step.agent] \in DOMAIN sub'[events[k].step.agent].events
      <4>1. /\ events[k].step.agent \in 1 .. Len(outcomes)
            /\ k - at[events[k].step.agent] \in DOMAIN sub[events[k].step.agent].events
        BY <2>1, <3>3 DEF Laid
      <4> QED
        BY <1>5, <4>1
    <3> QED
      BY <3>1, <3>2, <3>3 DEF Laid
  <2>3. /\ Chain(events')
        /\ \A k \in DOMAIN events' : events'[k].step.agent = 0 => MainPast(events'[k].step, round', attempt', MayTurn')
    BY <1>1, <1>6 DEF Merged, MainPast, MayTurn
  <2>4. at \in [1 .. Len(outcomes') -> Nat]
    BY <1>6
  <2> QED
    BY <2>2, <2>3, <2>4 DEF Merged
<1>8. Referred'
  BY <1>1, <1>5, <1>6 DEF Referred
<1>9. Working'
  <2>1. RoundSubs' = RoundSubs /\ Last(rounds)' = Last(rounds) /\ RoundSubs \subseteq Subs
    <3>1. \E c \in 1 .. 4 : RoundSubs = Following(c) /\ Len(outcomes) + c <= MaxSpawnPerEpisode
      BY <1>1, <1>2 DEF AInv, Delegated
    <3>2. RoundSubs \subseteq 1 .. MaxSpawnPerEpisode
      BY <1>1, <1>3, <3>1, LimitsTyped DEF Following, AInv, Typed
    <3>3. RoundSubs \subseteq Subs
      BY <1>1, <3>2, SubsNumbered DEF AInv, Typed
    <3> QED
      BY <1>6, <3>3 DEF RoundSubs
  <2>2. \A m \in RoundSubs : sub'[m] = IF m = n THEN s ELSE sub[m]
    BY <1>4, <2>1
  <2>3. \A m \in RoundSubs : Own(sub'[m], m, Last(rounds).main)
    BY <1>1, <1>2, <2>2 DEF Working
  <2> QED
    BY <2>1, <2>3 DEF Working
<1> QED
  BY <1>7, <1>8, <1>9

\* Main's turn is a new step of the trace, caused by what it has.
LEMMA TurnTrace ==
  ASSUME TInv, status = "running", waiting = FALSE, Turned \in Step,
         events' = Append(events, Event(Turned, causes)),
         \A n \in 1 .. Len(outcomes) : sub'[n] = sub[n],
         UNCHANGED <<outcomes, tools, round>>,
         waiting' \/ status' # "running" \/ attempt' = attempt + 1,
         causes' \subseteq causes \cup {Turned},
         \A k \in DOMAIN rounds' : \/ rounds'[k].main = Turned
                                   \/ k \in DOMAIN rounds /\ rounds'[k] = rounds[k]
  PROVE  Merged' /\ Referred' /\ \A x : Has(events, x) => Has(events', x)
<1> DEFINE e == Event(Turned, causes)
           r == Append(events, e)
<1>1. AInv /\ Merged /\ Referred
  BY DEF TInv
<1>2. /\ events \in Seq(Events) /\ causes \subseteq Step /\ round \in Nat /\ attempt \in Nat
  BY <1>1 DEF AInv, Typed
<1>3. e \in Events /\ e.step = Turned /\ e.causes = causes
  BY <1>2 DEF Event, Events
<1>4. Turned.agent = 0 /\ Turned.turn = round /\ Turned.index = attempt
  BY DEF Turned, MainStep
<1>5. ASSUME NEW k \in DOMAIN events
      PROVE  events[k].step.turn \in Nat /\ events[k].step.index \in Nat
  <2>1. events[k] \in Events
    BY <1>2
  <2> QED
    BY <2>1 DEF Events, Step
<1>6. \A k \in DOMAIN events : events[k].step # Turned
  BY <1>1, <1>2, <1>4, <1>5 DEF Merged, MainPast, MayTurn
<1>7. /\ r \in Seq(Events) /\ Len(r) = Len(events) + 1 /\ Len(events) \in Nat
      /\ \A k \in 1 .. Len(events) : r[k] = events[k]
      /\ r[Len(events) + 1] = e
  BY <1>2, <1>3
<1> HIDE DEF e, r
<1>8. /\ DOMAIN r = 1 .. Len(events) + 1 /\ DOMAIN events = 1 .. Len(events)
      /\ Extends(events, r)
  BY <1>2, <1>7 DEF Extends
<1>9. \A k \in DOMAIN r : k \in DOMAIN events \/ k = Len(events) + 1
  BY <1>7, <1>8
<1>10. events' = r
  BY DEF e, r
<1>11. \A x : Has(events, x) => Has(r, x)
  BY <1>8, Longer
<1>12. Has(r, Turned)
  BY <1>3, <1>7, <1>8 DEF Has
<1>13. Chain(r)
  <2> SUFFICES ASSUME NEW k \in DOMAIN r, r[k].step.agent = 0
               PROVE  /\ \A j \in DOMAIN r : r[j].step = r[k].step => j = k
                      /\ \A c \in r[k].causes : \E j \in DOMAIN r : j < k /\ r[j].step = c
    BY DEF Chain
  <2>1. CASE k \in DOMAIN events
    <3>1. r[k] = events[k]
      BY <1>7, <1>8, <2>1
    <3>2. \A j \in DOMAIN r : r[j].step = r[k].step => j = k
      BY <1>1, <1>3, <1>6, <1>7, <1>8, <1>9, <2>1, <3>1 DEF Merged, Chain
    <3>3. \A c \in r[k].causes : \E j \in DOMAIN events : j < k /\ events[j].step = c
      BY <1>1, <2>1, <3>1 DEF Merged, Chain
    <3> QED
      BY <1>8, <3>2, <3>3 DEF Extends
  <2>2. CASE k = Len(events) + 1
    <3>1. \A j \in DOMAIN r : r[j].step = r[k].step => j = k
      BY <1>3, <1>6, <1>7, <1>8, <1>9, <2>2
    <3>2. \A c \in r[k].causes : \E j \in DOMAIN events : events[j].step = c
      BY <1>1, <1>3, <1>7, <2>2 DEF Referred, Has
    <3>3. \A j \in DOMAIN events : j < k
      BY <1>7, <1>8, <2>2
    <3> QED
      BY <1>8, <3>1, <3>2, <3>3 DEF Extends
  <2> QED
    BY <1>9, <2>1, <2>2
<1>14. PICK at \in [1 .. Len(outcomes) -> Nat] : Laid(events, at, Len(outcomes), sub)
  BY <1>1 DEF Merged
<1>15. Laid(r, at, Len(outcomes'), sub')
  <2>1. /\ Len(outcomes) \in Nat
        /\ \A m \in 1 .. Len(outcomes) : m \in Subs
    BY <1>1, MergedSubsDone
  <2>2. ASSUME NEW n \in 1 .. Len(outcomes)
        PROVE  /\ at[n] + Len(sub[n].events) <= Len(r)
               /\ \A i \in DOMAIN sub[n].events : r[at[n] + i] = sub[n].events[i]
               /\ \E o : Own(sub[n], n, o) /\ \E p \in 1 .. at[n] : r[p].step = o
               /\ \A l \in 1 .. Len(outcomes) : n < l => at[n] + Len(sub[n].events) <= at[l]
    <3>1. /\ at[n] + Len(sub[n].events) <= Len(events)
          /\ \A i \in DOMAIN sub[n].events : events[at[n] + i] = sub[n].events[i]
          /\ \E o : Own(sub[n], n, o) /\ \E p \in 1 .. at[n] : events[p].step = o
          /\ \A l \in 1 .. Len(outcomes) : n < l => at[n] + Len(sub[n].events) <= at[l]
      BY <1>14 DEF Laid
    <3>2. sub[n].events \in Seq(Events) /\ at[n] \in Nat
      <4>1. n \in Subs /\ sub \in [Subs -> Executions]
        BY <1>1, <2>1 DEF AInv, Typed
      <4>2. sub[n] \in Executions
        BY <4>1
      <4> QED
        BY <4>2 DEF Executions
    <3>3. Len(sub[n].events) \in Nat /\ DOMAIN sub[n].events = 1 .. Len(sub[n].events)
      BY <3>2
    <3>4. /\ \A i \in DOMAIN sub[n].events : at[n] + i \in 1 .. Len(events)
          /\ \A p \in 1 .. at[n] : p \in 1 .. Len(events)
      <4> DEFINE x == at[n]
                 y == Len(sub[n].events)
                 z == Len(events)
      <4>1. x \in Nat /\ y \in Nat /\ z \in Nat /\ x + y <= z
        BY <1>7, <3>1, <3>2, <3>3
      <4>2. DOMAIN sub[n].events = 1 .. y
        BY <3>3
      <4> HIDE DEF x, y, z
      <4>3. /\ \A i \in 1 .. y : x + i \in 1 .. z
            /\ \A p \in 1 .. x : p \in 1 .. z
        BY <4>1
      <4> QED
        BY <4>2, <4>3 DEF x, y, z
    <3>5. at[n] + Len(sub[n].events) <= Len(r)
      BY <1>7, <3>1, <3>2, <3>3
    <3> QED
      BY <1>7, <3>1, <3>4, <3>5
  <2>3. \A k \in DOMAIN r : r[k].step.agent # 0 => k \in DOMAIN events /\ r[k] = events[k]
    BY <1>3, <1>4, <1>7, <1>8, <1>9
  <2>4. Laid(r, at, Len(outcomes), sub)
    <3>1. \A k \in DOMAIN r : LET n == r[k].step.agent IN
            n # 0 => n \in 1 .. Len(outcomes) /\ k - at[n] \in DOMAIN sub[n].events
      BY <1>14, <2>3 DEF Laid
    <3> QED
      BY <2>2, <3>1 DEF Laid
  <2>5. \A n \in 1 .. Len(outcomes) : sub'[n] = sub[n]
    OBVIOUS
  <2>6. /\ \A n \in 1 .. Len(outcomes) :
             /\ at[n] + Len(sub'[n].events) <= Len(r)
             /\ \A i \in DOMAIN sub'[n].events : r[at[n] + i] = sub'[n].events[i]
             /\ \E o : Own(sub'[n], n, o) /\ \E p \in 1 .. at[n] : r[p].step = o
             /\ \A l \in 1 .. Len(outcomes) : n < l => at[n] + Len(sub'[n].events) <= at[l]
    BY <2>2, <2>5
  <2>7. \A k \in DOMAIN r : LET n == r[k].step.agent IN
          n # 0 => n \in 1 .. Len(outcomes) /\ k - at[n] \in DOMAIN sub'[n].events
    BY <2>4, <2>5 DEF Laid
  <2>8. Laid(r, at, Len(outcomes), sub')
    BY <2>6, <2>7 DEF Laid
  <2> QED
    BY <2>8
<1>16. \A k \in DOMAIN r : r[k].step.agent = 0 => MainPast(r[k].step, round', attempt', MayTurn')
  <2> TAKE k \in DOMAIN r
  <2>1. CASE k \in DOMAIN events
    <3>1. r[k] = events[k] /\ events[k].step.turn \in Nat /\ events[k].step.index \in Nat
      BY <1>5, <1>7, <1>8, <2>1
    <3> QED
      BY <1>1, <1>2, <2>1, <3>1 DEF Merged, MainPast, MayTurn
  <2>2. CASE k = Len(events) + 1
    BY <1>2, <1>3, <1>4, <1>7, <2>2 DEF MainPast, MayTurn
  <2> QED
    BY <1>9, <2>1, <2>2
<1>17. Merged'
  <2>1. Laid(events', at, Len(outcomes'), sub')
    BY <1>10, <1>15
  <2>2. Chain(events') /\ at \in [1 .. Len(outcomes') -> Nat]
    BY <1>10, <1>13
  <2>3. \A k \in DOMAIN events' : events'[k].step.agent = 0 => MainPast(events'[k].step, round', attempt', MayTurn')
    BY <1>10, <1>16
  <2> QED
    BY <2>1, <2>2, <2>3 DEF Merged
<1>18. Referred'
  <2>1. \A c \in causes' : Has(events', c)
    BY <1>1, <1>10, <1>11, <1>12 DEF Referred
  <2>2. \A k \in DOMAIN rounds' : Has(events', rounds'[k].main)
    BY <1>1, <1>10, <1>11, <1>12 DEF Referred
  <2>3. \A k \in DOMAIN tools' :
          \E n \in 1 .. Len(outcomes') : \E i \in DOMAIN sub'[n].tools : tools'[k] = sub'[n].tools[i]
    BY <1>1 DEF Referred
  <2> QED
    BY <1>1, <2>1, <2>2, <2>3 DEF Referred
<1> QED
  BY <1>10, <1>11, <1>17, <1>18

LEMMA MainTurnTrace ==
  ASSUME TInv, MainTurn
  PROVE  Merged' /\ Referred' /\ Working'
<1>1. /\ status = "running" /\ waiting = FALSE /\ Turned \in Step
      /\ events' = Append(events, Event(Turned, causes))
      /\ UNCHANGED <<limits, round, outcomes, tools, budget>>
      /\ \/ /\ status' \in {"success", "failed"}
            /\ UNCHANGED <<attempt, waiting, causes, rounds, sub>>
         \/ /\ attempt < MainRepairs /\ attempt' = attempt + 1
            /\ causes' = (causes \ {MainStep(round, attempt - 1)}) \cup {Turned}
            /\ UNCHANGED <<status, waiting, rounds, sub>>
         \/ \E c \in 1 .. 4 :
              /\ MaySpawn(c) /\ waiting' = TRUE /\ causes' = {Turned}
              /\ rounds' = Append(rounds, [main |-> Turned, subs |-> Following(c)])
              /\ sub' = [n \in Subs |->
                           IF n \in Following(c)
                           THEN [NewSub EXCEPT !.pc = "generate", !.causes = {Turned}]
                           ELSE sub[n]]
              /\ UNCHANGED <<status, attempt>>
  BY MainTurnIs DEF TInv
<1>2. CASE /\ status' \in {"success", "failed"}
           /\ UNCHANGED <<attempt, waiting, causes, rounds, sub>>
  <2>1. Merged' /\ Referred'
    BY <1>1, <1>2, TurnTrace
  <2> QED
    BY <1>1, <1>2, <2>1 DEF Working
<1>3. CASE /\ attempt < MainRepairs /\ attempt' = attempt + 1
           /\ causes' = (causes \ {MainStep(round, attempt - 1)}) \cup {Turned}
           /\ UNCHANGED <<status, waiting, rounds, sub>>
  <2>1. causes' \subseteq causes \cup {Turned}
    BY <1>3
  <2>2. Merged' /\ Referred'
    BY <1>1, <1>3, <2>1, TurnTrace
  <2> QED
    BY <1>1, <1>3, <2>2 DEF Working
<1>4. ASSUME NEW c \in 1 .. 4, MaySpawn(c), waiting' = TRUE, causes' = {Turned},
             rounds' = Append(rounds, [main |-> Turned, subs |-> Following(c)]),
             sub' = [n \in Subs |->
                       IF n \in Following(c)
                       THEN [NewSub EXCEPT !.pc = "generate", !.causes = {Turned}]
                       ELSE sub[n]],
             UNCHANGED <<status, attempt>>
      PROVE  Merged' /\ Referred' /\ Working'
  <2>1. /\ Len(outcomes) \in Nat /\ \A m \in 1 .. Len(outcomes) : m \in Subs
        /\ limits \in Profiles
    BY MergedSubsDone DEF TInv, AInv, Typed
  <2>2. /\ Len(outcomes) + c <= MaxSpawnPerEpisode /\ MaxSpawnPerEpisode \in Nat
    BY <1>4, <2>1, LimitsTyped DEF MaySpawn, Spawned
  <2>3. Following(c) \subseteq Subs
    <3>1. Following(c) \subseteq 1 .. MaxSpawnPerEpisode
      BY <2>1, <2>2 DEF Following
    <3> QED
      BY <2>1, <3>1, SubsNumbered
  <2>4. \A n \in 1 .. Len(outcomes) : sub'[n] = sub[n]
    BY <1>4, <2>1 DEF Following
  <2> DEFINE R == [main : Step, subs : SUBSET Subs]
             r == [main |-> Turned, subs |-> Following(c)]
  <2>5. rounds \in Seq(R) /\ r \in R /\ r.main = Turned /\ r.subs = Following(c)
    BY <1>1, <2>3 DEF TInv, AInv, Typed
  <2>6. rounds' = Append(rounds, r)
    BY <1>4
  <2> HIDE DEF R, r
  <2>7. /\ \A k \in DOMAIN rounds' : rounds'[k] = r \/ (k \in DOMAIN rounds /\ rounds'[k] = rounds[k])
        /\ Last(rounds') = r
    <3>1. /\ Append(rounds, r) \in Seq(R) /\ Len(Append(rounds, r)) = Len(rounds) + 1
          /\ \A k \in 1 .. Len(rounds) : Append(rounds, r)[k] = rounds[k]
          /\ Append(rounds, r)[Len(rounds) + 1] = r /\ Last(Append(rounds, r)) = r
      BY <2>5, AppendIs
    <3>2. /\ DOMAIN rounds' = 1 .. Len(rounds) + 1 /\ DOMAIN rounds = 1 .. Len(rounds)
          /\ Len(rounds) \in Nat
      BY <2>5, <2>6, <3>1
    <3>3. \A k \in DOMAIN rounds' : k \in DOMAIN rounds \/ k = Len(rounds) + 1
      BY <3>2
    <3> QED
      BY <2>6, <3>1, <3>2, <3>3
  <2>8. \A k \in DOMAIN rounds' : \/ rounds'[k].main = Turned
                                  \/ k \in DOMAIN rounds /\ rounds'[k] = rounds[k]
    BY <2>5, <2>7
  <2>9. causes' \subseteq causes \cup {Turned}
    BY <1>4
  <2>10. Merged' /\ Referred'
    BY <1>1, <1>4, <2>4, <2>8, <2>9, TurnTrace
  <2>11. PICK s : /\ s = [NewSub EXCEPT !.pc = "generate", !.causes = {Turned}]
                  /\ s.pc = "generate" /\ s.causes = {Turned} /\ s.turn = 0 /\ s.attempt = 0
                  /\ s.events = <<>> /\ s.tools = <<>> /\ s.known = {} /\ s.calls = <<>>
                  /\ s.states = <<>>
    BY <1>1, SpawnedIs
  <2>12. \A n : Own(s, n, Turned)
    BY <2>11 DEF Own, Lines, Pending, Searches, Sourced
  <2>13. RoundSubs' = Following(c) /\ Last(rounds').main = Turned
    BY <2>5, <2>7 DEF RoundSubs
  <2>14. \A n \in Following(c) : sub'[n] = s
    BY <1>4, <2>3, <2>11
  <2>15. Working'
    BY <2>12, <2>13, <2>14 DEF Working
  <2> QED
    BY <2>10, <2>15
<1> QED
  BY <1>1, <1>2, <1>3, <1>4

\* The facts of one more Sub are laid behind the others.
LEMMA LaidOne ==
  ASSUME AInv, NEW x \in Seq(Events), NEW m \in Nat \ {0}, \A n \in 1 .. m : n \in Subs,
         NEW at \in [1 .. m - 1 -> Nat], Laid(x, at, m - 1, sub), Chain(x),
         NEW o, Own(sub[m], m, o), Has(x, o)
  PROVE  LET y == x \o sub[m].events IN
         /\ y \in Seq(Events) /\ Extends(x, y) /\ Chain(y)
         /\ \A k \in DOMAIN y : y[k].step.agent = 0 => k \in DOMAIN x
         /\ \E at2 \in [1 .. m -> Nat] : Laid(y, at2, m, sub)
<1> DEFINE q == sub[m].events
           y == x \o q
           at2 == [n \in 1 .. m |-> IF n = m THEN Len(x) ELSE at[n]]
<1>1. q \in Seq(Events) /\ m \in Subs
  BY DEF AInv, Typed, Executions
<1>2. \A i \in DOMAIN q : q[i].step.agent = m
  BY DEF Own, Lines
<1>3. \A n \in 1 .. m - 1 : n \in 1 .. m /\ n # m
  OBVIOUS
<1>4. \A n \in 1 .. m : n = m \/ n \in 1 .. m - 1
  OBVIOUS
<1>5. /\ at2 \in [1 .. m -> Nat] /\ at2[m] = Len(x) /\ m \in 1 .. m
      /\ \A n \in 1 .. m - 1 : at2[n] = at[n] /\ at[n] \in Nat
  BY <1>3
<1>6. PICK p \in DOMAIN x : x[p].step = o
  BY DEF Has
<1> HIDE DEF q, at2
<1>7. /\ y \in Seq(Events) /\ Len(y) = Len(x) + Len(q) /\ Len(x) \in Nat /\ Len(q) \in Nat
      /\ \A k \in 1 .. Len(x) : y[k] = x[k]
      /\ \A k \in 1 .. Len(q) : y[Len(x) + k] = q[k]
  BY <1>1
<1>8. DOMAIN y = 1 .. Len(x) + Len(q) /\ DOMAIN x = 1 .. Len(x) /\ DOMAIN q = 1 .. Len(q)
  BY <1>1, <1>7
<1> HIDE DEF y
<1>9. Extends(x, y)
  BY <1>7, <1>8 DEF Extends
<1>10. \A k \in DOMAIN y : \/ k \in DOMAIN x /\ y[k] = x[k]
                           \/ /\ k \notin DOMAIN x /\ k - Len(x) \in DOMAIN q
                              /\ y[k] = q[k - Len(x)]
  <2> TAKE k \in DOMAIN y
  <2>1. CASE k > Len(x)
    <3>1. k - Len(x) \in 1 .. Len(q) /\ Len(x) + (k - Len(x)) = k /\ k \notin 1 .. Len(x)
      BY <1>7, <1>8, <2>1
    <3> QED
      BY <1>7, <1>8, <3>1
  <2> QED
    BY <1>7, <1>8, <2>1
<1>11. \A k \in DOMAIN y : y[k].step.agent = 0 => k \in DOMAIN x /\ y[k] = x[k]
  BY <1>2, <1>10
<1>12. Chain(y)
  <2> SUFFICES ASSUME NEW k \in DOMAIN y, y[k].step.agent = 0
               PROVE  /\ \A j \in DOMAIN y : y[j].step = y[k].step => j = k
                      /\ \A c \in y[k].causes : \E j \in DOMAIN y : j < k /\ y[j].step = c
    BY DEF Chain
  <2>1. k \in DOMAIN x /\ y[k] = x[k]
    BY <1>11
  <2>2. \A j \in DOMAIN y : y[j].step = y[k].step => j = k
    BY <1>11, <2>1 DEF Chain
  <2>3. \A c \in y[k].causes : \E j \in DOMAIN x : j < k /\ x[j].step = c
    BY <2>1 DEF Chain
  <2> QED
    BY <1>9, <2>2, <2>3 DEF Extends
<1>13. ASSUME NEW n \in 1 .. m
       PROVE  /\ at2[n] + Len(sub[n].events) <= Len(y)
              /\ \A i \in DOMAIN sub[n].events : y[at2[n] + i] = sub[n].events[i]
              /\ \E c : Own(sub[n], n, c) /\ \E k \in 1 .. at2[n] : y[k].step = c
              /\ \A l \in 1 .. m : n < l => at2[n] + Len(sub[n].events) <= at2[l]
  <2>1. CASE n = m
    <3>1. at2[n] + Len(sub[n].events) <= Len(y)
      BY <1>5, <1>7, <2>1 DEF q
    <3>2. \A i \in DOMAIN sub[n].events : y[at2[n] + i] = sub[n].events[i]
      BY <1>5, <1>7, <1>8, <2>1 DEF q
    <3>3. \E c : Own(sub[n], n, c) /\ \E k \in 1 .. at2[n] : y[k].step = c
      <4>1. p \in 1 .. at2[n] /\ y[p].step = o
        BY <1>5, <1>6, <1>7, <1>8, <2>1
      <4> QED
        BY <2>1, <4>1
    <3>4. \A l \in 1 .. m : ~(n < l)
      BY <2>1
    <3> QED
      BY <3>1, <3>2, <3>3, <3>4
  <2>2. CASE n \in 1 .. m - 1
    <3>1. /\ at[n] + Len(sub[n].events) <= Len(x)
          /\ \A i \in DOMAIN sub[n].events : x[at[n] + i] = sub[n].events[i]
          /\ \E c : Own(sub[n], n, c) /\ \E k \in 1 .. at[n] : x[k].step = c
          /\ \A l \in 1 .. m - 1 : n < l => at[n] + Len(sub[n].events) <= at[l]
      BY <2>2 DEF Laid
    <3>2. sub[n].events \in Seq(Events) /\ at2[n] = at[n] /\ at[n] \in Nat
      BY <1>5, <2>2 DEF AInv, Typed, Executions
    <3>3. Len(sub[n].events) \in Nat /\ DOMAIN sub[n].events = 1 .. Len(sub[n].events)
      BY <3>2
    <3>4. /\ \A i \in DOMAIN sub[n].events : at[n] + i \in 1 .. Len(x)
          /\ \A k \in 1 .. at[n] : k \in 1 .. Len(x)
      <4>1. /\ Len(x) \in Nat /\ at[n] \in Nat /\ Len(sub[n].events) \in Nat
            /\ at[n] + Len(sub[n].events) <= Len(x)
        BY <1>7, <3>1, <3>2, <3>3
      <4>2. \A i \in 1 .. Len(sub[n].events) : at[n] + i \in 1 .. Len(x)
        BY <4>1
      <4> QED
        BY <3>3, <4>1, <4>2
    <3>5. at2[n] + Len(sub[n].events) <= Len(y)
      BY <1>7, <3>1, <3>2, <3>3
    <3>6. \A l \in 1 .. m : n < l => at2[n] + Len(sub[n].events) <= at2[l]
      BY <1>4, <1>5, <3>1, <3>2
    <3> QED
      BY <1>7, <3>1, <3>2, <3>4, <3>5, <3>6
  <2> QED
    BY <1>4, <2>1, <2>2
<1>14. ASSUME NEW k \in DOMAIN y, y[k].step.agent # 0
       PROVE  y[k].step.agent \in 1 .. m
              /\ k - at2[y[k].step.agent] \in DOMAIN sub[y[k].step.agent].events
  <2>1. CASE k \in DOMAIN x /\ y[k] = x[k]
    <3>1. /\ x[k].step.agent \in 1 .. m - 1
          /\ k - at[x[k].step.agent] \in DOMAIN sub[x[k].step.agent].events
      BY <1>14, <2>1 DEF Laid
    <3> QED
      BY <1>3, <1>5, <2>1, <3>1
  <2>2. CASE k - Len(x) \in DOMAIN q /\ y[k] = q[k - Len(x)]
    <3>1. y[k].step.agent = m
      BY <1>2, <2>2
    <3> QED
      BY <1>5, <2>2, <3>1 DEF q
  <2> QED
    BY <1>10, <2>1, <2>2
<1>15. Laid(y, at2, m, sub)
  BY <1>13, <1>14 DEF Laid
<1> QED
  BY <1>5, <1>7, <1>9, <1>11, <1>12, <1>15 DEF y, q

\* The facts of a round, laid behind what Main had.
LEMMA EventsMerged ==
  ASSUME TInv, waiting, NEW c \in 1 .. 4, \A k \in 1 .. c : Len(outcomes) + k \in Subs,
         RoundSubs = Following(c)
  PROVE  LET y == events \o FlattenSeq(EventLists(c)) IN
         /\ Extends(events, y) /\ Chain(y)
         /\ \A k \in DOMAIN y : y[k].step.agent = 0 => k \in DOMAIN events
         /\ \E at \in [1 .. Len(outcomes) + c -> Nat] : Laid(y, at, Len(outcomes) + c, sub)
<1> DEFINE L == Len(outcomes)
           o == Last(rounds).main
           ss == EventLists(c)
           G == [k \in 0 .. c |->
                   {x \in Seq(Events) :
                      /\ Extends(events, x) /\ Chain(x)
                      /\ \A j \in DOMAIN x : x[j].step.agent = 0 => j \in DOMAIN events
                      /\ \E at \in [1 .. L + k -> Nat] : Laid(x, at, L + k, sub)}]
<1>1. AInv /\ Merged /\ Referred /\ Working
  BY DEF TInv
<1>2. /\ events \in Seq(Events) /\ sub \in [Subs -> Executions]
      /\ rounds \in Seq([main : Step, subs : SUBSET Subs])
  BY <1>1 DEF AInv, Typed
<1>3. L \in Nat /\ \A n \in 1 .. L : n \in Subs
  BY <1>1, MergedSubsDone
<1>4. \A n \in 1 .. L + c : n \in Subs
  <2>1. \A n \in 1 .. L + c : n \in 1 .. L \/ (n - L \in 1 .. c /\ n = L + (n - L))
    BY <1>3
  <2> QED
    BY <1>3, <2>1
<1>5. ss \in [1 .. c -> Seq(Events)] /\ \A k \in 1 .. c : ss[k] = sub[L + k].events
  BY <1>2 DEF EventLists, Executions
<1>6. Has(events, o)
  <2>1. Len(rounds) = round + 1 /\ round \in Nat
    BY <1>1 DEF AInv, Limited, Typed
  <2>2. Len(rounds) \in DOMAIN rounds
    BY <1>2, <2>1
  <2> QED
    BY <1>1, <2>2 DEF Referred, Last
<1>7. \A k \in 1 .. c : Own(sub[L + k], L + k, o)
  <2>1. \A k \in 1 .. c : L + k \in RoundSubs
    BY <1>3 DEF Following
  <2> QED
    BY <1>1, <2>1 DEF Working
<1> HIDE DEF ss, o, L
<1>8. events \in G[0]
  <2>1. \E at \in [1 .. L -> Nat] : Laid(events, at, L, sub)
    BY <1>1 DEF Merged, L
  <2>2. Extends(events, events) /\ Chain(events)
    BY <1>1 DEF Extends, Merged
  <2>3. L + 0 = L /\ 0 \in 0 .. c
    BY <1>3
  <2> QED
    BY <1>2, <2>1, <2>2, <2>3
<1>9. ASSUME NEW k \in 1 .. c, NEW x \in Seq(Events), x \in G[k - 1] PROVE x \o ss[k] \in G[k]
  <2> DEFINE m == L + k
  <2>1. /\ m \in Nat \ {0} /\ m - 1 = L + (k - 1) /\ k - 1 \in 0 .. c
        /\ k \in 0 .. c /\ \A n \in 1 .. m : n \in 1 .. L + c
    BY <1>3
  <2>2. /\ Extends(events, x) /\ Chain(x)
        /\ \A j \in DOMAIN x : x[j].step.agent = 0 => j \in DOMAIN events
        /\ \E at \in [1 .. m - 1 -> Nat] : Laid(x, at, m - 1, sub)
    BY <1>9, <2>1
  <2>3. PICK at \in [1 .. m - 1 -> Nat] : Laid(x, at, m - 1, sub)
    BY <2>2
  <2>4. Own(sub[m], m, o) /\ Has(x, o) /\ ss[k] = sub[m].events
    BY <1>5, <1>6, <1>7, <2>2, Longer
  <2> DEFINE y == x \o sub[m].events
  <2>5. \A n \in 1 .. m : n \in Subs
    BY <1>4, <2>1
  <2> HIDE DEF m
  <2>6. /\ y \in Seq(Events) /\ Extends(x, y) /\ Chain(y)
        /\ \A j \in DOMAIN y : y[j].step.agent = 0 => j \in DOMAIN x
        /\ \E at2 \in [1 .. m -> Nat] : Laid(y, at2, m, sub)
    BY <1>1, <2>1, <2>2, <2>3, <2>4, <2>5, LaidOne
  <2> HIDE DEF y
  <2>7. Extends(events, y)
    BY <2>2, <2>6 DEF Extends
  <2>8. \A j \in DOMAIN y : y[j].step.agent = 0 => j \in DOMAIN events
    <3>1. \A j \in DOMAIN x : y[j] = x[j]
      BY <2>6 DEF Extends
    <3> QED
      BY <2>2, <2>6, <3>1
  <2>9. y \in G[k]
    BY <2>1, <2>6, <2>7, <2>8 DEF m
  <2> QED
    BY <2>4, <2>9 DEF y, m
<1> HIDE DEF G
<1>10. events \o FlattenSeq(ss) \in G[c]
  BY <1>2, <1>5, <1>8, <1>9, Stages
<1>11. c \in 0 .. c
  OBVIOUS
<1> QED
  BY <1>10, <1>11 DEF G, ss, L

\* The tool outcomes of a round, likewise.
LEMMA ToolsMerged ==
  ASSUME TInv, NEW c \in 1 .. 4, \A k \in 1 .. c : Len(outcomes) + k \in Subs
  PROVE  LET y == tools \o FlattenSeq(ToolLists(c)) IN
         \A k \in DOMAIN y : \E n \in 1 .. Len(outcomes) + c :
           \E i \in DOMAIN sub[n].tools : y[k] = sub[n].tools[i]
<1> DEFINE L == Len(outcomes)
           ss == ToolLists(c)
           From(x, m) == \A k \in DOMAIN x : \E n \in 1 .. m :
                           \E i \in DOMAIN sub[n].tools : x[k] = sub[n].tools[i]
           G == [k \in 0 .. c |-> {x \in Seq(ToolRecords) : From(x, L + k)}]
<1>1. AInv /\ Referred
  BY DEF TInv
<1>2. tools \in Seq(ToolRecords) /\ sub \in [Subs -> Executions] /\ L \in Nat
  BY <1>1 DEF AInv, Typed
<1>3. ss \in [1 .. c -> Seq(ToolRecords)] /\ \A k \in 1 .. c : ss[k] = sub[L + k].tools
  BY <1>2 DEF ToolLists, Executions
<1>4. From(tools, L)
  BY <1>1 DEF Referred
<1> HIDE DEF ss, L
<1>5. tools \in G[0]
  <2>1. L + 0 = L /\ 0 \in 0 .. c
    BY <1>2
  <2> QED
    BY <1>2, <1>4, <2>1
<1>6. ASSUME NEW k \in 1 .. c, NEW x \in Seq(ToolRecords), x \in G[k - 1]
      PROVE  x \o ss[k] \in G[k]
  <2> DEFINE q == ss[k]
             y == x \o q
  <2>1. /\ k - 1 \in 0 .. c /\ k \in 0 .. c /\ L + k \in 1 .. L + k
        /\ \A n \in 1 .. L + (k - 1) : n \in 1 .. L + k
    BY <1>2
  <2>2. From(x, L + (k - 1))
    BY <1>6, <2>1
  <2>3. q \in Seq(ToolRecords) /\ q = sub[L + k].tools
    BY <1>3
  <2> HIDE DEF q
  <2>4. /\ y \in Seq(ToolRecords) /\ Len(x) \in Nat /\ Len(q) \in Nat
        /\ DOMAIN y = 1 .. Len(x) + Len(q) /\ DOMAIN x = 1 .. Len(x) /\ DOMAIN q = 1 .. Len(q)
        /\ \A j \in 1 .. Len(x) : y[j] = x[j]
        /\ \A j \in 1 .. Len(q) : y[Len(x) + j] = q[j]
    BY <2>3
  <2> HIDE DEF y
  <2>5. ASSUME NEW j \in DOMAIN y
        PROVE  \E n \in 1 .. L + k : \E i \in DOMAIN sub[n].tools : y[j] = sub[n].tools[i]
    <3>1. CASE j <= Len(x)
      BY <2>1, <2>2, <2>4, <3>1
    <3>2. CASE j > Len(x)
      <4>1. j - Len(x) \in 1 .. Len(q) /\ Len(x) + (j - Len(x)) = j
        BY <2>4, <3>2
      <4> QED
        BY <2>1, <2>3, <2>4, <4>1
    <3> QED
      BY <2>4, <3>1, <3>2
  <2>6. y \in G[k]
    BY <2>1, <2>4, <2>5
  <2> QED
    BY <2>6 DEF y, q
<1> HIDE DEF G
<1>7. tools \o FlattenSeq(ss) \in G[c]
  BY <1>2, <1>3, <1>5, <1>6, Stages
<1>8. c \in 0 .. c
  OBVIOUS
<1> QED
  BY <1>7, <1>8 DEF G, ss, L

\* A merge lays the facts of the round behind Main's, in the order of its requests.
LEMMA MergeTrace ==
  ASSUME TInv, Merge
  PROVE  Merged' /\ Referred' /\ Working'
<1>1. AInv /\ Merged /\ Referred /\ Working
  BY DEF TInv
<1>2. /\ status = "running" /\ waiting /\ \A n \in RoundSubs : sub[n].pc = "done"
      /\ causes' = causes \cup {sub[n].final : n \in RoundSubs}
      /\ round' = round + 1 /\ waiting' = FALSE
      /\ UNCHANGED <<limits, rounds, sub, budget>>
  BY <1>1, MergeIs
<1>3. PICK c \in 1 .. 4 :
        /\ RoundSubs = Following(c) /\ \A k \in 1 .. c : Len(outcomes) + k \in Subs
        /\ events' = events \o FlattenSeq(EventLists(c))
        /\ tools' = tools \o FlattenSeq(ToolLists(c))
        /\ outcomes' = outcomes \o FlattenSeq(OutcomeLists(c))
  BY <1>1, MergeIs
<1>4. /\ Extends(events, events') /\ Chain(events')
      /\ \A k \in DOMAIN events' : events'[k].step.agent = 0 => k \in DOMAIN events
      /\ \E at \in [1 .. Len(outcomes) + c -> Nat] : Laid(events', at, Len(outcomes) + c, sub)
  BY <1>2, <1>3, EventsMerged
<1>5. /\ Len(outcomes') = Len(outcomes) + c
      /\ \A k \in DOMAIN outcomes' : outcomes'[k].agent = k
  BY <1>1, <1>3, OutcomesMerged DEF Referred
<1>6. \A k \in DOMAIN tools' : \E n \in 1 .. Len(outcomes) + c :
        \E i \in DOMAIN sub[n].tools : tools'[k] = sub[n].tools[i]
  BY <1>3, ToolsMerged
<1>7. events \in Seq(Events) /\ round \in Nat /\ Len(outcomes) \in Nat
  BY <1>1 DEF AInv, Typed
<1>8. Merged'
  <2>1. \A k \in DOMAIN events' :
          events'[k].step.agent = 0 => MainPast(events'[k].step, round', attempt', MayTurn')
    <3> SUFFICES ASSUME NEW k \in DOMAIN events', events'[k].step.agent = 0
                 PROVE  events'[k].step.turn < round'
      BY DEF MainPast
    <3>1. k \in DOMAIN events /\ events'[k] = events[k]
      BY <1>4 DEF Extends
    <3>2. events[k] \in Events
      BY <1>7, <3>1
    <3>3. events[k].step.turn \in Nat
      BY <3>2 DEF Events, Step
    <3>4. events[k].step.turn <= round
      BY <1>1, <1>7, <3>1, <3>3 DEF Merged, MainPast
    <3> QED
      BY <1>2, <1>7, <3>1, <3>3, <3>4
  <2>2. \E at \in [1 .. Len(outcomes') -> Nat] : Laid(events', at, Len(outcomes'), sub')
    BY <1>2, <1>4, <1>5
  <2> QED
    BY <1>4, <2>1, <2>2 DEF Merged
<1>9. Referred'
  <2>1. \A x : Has(events, x) => Has(events', x)
    BY <1>4, Longer
  <2>2. ASSUME NEW n \in RoundSubs PROVE Has(events', sub[n].final)
    <3>1. n \in 1 .. Len(outcomes) + c
      BY <1>3, <1>7 DEF Following
    <3>2. PICK at \in [1 .. Len(outcomes) + c -> Nat] : Laid(events', at, Len(outcomes) + c, sub)
      BY <1>4
    <3>3. /\ at[n] + Len(sub[n].events) <= Len(events')
          /\ \A i \in DOMAIN sub[n].events : events'[at[n] + i] = sub[n].events[i]
          /\ \E o : Own(sub[n], n, o)
      BY <3>1, <3>2 DEF Laid
    <3>4. PICK i \in DOMAIN sub[n].events : sub[n].events[i].step = sub[n].final
      BY <1>2, <3>3 DEF Own, Has
    <3>5. n \in Subs
      <4>1. n - Len(outcomes) \in 1 .. c /\ n = Len(outcomes) + (n - Len(outcomes))
        BY <1>3, <1>7 DEF Following
      <4> QED
        BY <1>3, <4>1
    <3>6. sub[n].events \in Seq(Events) /\ events' \in Seq(Events) /\ at[n] \in Nat
      BY <1>1, <1>3, <3>1, <3>5, RecordsMerged DEF AInv, Typed, Executions
    <3>7. at[n] + i \in DOMAIN events'
      <4>1. i \in 1 .. Len(sub[n].events) /\ Len(sub[n].events) \in Nat /\ Len(events') \in Nat
        BY <3>6
      <4>2. at[n] + i \in 1 .. Len(events')
        BY <3>3, <3>6, <4>1
      <4> QED
        BY <3>6, <4>2
    <3> QED
      BY <3>3, <3>4, <3>7 DEF Has
  <2>3. \A x \in causes' : Has(events', x)
    BY <1>1, <1>2, <2>1, <2>2 DEF Referred
  <2>4. \A k \in DOMAIN rounds' : Has(events', rounds'[k].main)
    BY <1>1, <1>2, <2>1 DEF Referred
  <2>5. \A k \in DOMAIN tools' : \E n \in 1 .. Len(outcomes') :
          \E i \in DOMAIN sub'[n].tools : tools'[k] = sub'[n].tools[i]
    BY <1>2, <1>5, <1>6
  <2> QED
    BY <1>5, <2>3, <2>4, <2>5 DEF Referred
<1>10. Working'
  BY <1>2 DEF Working
<1> QED
  BY <1>8, <1>9, <1>10

\* A step of a Sub, whichever.
LEMMA SubNextTrace ==
  ASSUME TInv, NEW n \in Subs, SubNext(n)
  PROVE  Merged' /\ Referred' /\ Working'
<1>1. AInv /\ Working
  BY DEF TInv
<1>2. sub[n].pc \in {"generate", "tools"}
  BY DEF SubNext, SubTurn, SubRaises, StartTool, EndTool, EndTurn
<1>3. n \in RoundSubs /\ waiting
  BY <1>1, <1>2, AtWork DEF Awaited
<1> DEFINE o == Last(rounds).main
<1>4. Own(sub[n], n, o)
  BY <1>1, <1>3 DEF Working
<1> HIDE DEF o
<1>5. UNCHANGED main /\ \E s : sub' = [sub EXCEPT ![n] = s] /\ Own(s, n, o)
  BY <1>1, <1>4, GenerateOwn, EndTurnOwn, ToolOwn DEF SubNext
<1> QED
  BY <1>2, <1>5, SubTrace DEF o

\* What the trace is refers to these.
LEMMA TraceStutters ==
  ASSUME TInv, UNCHANGED <<status, round, attempt, waiting, causes, events, rounds, outcomes,
                           tools, sub>>
  PROVE  Merged' /\ Referred' /\ Working'
<1>1. Merged'
  BY DEF TInv, Merged, MayTurn
<1>2. Referred'
  BY DEF TInv, Referred
<1>3. Working'
  BY DEF TInv, Working, RoundSubs
<1> QED
  BY <1>1, <1>2, <1>3

LEMMA RaisesTrace ==
  ASSUME TInv, MainRaises
  PROVE  Merged' /\ Referred' /\ Working'
<1>1. /\ status' = "raised" /\ waiting = FALSE
      /\ UNCHANGED <<round, attempt, waiting, causes, events, rounds, outcomes, tools, sub>>
  BY DEF MainRaises, TInv, AInv, Typed
<1>2. \A x : MainPast(x, round, attempt, MayTurn) => MainPast(x, round, attempt, MayTurn')
  BY <1>1 DEF MainPast, MayTurn
<1>3. Merged'
  BY <1>1, <1>2 DEF TInv, Merged
<1>4. Referred' /\ Working'
  BY <1>1 DEF TInv, Referred, Working
<1> QED
  BY <1>3, <1>4

\* Every step keeps the trace sound.
THEOREM TraceStep == TInv /\ [Next]_vars => TInv'
<1> SUFFICES ASSUME TInv, [Next]_vars PROVE TInv'
  OBVIOUS
<1>1. AInv'
  BY EpisodeStep DEF TInv
<1>2. Merged' /\ Referred' /\ Working'
  <2>1. CASE MainNext
    BY <2>1, MainTurnTrace, RaisesTrace, MergeTrace DEF MainNext
  <2>2. ASSUME NEW n \in Subs, SubNext(n) PROVE Merged' /\ Referred' /\ Working'
    BY <2>2, SubNextTrace
  <2>3. CASE UNCHANGED vars
    BY <2>3, TraceStutters DEF vars, main
  <2> QED
    BY <2>1, <2>2, <2>3 DEF Next
<1> QED
  BY <1>1, <1>2 DEF TInv

LEMMA TraceInit == Init => TInv
<1> SUFFICES ASSUME Init PROVE TInv
  OBVIOUS
<1>1. AInv
  BY AInit
<1>2. /\ events = <<>> /\ outcomes = <<>> /\ tools = <<>> /\ rounds = <<>> /\ causes = {}
      /\ ~waiting
  BY DEF Init
<1>3. Merged
  <2>1. [n \in 1 .. 0 |-> 0] \in [1 .. Len(outcomes) -> Nat]
    BY <1>2
  <2>2. Laid(events, [n \in 1 .. 0 |-> 0], Len(outcomes), sub)
    BY <1>2 DEF Laid
  <2>3. \E at \in [1 .. Len(outcomes) -> Nat] : Laid(events, at, Len(outcomes), sub)
    BY <2>1, <2>2
  <2>4. DOMAIN events = {}
    BY <1>2
  <2>5. Chain(events)
    BY <2>4 DEF Chain
  <2>6. \A k \in DOMAIN events :
          events[k].step.agent = 0 => MainPast(events[k].step, round, attempt, MayTurn)
    BY <2>4
  <2> QED
    BY <2>3, <2>5, <2>6 DEF Merged
<1>4. Referred /\ Working
  BY <1>2 DEF Referred, Working
<1> QED
  BY <1>1, <1>3, <1>4 DEF TInv

-----------------------------------------------------------------------------
(* The trace, for every episode                                              *)

\* Where the facts of the Subs lie.
LEMMA Placed ==
  ASSUME TInv, NEW at \in [1 .. Len(outcomes) -> Nat], Laid(events, at, Len(outcomes), sub),
         NEW k \in DOMAIN events, NEW n, n = events[k].step.agent, n # 0
  PROVE  /\ n \in 1 .. Len(outcomes) /\ k - at[n] \in DOMAIN sub[n].events
         /\ events[k] = sub[n].events[k - at[n]]
         /\ k \in Nat /\ at[n] \in Nat /\ k > at[n] /\ k <= at[n] + Len(sub[n].events)
         /\ Len(sub[n].events) \in Nat
<1>1. AInv /\ events \in Seq(Events)
  BY DEF TInv, AInv, Typed
<1>2. n \in 1 .. Len(outcomes) /\ k - at[n] \in DOMAIN sub[n].events
  BY DEF Laid
<1>3. sub[n].events \in Seq(Events) /\ at[n] \in Nat /\ k \in Nat
  <2>1. n \in Subs
    BY <1>1, <1>2, MergedSubsDone
  <2>2. sub \in [Subs -> Executions]
    BY <1>1 DEF AInv, Typed
  <2>3. sub[n] \in Executions
    BY <2>1, <2>2
  <2>4. sub[n].events \in Seq(Events)
    BY <2>3 DEF Executions
  <2>5. at[n] \in Nat
    BY <1>2
  <2>6. k \in Nat
    <3>1. DOMAIN events = 1 .. Len(events) /\ Len(events) \in Nat
      BY <1>1
    <3> QED
      BY <3>1
  <2> QED
    BY <2>4, <2>5, <2>6
<1>4. at[n] + (k - at[n]) = k
  BY <1>3
<1>5. events[at[n] + (k - at[n])] = sub[n].events[k - at[n]]
  BY <1>2 DEF Laid
<1>6. k - at[n] \in 1 .. Len(sub[n].events) /\ Len(sub[n].events) \in Nat
  <2>1. DOMAIN sub[n].events = 1 .. Len(sub[n].events) /\ Len(sub[n].events) \in Nat
    BY <1>3
  <2> QED
    BY <1>2, <2>1
<1> QED
  BY <1>2, <1>3, <1>4, <1>5, <1>6

\* Every step of the trace has one place in it, and its causes lie before it.
LEMMA StepsUnique ==
  ASSUME TInv
  PROVE  /\ \A j, k \in DOMAIN events : events[j].step = events[k].step => j = k
         /\ \A k \in DOMAIN events : \A c \in events[k].causes :
              \E j \in DOMAIN events : j < k /\ events[j].step = c
<1>1. Merged /\ events \in Seq(Events)
  BY DEF TInv, AInv, Typed
<1>2. PICK at \in [1 .. Len(outcomes) -> Nat] : Laid(events, at, Len(outcomes), sub)
  BY <1>1 DEF Merged
<1>3. ASSUME NEW j \in DOMAIN events, NEW k \in DOMAIN events, events[j].step = events[k].step
      PROVE  j = k
  <2> DEFINE n == events[k].step.agent
  <2>1. CASE n = 0
    BY <1>1, <1>3, <2>1 DEF Merged, Chain
  <2>2. CASE n # 0
    <3>1. n = events[j].step.agent
      BY <1>3
    <3> HIDE DEF n
    <3>2. /\ n \in 1 .. Len(outcomes) /\ k - at[n] \in DOMAIN sub[n].events
          /\ events[k] = sub[n].events[k - at[n]] /\ k \in Nat /\ at[n] \in Nat
      BY <1>2, <2>2, Placed DEF n
    <3>3. /\ j - at[n] \in DOMAIN sub[n].events
          /\ events[j] = sub[n].events[j - at[n]] /\ j \in Nat
      BY <1>2, <2>2, <3>1, Placed
    <3>4. \E o : Own(sub[n], n, o)
      BY <1>2, <3>2 DEF Laid
    <3>5. j - at[n] = k - at[n]
      BY <1>3, <3>2, <3>3, <3>4 DEF Own, Lines
    <3> QED
      BY <3>2, <3>3, <3>5
  <2> QED
    BY <2>1, <2>2
<1>4. ASSUME NEW k \in DOMAIN events, NEW c \in events[k].causes
      PROVE  \E j \in DOMAIN events : j < k /\ events[j].step = c
  <2> DEFINE n == events[k].step.agent
  <2>1. CASE n = 0
    BY <1>1, <2>1 DEF Merged, Chain
  <2>2. CASE n # 0
    <3>1. /\ n \in 1 .. Len(outcomes) /\ k - at[n] \in DOMAIN sub[n].events
          /\ events[k] = sub[n].events[k - at[n]] /\ k \in Nat /\ at[n] \in Nat /\ k > at[n]
          /\ k <= at[n] + Len(sub[n].events) /\ Len(sub[n].events) \in Nat
      BY <1>2, <2>2, Placed
    <3> HIDE DEF n
    <3>2. /\ at[n] + Len(sub[n].events) <= Len(events)
          /\ \A i \in DOMAIN sub[n].events : events[at[n] + i] = sub[n].events[i]
          /\ \E o : Own(sub[n], n, o) /\ \E p \in 1 .. at[n] : events[p].step = o
      BY <1>2, <3>1 DEF Laid
    <3>3. PICK o : Own(sub[n], n, o) /\ \E p \in 1 .. at[n] : events[p].step = o
      BY <3>2
    <3>4. /\ DOMAIN events = 1 .. Len(events) /\ Len(events) \in Nat
      BY <1>1
    <3>5. n \in Subs
      BY <3>1, MergedSubsDone DEF TInv
    <3>6. sub[n].events \in Seq(Events)
      BY <3>5 DEF TInv, AInv, Typed, Executions
    <3>7. DOMAIN sub[n].events = 1 .. Len(sub[n].events)
      BY <3>6
    <3>8. c = o \/ \E i \in DOMAIN sub[n].events : i < k - at[n] /\ sub[n].events[i].step = c
      BY <3>1, <3>3 DEF Own, Lines
    <3>9. CASE c = o
      <4>1. PICK p \in 1 .. at[n] : events[p].step = o
        BY <3>3
      <4>2. p \in DOMAIN events /\ p < k
        BY <3>1, <3>2, <3>4, <4>1
      <4> QED
        BY <3>9, <4>1, <4>2
    <3>10. CASE \E i \in DOMAIN sub[n].events : i < k - at[n] /\ sub[n].events[i].step = c
      <4>1. PICK i \in DOMAIN sub[n].events : i < k - at[n] /\ sub[n].events[i].step = c
        BY <3>10
      <4>2. events[at[n] + i].step = c
        BY <3>2, <4>1
      <4>3. i \in 1 .. Len(sub[n].events)
        BY <3>7
      <4>4. at[n] + i \in DOMAIN events /\ at[n] + i < k
        BY <3>1, <3>2, <3>4, <4>1, <4>3
      <4> QED
        BY <4>2, <4>4
    <3> QED
      BY <3>8, <3>9, <3>10
  <2> QED
    BY <2>1, <2>2
<1> QED
  BY <1>3, <1>4

\* A tool outcome that Main has is that of a step it has; an access has its source before it.
LEMMA ToolsPlaced ==
  ASSUME TInv, NEW k \in DOMAIN tools
  PROVE  /\ Has(events, tools[k].step)
         /\ tools[k].step.kind = "access" /\ tools[k].ok =>
              \E x : /\ tools[k].source = {x} /\ x.kind = "search"
                     /\ x.agent = tools[k].step.agent /\ x.turn < tools[k].step.turn
                     /\ Precedes(events, x, tools[k].step)
<1>1. AInv /\ Merged /\ Referred /\ events \in Seq(Events)
  BY DEF TInv, AInv, Typed
<1>2. PICK at \in [1 .. Len(outcomes) -> Nat] : Laid(events, at, Len(outcomes), sub)
  BY <1>1 DEF Merged
<1>3. PICK n \in 1 .. Len(outcomes) : \E i \in DOMAIN sub[n].tools : tools[k] = sub[n].tools[i]
  BY <1>1 DEF Referred
<1>4. PICK i \in DOMAIN sub[n].tools : tools[k] = sub[n].tools[i]
  BY <1>3
<1>5. PICK o : Own(sub[n], n, o)
  BY <1>2 DEF Laid
<1>6. sub[n].events \in Seq(Events) /\ at[n] \in Nat
  BY <1>1, MergedSubsDone DEF AInv, Typed, Executions
<1>7. ASSUME NEW j \in DOMAIN sub[n].events
      PROVE  /\ at[n] + j \in DOMAIN events /\ events[at[n] + j] = sub[n].events[j]
             /\ j \in Nat /\ at[n] \in Nat
  <2>1. /\ at[n] + Len(sub[n].events) <= Len(events)
        /\ events[at[n] + j] = sub[n].events[j]
    BY <1>2 DEF Laid
  <2>2. j \in 1 .. Len(sub[n].events) /\ Len(sub[n].events) \in Nat /\ Len(events) \in Nat
    BY <1>1, <1>6
  <2>3. at[n] + j \in 1 .. Len(events)
    BY <1>6, <2>1, <2>2
  <2> QED
    BY <1>1, <1>6, <2>1, <2>2, <2>3
<1>8. /\ Has(sub[n].events, tools[k].step)
      /\ tools[k].step.kind = "access" /\ tools[k].ok =>
           \E x : Found(tools[k], sub[n].events, n, x)
  BY <1>4, <1>5 DEF Own, Sourced
<1>9. PICK j \in DOMAIN sub[n].events : sub[n].events[j].step = tools[k].step
  BY <1>8 DEF Has
<1>10. Has(events, tools[k].step) /\ tools[k].step.agent = n
  BY <1>5, <1>7, <1>9 DEF Has, Own, Lines
<1>11. ASSUME tools[k].step.kind = "access", tools[k].ok
       PROVE  \E x : /\ tools[k].source = {x} /\ x.kind = "search"
                     /\ x.agent = tools[k].step.agent /\ x.turn < tools[k].step.turn
                     /\ Precedes(events, x, tools[k].step)
  <2>1. PICK x : Found(tools[k], sub[n].events, n, x)
    BY <1>8, <1>11
  <2>2. PICK a, b \in DOMAIN sub[n].events :
          a < b /\ sub[n].events[a].step = x /\ sub[n].events[b].step = tools[k].step
    BY <2>1 DEF Found, Precedes
  <2>3. at[n] + a < at[n] + b
    BY <1>7, <2>2
  <2>4. Precedes(events, x, tools[k].step)
    BY <1>7, <2>2, <2>3 DEF Precedes
  <2> QED
    BY <1>10, <2>1, <2>4 DEF Found
<1> QED
  BY <1>10, <1>11

\* What the invariant says of the trace: its validator accepts it.
LEMMA TraceHolds == TInv => TraceSound
<1> SUFFICES ASSUME TInv PROVE TraceSound
  OBVIOUS
<1>1. AInv /\ Merged /\ Referred /\ events \in Seq(Events) /\ tools \in Seq(ToolRecords)
  BY DEF TInv, AInv, Typed
<1>2. /\ \A j, k \in DOMAIN events : events[j].step = events[k].step => j = k
      /\ \A k \in DOMAIN events : \A c \in events[k].causes :
           \E j \in DOMAIN events : j < k /\ events[j].step = c
  BY StepsUnique
<1>3. \A x : Has(events, x) => x \in Steps
  BY DEF Has, Steps, ToSet
<1>4. ASSUME NEW j \in DOMAIN events PROVE PlaceOf(events[j].step) = j
  BY <1>2 DEF PlaceOf
<1>5. TraceConsistent
  <2> SUFFICES ASSUME Returned
               PROVE  /\ \A j, k \in DOMAIN events : events[j].step = events[k].step => j = k
                      /\ \A k \in DOMAIN events : \A c \in events[k].causes :
                           c \in Steps /\ PlaceOf(c) < k
                      /\ Cardinality(UNION {r.subs : r \in ToSet(rounds)}) = Len(outcomes)
                      /\ {r.main : r \in ToSet(rounds)} \subseteq Steps
                      /\ {t.step : t \in ToSet(tools)} \subseteq Steps
    BY DEF TraceConsistent
  <2>1. ASSUME NEW k \in DOMAIN events, NEW c \in events[k].causes
        PROVE  c \in Steps /\ PlaceOf(c) < k
    <3>1. PICK j \in DOMAIN events : j < k /\ events[j].step = c
      BY <1>2
    <3>2. Has(events, c) /\ PlaceOf(c) = j
      BY <1>4, <3>1 DEF Has
    <3> QED
      BY <1>3, <3>1, <3>2
  <2>2. Cardinality(UNION {r.subs : r \in ToSet(rounds)}) = Len(outcomes)
    <3>1. ~waiting
      BY <1>1 DEF AInv, Limited, Returned
    <3>2. UNION {r.subs : r \in ToSet(rounds)} = 1 .. Len(outcomes)
      BY <1>1, <3>1 DEF AInv, Delegated, Awaited
    <3>3. Len(outcomes) \in Nat
      BY <1>1, MergedSubsDone
    <3>4. Cardinality(1 .. Len(outcomes)) = IF 1 > Len(outcomes) THEN 0 ELSE Len(outcomes) - 1 + 1
      BY <3>3, FS_Interval
    <3>5. Cardinality(1 .. Len(outcomes)) = Len(outcomes)
      BY <3>3, <3>4
    <3> QED
      BY <3>2, <3>5
  <2>3. {r.main : r \in ToSet(rounds)} \subseteq Steps
    BY <1>1, <1>3 DEF Referred, ToSet
  <2>4. {t.step : t \in ToSet(tools)} \subseteq Steps
    <3>1. \A k \in DOMAIN tools : tools[k].step \in Steps
      BY <1>3, ToolsPlaced
    <3> QED
      BY <3>1 DEF ToSet
  <2> QED
    BY <1>2, <2>1, <2>2, <2>3, <2>4
<1>6. RequestOrder
  <2>1. PICK at \in [1 .. Len(outcomes) -> Nat] : Laid(events, at, Len(outcomes), sub)
    BY <1>1 DEF Merged
  <2>2. ASSUME NEW j \in DOMAIN events, NEW k \in DOMAIN events, NEW a, NEW b,
               a = events[j].step.agent, b = events[k].step.agent, j < k, a # 0, b # 0
        PROVE  a <= b
    <3>1. /\ a \in 1 .. Len(outcomes) /\ j \in Nat /\ at[a] \in Nat /\ j > at[a]
          /\ j <= at[a] + Len(sub[a].events) /\ Len(sub[a].events) \in Nat
      BY <2>1, <2>2, Placed
    <3>2. /\ b \in 1 .. Len(outcomes) /\ k \in Nat /\ at[b] \in Nat /\ k > at[b]
          /\ k <= at[b] + Len(sub[b].events) /\ Len(sub[b].events) \in Nat
      BY <2>1, <2>2, Placed
    <3>3. b < a => at[b] + Len(sub[b].events) <= at[a]
      BY <2>1, <3>1, <3>2 DEF Laid
    <3> DEFINE x == at[a]
               y == at[b]
               z == Len(sub[b].events)
    <3>3a. /\ x \in Nat /\ y \in Nat /\ z \in Nat /\ j \in Nat /\ k \in Nat
           /\ j > x /\ k <= y + z /\ (b < a => y + z <= x)
      BY <3>1, <3>2, <3>3
    <3> HIDE DEF x, y, z
    <3>4. ~(b < a)
      BY <2>2, <3>3a
    <3> QED
      BY <3>1, <3>2, <3>4
  <2>3. \A k \in DOMAIN outcomes : outcomes[k].agent = k
    BY <1>1 DEF Referred
  <2> QED
    BY <2>2, <2>3 DEF RequestOrder
<1>7. AccessesDiscovered
  <2> SUFFICES ASSUME NEW k \in DOMAIN tools, tools[k].step.kind = "access", tools[k].ok
               PROVE  /\ Cardinality(tools[k].source) = 1
                      /\ \A s \in tools[k].source :
                           /\ s.kind = "search"
                           /\ s.agent = tools[k].step.agent
                           /\ s.turn < tools[k].step.turn
                           /\ Returned => PlaceOf(s) < PlaceOf(tools[k].step)
    BY DEF AccessesDiscovered
  <2>1. PICK x : /\ tools[k].source = {x} /\ x.kind = "search"
                 /\ x.agent = tools[k].step.agent /\ x.turn < tools[k].step.turn
                 /\ Precedes(events, x, tools[k].step)
    BY ToolsPlaced
  <2>2. PICK i, j \in DOMAIN events : /\ i < j /\ events[i].step = x
                                      /\ events[j].step = tools[k].step
    BY <2>1 DEF Precedes
  <2>3. PlaceOf(x) = i /\ PlaceOf(tools[k].step) = j
    BY <1>4, <2>2
  <2>4. Cardinality({x}) = 1
    BY FS_Singleton
  <2> QED
    BY <2>1, <2>2, <2>3, <2>4
<1> QED
  BY <1>5, <1>6, <1>7 DEF TraceSound

\* The trace an episode leaves is one its validator accepts, for every set of addresses and
\* every limits, however the Subs and their calls interleaved, failed or were refused
\* (wideseek_episode.py, run, _run_sub; trace_must_be_internally_consistent).
THEOREM TraceSoundAlways == Spec => []TraceSound
<1>1. Spec => []TInv
  BY TraceInit, TraceStep, PTL DEF Spec
<1> QED
  BY <1>1, TraceHolds, PTL

=============================================================================
