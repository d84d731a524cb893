------------------------- MODULE Experiment_proofs -------------------------
(***************************************************************************)
(* For every number of cycles, of invocations and of damaged reports, and  *)
(* for all configurations, environments and evaluators: the state file     *)
(* only grows along the plan, no cycle of an interrupted invocation is     *)
(* adopted, the two topologies are comparable, and a run passes only with  *)
(* every stage verified.                                                   *)
(*                                                                         *)
(* The invariant says that an invocation that goes on holds the records of *)
(* the state file, and that these name the first stages of the plan; that  *)
(* the reports it looked at stay what they were until it ends; and of each *)
(* record what makes its checkpoints trustworthy, with the records before. *)
(***************************************************************************)
EXTENDS Experiment, SequenceTheorems, FiniteSetTheorems, TLAPS

-----------------------------------------------------------------------------
(* The invariant *)

\* The invocation has read or made a state file.
Loaded == {"plan", "execute", "report", "record", "final"}

\* It has found out which stage is the next, and verified the ones before.
Checked == {"execute", "report", "record", "final"}

Working == {"execute", "report", "record"}

\* One invocation at a time: what it holds is what the file says.
InStep ==
  /\ pc \in Loaded => file # NoState /\ file.config = config /\ records = file.records
  /\ pc \notin Loaded => records = <<>>
  /\ pc = "create" => file = NoState
  /\ IF pc = "record" THEN \E p : produced = {p} ELSE produced = {}

\* The stages on file are the first ones of the plan, the request is the one that follows,
\* and what was verified still is.
InOrder ==
  /\ Len(Committed) <= Len(Plan)
  /\ \A k \in DOMAIN Committed : Committed[k].stage = Plan[k]
  /\ pc \in Working => Len(records) < Len(Plan) /\ request = Plan[Len(records) + 1]
  /\ pc = "final" => Len(records) = Len(Plan)
  /\ pc \in Checked => \A r \in ToSet(records) : Verified(r)

\* Each checkpoint of r is the result of supervised training and of cycles of the topology
\* of r, up to its own, as they are recorded in C.
Lineage(r, C) ==
  \A c \in r.checkpoints :
    /\ \E b \in c.by : b[1] = Sft
    /\ \A b \in c.by :
         /\ b[1] = Sft \/ (b[1].of = r.stage.of /\ b[1].cycle <= r.stage.cycle)
         /\ \E d \in C : d.stage = b[1] /\ d.report.launch = b[2]

\* A cycle is recorded by the launch that began it, which is the only one in its checkpoints.
FromBeginning(r) ==
  r.stage.kind = "train" =>
    /\ r.stage \in DOMAIN begun
    /\ r.report.launch = begun[r.stage]
    /\ \A c \in r.checkpoints : \A b \in c.by : b[1] = r.stage => b[2] = begun[r.stage]

\* The supervised stage leaves a shared policy and nothing else.
SharedStart(r) ==
  r.stage = Sft =>
    /\ {c.policy : c \in r.checkpoints} = {"shared"}
    /\ \A c \in r.checkpoints : \A b \in c.by : b[1] = Sft

Sound(r, C) == HasPolicies(r) /\ Lineage(r, C) /\ FromBeginning(r) /\ SharedStart(r)

InEnvironment(r) == r.stage.kind \in {"train", "evaluate"}

\* The records, and the one that is about to be appended.
RecordsSound ==
  /\ \A r \in ToSet(Committed) : Sound(r, ToSet(Committed))
  /\ pc = "record" => \A p \in produced :
       /\ p.stage = request
       /\ p.report = reports[request]
       /\ Sound(p, ToSet(records) \cup {p})
       /\ \A r \in ToSet(records) :
            InEnvironment(p) /\ InEnvironment(r) => r.report.contract = p.report.contract

\* The cycle that is executed was begun by this launch.
CycleBegun ==
  pc \in {"report", "record"} /\ request.kind = "train" =>
    request \in DOMAIN begun /\ begun[request] = launch

OneEvaluatorOf(C) ==
  \A r, d \in C :
    r.stage.kind = "evaluate" /\ d.stage.kind = "evaluate" =>
      r.report.evaluator = d.report.evaluator

\* What the comparison was made of.
Compared ==
  /\ pc \in {"report", "record"} /\ request = Comparison => OneEvaluatorOf(ToSet(records))
  /\ (\E r \in ToSet(Committed) : r.stage = Comparison) => OneEvaluatorOf(ToSet(Committed))

IInv ==
  /\ TypeOK
  /\ InStep
  /\ InOrder
  /\ RecordsSound
  /\ OneContract
  /\ CycleBegun
  /\ Compared

-----------------------------------------------------------------------------
(* The plan *)

AllStages == [kind : {"sft", "train", "evaluate", "compare"},
              of : {"shared", "independent", "sft", "all"}, cycle : Nat]

Tailing == <<Evaluate("sft"), Evaluate("shared"), Evaluate("independent"), Comparison>>

\* The cycles of a topology, in order.
LEMMA CyclesSeq ==
  ASSUME NEW n \in Nat, NEW topology \in Topologies
  PROVE  /\ [c \in 1 .. n |-> Train(topology, c)] \in Seq(AllStages)
         /\ Len([c \in 1 .. n |-> Train(topology, c)]) = n
<1> DEFINE cycles == [c \in 1 .. n |-> Train(topology, c)]
<1>1. cycles \in [1 .. n -> AllStages]
  BY DEF AllStages, Train, Stage, Topologies
<1>2. Seq(AllStages) = UNION {[1 .. m -> AllStages] : m \in Nat}
  BY SeqDef, Zenon
<1>3. cycles \in Seq(AllStages)
  BY <1>1, <1>2
<1>4. Len(cycles) = n
  BY <1>1, <1>3, LenProperties
<1> QED
  BY <1>3, <1>4

\* Two parts of the plan in a row.
LEMMA InARow ==
  ASSUME NEW s \in Seq(AllStages), NEW t \in Seq(AllStages)
  PROVE  /\ s \o t \in Seq(AllStages)
         /\ Len(s \o t) = Len(s) + Len(t)
         /\ \A i \in 1 .. Len(s) + Len(t) :
              (s \o t)[i] = IF i <= Len(s) THEN s[i] ELSE t[i - Len(s)]
BY ConcatProperties, Zenon

\* What stands where in the plan.
LEMMA PlanAt ==
  /\ Plan \in Seq(AllStages)
  /\ Len(Plan) = SharedCycles + IndependentCycles + 5
  /\ Plan[1] = Sft
  /\ \A c \in 1 .. SharedCycles : Plan[c + 1] = Train("shared", c)
  /\ \A c \in 1 .. IndependentCycles : Plan[SharedCycles + c + 1] = Train("independent", c)
  /\ Plan[SharedCycles + IndependentCycles + 2] = Evaluate("sft")
  /\ Plan[SharedCycles + IndependentCycles + 3] = Evaluate("shared")
  /\ Plan[SharedCycles + IndependentCycles + 4] = Evaluate("independent")
  /\ Plan[SharedCycles + IndependentCycles + 5] = Comparison
<1> DEFINE start == <<Sft>>
           shared == [c \in 1 .. SharedCycles |-> Train("shared", c)]
           independent == [c \in 1 .. IndependentCycles |-> Train("independent", c)]
<1>1. SharedCycles \in Nat /\ IndependentCycles \in Nat
  BY ExperimentAssumption
<1>2. /\ shared \in Seq(AllStages) /\ Len(shared) = SharedCycles
      /\ independent \in Seq(AllStages) /\ Len(independent) = IndependentCycles
  BY <1>1, CyclesSeq DEF Topologies
<1>3. start \in Seq(AllStages) /\ Len(start) = 1 /\ start[1] = Sft
  BY DEF Sft, Stage, AllStages
<1>4. /\ Tailing \in Seq(AllStages) /\ Len(Tailing) = 4
      /\ Tailing[1] = Evaluate("sft") /\ Tailing[2] = Evaluate("shared")
      /\ Tailing[3] = Evaluate("independent") /\ Tailing[4] = Comparison
  BY DEF Tailing, Evaluate, Comparison, Stage, AllStages
<1>5. /\ \A c \in 1 .. SharedCycles : shared[c] = Train("shared", c)
      /\ \A c \in 1 .. IndependentCycles : independent[c] = Train("independent", c)
  OBVIOUS
<1> HIDE DEF start, shared, independent
<1> DEFINE S == SharedCycles
           I == IndependentCycles
           two == start \o shared
           three == two \o independent
<1>6. /\ two \in Seq(AllStages) /\ Len(two) = 1 + S
      /\ \A i \in 1 .. 1 + S : two[i] = IF i <= 1 THEN start[i] ELSE shared[i - 1]
  <2>1. /\ two \in Seq(AllStages) /\ Len(two) = Len(start) + Len(shared)
        /\ \A i \in 1 .. Len(start) + Len(shared) :
             two[i] = IF i <= Len(start) THEN start[i] ELSE shared[i - Len(start)]
    BY <1>2, <1>3, InARow, Zenon
  <2> QED
    BY <1>2, <1>3, <2>1, Zenon
<1> HIDE DEF two
<1>7. /\ three \in Seq(AllStages) /\ Len(three) = 1 + S + I
      /\ \A i \in 1 .. 1 + S + I :
           three[i] = IF i <= 1 + S THEN two[i] ELSE independent[i - (1 + S)]
  <2>1. /\ three \in Seq(AllStages) /\ Len(three) = Len(two) + Len(independent)
        /\ \A i \in 1 .. Len(two) + Len(independent) :
             three[i] = IF i <= Len(two) THEN two[i] ELSE independent[i - Len(two)]
    BY <1>2, <1>6, InARow, Zenon
  <2> QED
    BY <1>2, <1>6, <2>1, Zenon
<1> HIDE DEF three
<1>8. /\ Plan \in Seq(AllStages) /\ Len(Plan) = 1 + S + I + 4
      /\ \A i \in 1 .. 1 + S + I + 4 :
           Plan[i] = IF i <= 1 + S + I THEN three[i] ELSE Tailing[i - (1 + S + I)]
  <2>1. Plan = three \o Tailing
    BY DEF Plan, Tailing, three, two, start, shared, independent
  <2>2. /\ Plan \in Seq(AllStages) /\ Len(Plan) = Len(three) + Len(Tailing)
        /\ \A i \in 1 .. Len(three) + Len(Tailing) :
             Plan[i] = IF i <= Len(three) THEN three[i] ELSE Tailing[i - Len(three)]
    BY <1>4, <1>7, <2>1, InARow, Zenon
  <2> QED
    BY <1>4, <1>7, <2>2, Zenon
<1>9. ASSUME NEW c \in 1 .. S PROVE Plan[c + 1] = Train("shared", c)
  <2>1. c + 1 \in 1 .. 1 + S /\ ~(c + 1 <= 1) /\ (c + 1) - 1 = c
    BY <1>1
  <2>2. two[c + 1] = shared[c]
    BY <1>6, <2>1
  <2> QED
    BY <1>1, <1>5, <1>7, <1>8, <2>1, <2>2
<1>10. ASSUME NEW c \in 1 .. I PROVE Plan[S + c + 1] = Train("independent", c)
  <2>1. /\ S + c + 1 \in 1 .. 1 + S + I /\ ~(S + c + 1 <= 1 + S)
        /\ (S + c + 1) - (1 + S) = c
    BY <1>1
  <2>2. three[S + c + 1] = independent[c]
    BY <1>7, <2>1
  <2> QED
    BY <1>1, <1>5, <1>8, <2>1, <2>2
<1>11. ASSUME NEW i \in 1 .. 4 PROVE Plan[S + I + i + 1] = Tailing[i]
  <2>1. /\ S + I + i + 1 \in 1 .. 1 + S + I + 4 /\ ~(S + I + i + 1 <= 1 + S + I)
        /\ (S + I + i + 1) - (1 + S + I) = i
    BY <1>1
  <2> QED
    BY <1>8, <2>1
<1>12. Plan[1] = Sft
  <2>1. 1 \in 1 .. 1 + S /\ 1 \in 1 .. 1 + S + I /\ 1 \in 1 .. 1 + S + I + 4
    BY <1>1
  <2> QED
    BY <1>3, <1>6, <1>7, <1>8, <2>1, <1>1
<1>13. /\ Plan[S + I + 2] = Tailing[1] /\ Plan[S + I + 3] = Tailing[2]
       /\ Plan[S + I + 4] = Tailing[3] /\ Plan[S + I + 5] = Tailing[4]
  <2>1. /\ S + I + 2 = S + I + 1 + 1 /\ S + I + 3 = S + I + 2 + 1
        /\ S + I + 4 = S + I + 3 + 1 /\ S + I + 5 = S + I + 4 + 1
        /\ 1 \in 1 .. 4 /\ 2 \in 1 .. 4 /\ 3 \in 1 .. 4 /\ 4 \in 1 .. 4
    BY <1>1
  <2> QED
    BY <1>11, <2>1, Zenon
<1>14. Len(Plan) = S + I + 5
  BY <1>1, <1>8
<1> QED
  BY <1>4, <1>8, <1>9, <1>10, <1>12, <1>13, <1>14, Zenon

\* A place of the plan is one of these.
LEMMA PlanCases ==
  ASSUME NEW k \in DOMAIN Plan
  PROVE  \/ k = 1 /\ Plan[k] = Sft
         \/ \E c \in 1 .. SharedCycles : k = c + 1 /\ Plan[k] = Train("shared", c)
         \/ \E c \in 1 .. IndependentCycles :
              k = SharedCycles + c + 1 /\ Plan[k] = Train("independent", c)
         \/ k = SharedCycles + IndependentCycles + 2 /\ Plan[k] = Evaluate("sft")
         \/ k = SharedCycles + IndependentCycles + 3 /\ Plan[k] = Evaluate("shared")
         \/ k = SharedCycles + IndependentCycles + 4 /\ Plan[k] = Evaluate("independent")
         \/ k = SharedCycles + IndependentCycles + 5 /\ Plan[k] = Comparison
<1>1. SharedCycles \in Nat /\ IndependentCycles \in Nat
  BY ExperimentAssumption
<1>2. k \in 1 .. (SharedCycles + IndependentCycles + 5)
  BY PlanAt, LenProperties
<1>3. CASE k \in 2 .. SharedCycles + 1
  <2>1. k - 1 \in 1 .. SharedCycles /\ k = (k - 1) + 1
    BY <1>1, <1>3
  <2> QED
    BY <2>1, PlanAt
<1>4. CASE k \in SharedCycles + 2 .. SharedCycles + IndependentCycles + 1
  <2>1. /\ k - SharedCycles - 1 \in 1 .. IndependentCycles
        /\ k = SharedCycles + (k - SharedCycles - 1) + 1
    BY <1>1, <1>4
  <2> QED
    BY <2>1, PlanAt
<1>5. \/ k \in 2 .. SharedCycles + 1
      \/ k \in SharedCycles + 2 .. SharedCycles + IndependentCycles + 1
      \/ k = 1
      \/ k = SharedCycles + IndependentCycles + 2
      \/ k = SharedCycles + IndependentCycles + 3
      \/ k = SharedCycles + IndependentCycles + 4
      \/ k = SharedCycles + IndependentCycles + 5
  BY <1>1, <1>2
<1> QED
  BY <1>3, <1>4, <1>5, PlanAt

\* The plan names no stage twice.
LEMMA PlanInjective ==
  ASSUME NEW j \in DOMAIN Plan, NEW k \in DOMAIN Plan, Plan[j] = Plan[k]
  PROVE  j = k
<1>1. SharedCycles \in Nat /\ IndependentCycles \in Nat
  BY ExperimentAssumption
<1> QED
  BY <1>1, PlanCases DEF Sft, Train, Evaluate, Comparison, Stage

-----------------------------------------------------------------------------
(* What is recorded *)

\* The invocation's records are those of the file.
LEMMA Held ==
  ASSUME IInv
  PROVE  /\ pc \in Loaded => Committed = records
         /\ Committed \in Seq(StageRecord)
<1>1. file # NoState => file \in StateFile
  BY DEF IInv, TypeOK
<1>2. file # NoState => file.records \in Seq(StageRecord)
  BY <1>1 DEF StateFile
<1>3. <<>> \in Seq(StageRecord)
  BY EmptySeq
<1> QED
  BY <1>2, <1>3 DEF IInv, InStep, Committed

LEMMA SetOf ==
  ASSUME NEW S, NEW s \in Seq(S)
  PROVE  /\ ToSet(s) \subseteq S
         /\ \A e : e \in ToSet(s) <=> \E k \in 1 .. Len(s) : e = s[k]
BY LenProperties, ElementOfSeq DEF ToSet

LEMMA SetOfAppend ==
  ASSUME NEW S, NEW s \in Seq(S), NEW e \in S
  PROVE  ToSet(Append(s, e)) = ToSet(s) \cup {e}
<1>1. /\ Append(s, e) \in Seq(S)
      /\ Len(Append(s, e)) = Len(s) + 1
      /\ \A i \in 1 .. Len(s) : Append(s, e)[i] = s[i]
      /\ Append(s, e)[Len(s) + 1] = e
  BY AppendProperties
<1>2. Len(s) \in Nat
  BY LenProperties
<1>3. ASSUME NEW x PROVE x \in ToSet(Append(s, e)) <=> x \in ToSet(s) \cup {e}
  <2>0. DOMAIN Append(s, e) = 1 .. Len(Append(s, e))
    BY <1>1, LenProperties, Zenon
  <2>1. x \in ToSet(Append(s, e)) <=> \E k \in 1 .. Len(s) + 1 : x = Append(s, e)[k]
    BY <1>1, <2>0, Zenon DEF ToSet
  <2>2. x \in ToSet(s) <=> \E k \in 1 .. Len(s) : x = s[k]
    BY SetOf
  <2>3. 1 .. Len(s) + 1 = (1 .. Len(s)) \cup {Len(s) + 1}
    BY <1>2
  <2> QED
    BY <1>1, <2>1, <2>2, <2>3
<1> QED
  BY <1>3

LEMMA StagesOfPlan ==
  /\ DOMAIN Plan = 1 .. Len(Plan) /\ Len(Plan) \in Nat
  /\ \A k \in 1 .. Len(Plan) : Plan[k] \in Stages
  /\ \A s \in Stages : \E k \in 1 .. Len(Plan) : s = Plan[k]
<1>1. DOMAIN Plan = 1 .. Len(Plan) /\ Len(Plan) \in Nat
  BY PlanAt, LenProperties
<1> QED
  BY <1>1 DEF Stages, ToSet

LEMMA StagesTyped == Stages \subseteq AllStages
BY StagesOfPlan, PlanAt, ElementOfSeq

\* Records that name the first stages of the plan: a stage has its record, or none.
LEMMA RecordsOfPlan ==
  ASSUME records \in Seq(StageRecord), Len(records) <= Len(Plan),
         \A k \in DOMAIN records : records[k].stage = Plan[k]
  PROVE  /\ \A k \in 1 .. Len(records) : RecordOf(Plan[k]) = {records[k]}
         /\ \A k \in 1 .. Len(Plan) : Recorded(Plan[k]) <=> k <= Len(records)
<1>1. /\ DOMAIN records = 1 .. Len(records) /\ Len(records) \in Nat
      /\ DOMAIN Plan = 1 .. Len(Plan) /\ Len(Plan) \in Nat
  BY LenProperties, StagesOfPlan
<1>2. \A e : e \in ToSet(records) <=> \E k \in 1 .. Len(records) : e = records[k]
  BY SetOf
<1>3. ASSUME NEW k \in 1 .. Len(records) PROVE RecordOf(Plan[k]) = {records[k]}
  <2>1. records[k] \in RecordOf(Plan[k])
    BY <1>1, <1>2 DEF RecordOf
  <2>2. ASSUME NEW r \in RecordOf(Plan[k]) PROVE r = records[k]
    <3>1. PICK j \in 1 .. Len(records) : r = records[j]
      BY <1>2 DEF RecordOf
    <3>2. Plan[j] = Plan[k] /\ j \in DOMAIN Plan /\ k \in DOMAIN Plan
      BY <1>1, <3>1 DEF RecordOf
    <3> QED
      BY <3>1, <3>2, PlanInjective
  <2> QED
    BY <2>1, <2>2
<1>4. ASSUME NEW k \in 1 .. Len(Plan), Recorded(Plan[k]) PROVE k <= Len(records)
  <2>1. PICK j \in 1 .. Len(records) : records[j].stage = Plan[k]
    BY <1>2, <1>4 DEF Recorded, RecordOf
  <2>2. j = k
    BY <1>1, <2>1, PlanInjective
  <2> QED
    BY <1>1, <2>2
<1>5. ASSUME NEW k \in 1 .. Len(Plan), k <= Len(records) PROVE Recorded(Plan[k])
  BY <1>1, <1>3, <1>5 DEF Recorded
<1> QED
  BY <1>3, <1>4, <1>5

\* The same of a loaded invocation.
LEMMA RecordsLoaded ==
  ASSUME IInv, pc \in Loaded
  PROVE  /\ records \in Seq(StageRecord) /\ Len(records) \in Nat
         /\ DOMAIN records = 1 .. Len(records)
         /\ Len(records) <= Len(Plan)
         /\ \A k \in 1 .. Len(records) :
              records[k].stage = Plan[k] /\ RecordOf(Plan[k]) = {records[k]}
         /\ \A k \in 1 .. Len(Plan) : Recorded(Plan[k]) <=> k <= Len(records)
<1>1. Committed = records
  BY Held
<1>2. records \in Seq(StageRecord)
  BY DEF IInv, TypeOK
<1>3. DOMAIN records = 1 .. Len(records) /\ Len(records) \in Nat
  BY <1>2, LenProperties
<1>4. Len(records) <= Len(Plan) /\ \A k \in DOMAIN records : records[k].stage = Plan[k]
  BY <1>1 DEF IInv, InOrder
<1> QED
  BY <1>2, <1>3, <1>4, RecordsOfPlan

-----------------------------------------------------------------------------
(* Steps that leave the state file alone *)

\* What the records have to say of a cycle is not undone by what is begun later.
LEMMA SoundStays ==
  ASSUME NEW r, NEW C, NEW D, Sound(r, C), C \subseteq D,
         \A s \in DOMAIN begun : s \in DOMAIN begun' /\ begun'[s] = begun[s]
  PROVE  (Sound(r, D))'
<1>1. HasPolicies(r)' /\ SharedStart(r)'
  BY DEF Sound, HasPolicies, SharedStart
<1>2. Lineage(r, D)'
  BY DEF Sound, Lineage
<1>3. FromBeginning(r)'
  BY DEF Sound, FromBeginning
<1> QED
  BY <1>1, <1>2, <1>3 DEF Sound

\* An invocation that ends leaves nothing but the disk.
LEMMA EndedKeeps ==
  ASSUME IInv, Ended, UNCHANGED <<file, begun>>, TypeOK'
  PROVE  IInv'
<1>1. /\ pc' = "none" /\ records' = <<>> /\ produced' = {} /\ file' = file /\ begun' = begun
      /\ Committed' = Committed
  BY DEF Ended, Committed
<1>2. InStep'
  BY <1>1 DEF IInv, InStep, Loaded
<1>3. InOrder'
  BY <1>1 DEF IInv, InOrder, Working, Checked
<1>4. RecordsSound'
  BY <1>1, SoundStays DEF IInv, RecordsSound
<1>5. OneContract' /\ CycleBegun' /\ Compared'
  BY <1>1 DEF IInv, OneContract, CycleBegun, Compared, OneEvaluatorOf
<1> QED
  BY <1>2, <1>3, <1>4, <1>5 DEF IInv

\* Starting, and finding no state file to go on from.
LEMMA StartKeeps ==
  ASSUME IInv, Launch \/ \E resume \in BOOLEAN : MakeDirectory(resume)
  PROVE  IInv'
<1>1. /\ file' = file /\ begun' = begun /\ records' = records /\ produced' = produced
      /\ Committed' = Committed /\ pc \in {"none", "load"} /\ pc' \in {"load", "create"}
      /\ pc' = "create" => file = NoState
  BY DEF Launch, MakeDirectory, Fresh, Committed, disk
<1>2. TypeOK'
  <2>1. CASE Launch
    <3>1. launch' \in Launches
      BY <2>1, ExperimentAssumption DEF IInv, TypeOK, Launch, Launches
    <3>2. /\ UNCHANGED <<dir, file, reports, begun, final, records, request, produced, damages>>
          /\ config' \in Configs /\ pc' = "load"
      BY <2>1 DEF Launch, disk
    <3> QED
      BY <3>1, <3>2 DEF IInv, TypeOK, HasPolicies
  <2>2. CASE \E resume \in BOOLEAN : MakeDirectory(resume)
    BY <2>2 DEF IInv, TypeOK, MakeDirectory, HasPolicies
  <2> QED
    BY <2>1, <2>2
<1>3. InStep'
  BY <1>1 DEF IInv, InStep, Loaded
<1>4. InOrder'
  BY <1>1 DEF IInv, InOrder, Working, Checked
<1>5. RecordsSound'
  BY <1>1, SoundStays DEF IInv, RecordsSound
<1>6. OneContract' /\ CycleBegun' /\ Compared'
  BY <1>1 DEF IInv, OneContract, CycleBegun, Compared, OneEvaluatorOf
<1> QED
  BY <1>2, <1>3, <1>4, <1>5, <1>6 DEF IInv

\* A resumed invocation takes over the records of the file.
LEMMA LoadKeeps ==
  ASSUME IInv, NEW resume \in BOOLEAN, LoadState(resume)
  PROVE  IInv'
<1>1. /\ file' = file /\ begun' = begun /\ records' = file.records /\ produced' = {}
      /\ file # NoState /\ file.config = config /\ config' = config
      /\ Committed' = Committed /\ pc' = "plan"
  BY DEF LoadState, Committed, disk, IInv, InStep
<1>2. TypeOK'
  <2>1. file.records \in Seq(StageRecord)
    BY <1>1 DEF IInv, TypeOK, StateFile
  <2> QED
    BY <2>1 DEF IInv, TypeOK, LoadState, disk, HasPolicies
<1>3. InStep'
  BY <1>1 DEF IInv, InStep, Loaded
<1>4. InOrder'
  BY <1>1 DEF IInv, InOrder, Working, Checked
<1>5. RecordsSound'
  BY <1>1, SoundStays DEF IInv, RecordsSound
<1>6. OneContract' /\ CycleBegun' /\ Compared'
  BY <1>1 DEF IInv, OneContract, CycleBegun, Compared, OneEvaluatorOf
<1> QED
  BY <1>2, <1>3, <1>4, <1>5, <1>6 DEF IInv

\* Or the file is made.
LEMMA CreateKeeps ==
  ASSUME IInv, CreateState
  PROVE  IInv'
<1>1. /\ file = NoState /\ file' = [config |-> config, records |-> <<>>]
      /\ records = <<>> /\ records' = <<>> /\ pc' = "plan" /\ produced' = {}
      /\ config' = config /\ begun' = begun
  BY DEF CreateState, IInv, InStep, Loaded
<1>2. file' \in StateFile /\ file' # NoState
  <2>1. config \in Configs
    BY DEF IInv, TypeOK
  <2>2. <<>> \in Seq(StageRecord)
    BY EmptySeq
  <2>3. file' \in StateFile
    BY <1>1, <2>1, <2>2, Zenon DEF StateFile
  <2> QED
    BY <2>3, StateAssumption
<1>3. Committed' = <<>> /\ ToSet(<<>>) = {} /\ DOMAIN <<>> = {} /\ Len(<<>>) = 0
  BY <1>1, <1>2 DEF Committed, ToSet
<1>4. TypeOK'
  <2>1. file'.records = <<>>
    BY <1>1
  <2> QED
    BY <1>2, <1>3, <2>1 DEF IInv, TypeOK, CreateState
<1>5. InStep'
  BY <1>1, <1>2 DEF InStep, Loaded
<1>6. InOrder'
  BY <1>1, <1>3, StagesOfPlan DEF InOrder, Working, Checked
<1>7. RecordsSound' /\ OneContract' /\ CycleBegun' /\ Compared'
  BY <1>1, <1>3 DEF RecordsSound, OneContract, CycleBegun, Compared
<1> QED
  BY <1>4, <1>5, <1>6, <1>7 DEF IInv

-----------------------------------------------------------------------------
(* From one stage to the next *)

\* The first stage without a record is the one after the last with one.
LEMMA FirstWithoutRecord ==
  ASSUME IInv, pc \in Loaded
  PROVE  /\ Missing = (Len(records) + 1) .. Len(Plan)
         /\ Missing # {} => FirstMissing = Len(records) + 1
<1>1. /\ DOMAIN Plan = 1 .. Len(Plan) /\ Len(Plan) \in Nat
      /\ Len(records) \in Nat /\ Len(records) <= Len(Plan)
      /\ \A k \in 1 .. Len(Plan) : Recorded(Plan[k]) <=> k <= Len(records)
  BY StagesOfPlan, RecordsLoaded
<1>2. Missing = (Len(records) + 1) .. Len(Plan)
  BY <1>1 DEF Missing
<1>3. ASSUME Missing # {} PROVE FirstMissing = Len(records) + 1
  <2>1. Len(records) + 1 \in Missing /\ \A j \in Missing : Len(records) + 1 <= j
    BY <1>1, <1>2, <1>3
  <2>2. \A k \in Missing : (\A j \in Missing : k <= j) => k = Len(records) + 1
    BY <1>1, <1>2, <2>1
  <2> QED
    BY <2>1, <2>2 DEF FirstMissing
<1> QED
  BY <1>2, <1>3

LEMMA NextStageKeeps ==
  ASSUME IInv, NextStage
  PROVE  IInv'
<1>1. /\ UNCHANGED <<dir, file, reports, begun, final, launch, config, records, produced, damages>>
      /\ pc = "plan" /\ pc' \in {"final", "execute"} /\ Unchanged /\ produced = {}
      /\ Committed' = Committed /\ pc \in Loaded
  BY DEF NextStage, disk, Committed, IInv, InStep, Loaded
<1>2. /\ Len(records) \in Nat /\ Len(records) <= Len(Plan) /\ records \in Seq(StageRecord)
      /\ \A k \in 1 .. Len(records) : RecordOf(Plan[k]) = {records[k]}
      /\ DOMAIN Plan = 1 .. Len(Plan) /\ Len(Plan) \in Nat
  BY <1>1, RecordsLoaded, StagesOfPlan
<1>3. /\ Missing = (Len(records) + 1) .. Len(Plan)
      /\ Missing # {} => FirstMissing = Len(records) + 1
  BY <1>1, FirstWithoutRecord
<1>4. /\ pc' = "final" => Len(records) = Len(Plan) /\ request' = request
      /\ pc' = "execute" => Len(records) < Len(Plan) /\ request' = Plan[Len(records) + 1]
  <2>1. CASE Missing = {}
    <3>1. Len(records) = Len(Plan)
      BY <1>2, <1>3, <2>1
    <3> QED
      BY <2>1, <3>1 DEF NextStage
  <2>2. CASE Missing # {}
    <3>1. Len(records) < Len(Plan)
      BY <1>2, <1>3, <2>2
    <3> QED
      BY <1>3, <2>2, <3>1 DEF NextStage
  <2> QED
    BY <2>1, <2>2
<1>5. ASSUME NEW r \in ToSet(records) PROVE Verified(r)
  <2>1. PICK k \in 1 .. Len(records) : r = records[k]
    BY <1>2, SetOf
  <2>2. k \in DOMAIN Plan /\ (\A j \in Missing : k < j) /\ r \in RecordOf(Plan[k])
    BY <1>2, <1>3, <2>1
  <2> QED
    BY <1>1, <2>2 DEF Unchanged
<1>6. TypeOK'
  <2>1. request' \in Stages
    <3>1. CASE pc' = "final"
      BY <1>4, <3>1 DEF IInv, TypeOK
    <3>2. CASE pc' = "execute"
      BY <1>2, <1>4, <3>2, StagesOfPlan
    <3> QED
      BY <1>1, <3>1, <3>2
  <2> QED
    BY <1>1, <2>1 DEF IInv, TypeOK, HasPolicies
<1>7. InStep'
  BY <1>1 DEF IInv, InStep, Loaded
<1>8. InOrder'
  BY <1>1, <1>4, <1>5 DEF IInv, InOrder, Working, Checked, Verified
<1>9. RecordsSound'
  BY <1>1, SoundStays DEF IInv, RecordsSound
<1>10. OneContract' /\ CycleBegun' /\ Compared'
  BY <1>1 DEF IInv, OneContract, CycleBegun, Compared, OneEvaluatorOf
<1> QED
  BY <1>6, <1>7, <1>8, <1>9, <1>10 DEF IInv

\* The kinds of the stages.
LEMMA Kinds ==
  ASSUME NEW s \in Stages
  PROVE  /\ s.kind \in {"sft", "train", "evaluate", "compare"}
         /\ s.kind = "sft" => s = Sft
         /\ s.kind = "evaluate" => s \in Evaluations
         /\ s.kind = "compare" => s = Comparison
<1>1. PICK k \in DOMAIN Plan : s = Plan[k]
  BY StagesOfPlan
<1> QED
  BY <1>1, PlanCases DEF Evaluations, Topologies, Sft, Train, Evaluate, Comparison, Stage

\* A training stage is begun once; whatever is begun later leaves its launch as it was.
LEMMA BeginTrainingKeeps ==
  ASSUME IInv, BeginTraining
  PROVE  IInv'
<1>1. /\ UNCHANGED <<dir, file, reports, final, launch, config, records, request, produced, damages>>
      /\ pc = "execute" /\ pc' = "report" /\ produced = {} /\ request.kind = "train"
      /\ Committed' = Committed
  BY DEF BeginTraining, Committed, IInv, InStep
<1>2. /\ DOMAIN begun' = DOMAIN begun \cup {request}
      /\ begun'[request] = launch
      /\ \A s \in DOMAIN begun : s \in DOMAIN begun' /\ begun'[s] = begun[s]
  BY DEF BeginTraining, Refused
<1>3. TypeOK'
  BY <1>1, <1>2 DEF IInv, TypeOK, HasPolicies
<1>4. InStep'
  BY <1>1 DEF IInv, InStep, Loaded
<1>5. InOrder'
  BY <1>1 DEF IInv, InOrder, Working, Checked, Verified
<1>6. RecordsSound'
  BY <1>1, <1>2, SoundStays DEF IInv, RecordsSound
<1>7. OneContract'
  BY <1>1 DEF IInv, OneContract
<1>8. CycleBegun'
  BY <1>1, <1>2 DEF CycleBegun
<1>9. Compared'
  BY <1>1 DEF IInv, Compared, OneEvaluatorOf, Comparison, Stage
<1> QED
  BY <1>3, <1>4, <1>5, <1>6, <1>7, <1>8, <1>9 DEF IInv

\* Reports that were verified and are alike are records that are alike.
LEMMA AlikeRecords ==
  ASSUME IInv, pc = "execute", Alike
  PROVE  OneEvaluatorOf(ToSet(records))
<1>1. ToSet(records) \subseteq StageRecord
  BY SetOf DEF IInv, TypeOK
<1>2. ASSUME NEW r \in ToSet(records), r.stage.kind = "evaluate"
      PROVE  r.stage \in Evaluations /\ reports[r.stage] = r.report
  <2>1. r.stage \in Stages
    BY <1>1 DEF StageRecord
  <2>2. Verified(r)
    BY DEF IInv, InOrder, Checked
  <2> QED
    BY <1>2, <2>1, <2>2, Kinds DEF Verified
<1> QED
  BY <1>2 DEF OneEvaluatorOf, Alike

LEMMA BeginKeeps ==
  ASSUME IInv, Begin \/ Compare
  PROVE  IInv'
<1>1. /\ UNCHANGED <<dir, file, reports, begun, final, launch, config, records, request, produced,
                       damages>>
      /\ pc = "execute" /\ pc' = "report" /\ produced = {} /\ Committed' = Committed
  BY DEF Begin, Compare, disk, Committed, IInv, InStep
<1>2. request.kind # "train"
  BY DEF Begin, Compare, Comparison, Stage
<1>3. request = Comparison => OneEvaluatorOf(ToSet(records))
  BY <1>1, AlikeRecords DEF Begin, Compare, Comparison, Stage
<1>4. TypeOK'
  BY <1>1 DEF IInv, TypeOK, HasPolicies
<1>5. InStep'
  BY <1>1 DEF IInv, InStep, Loaded
<1>6. InOrder'
  BY <1>1 DEF IInv, InOrder, Working, Checked, Verified
<1>7. RecordsSound'
  BY <1>1, SoundStays DEF IInv, RecordsSound
<1>8. OneContract' /\ CycleBegun'
  BY <1>1, <1>2 DEF IInv, OneContract, CycleBegun
<1>9. Compared'
  BY <1>1, <1>3 DEF IInv, Compared, OneEvaluatorOf
<1> QED
  BY <1>4, <1>5, <1>6, <1>7, <1>8, <1>9 DEF IInv

\* Reports that change on disk are those of no running invocation.
LEMMA DamageKeeps ==
  ASSUME IInv, Damage
  PROVE  IInv'
<1>1. /\ UNCHANGED <<dir, file, begun, final, launch, config, pc, records, request, produced>>
      /\ pc = "none" /\ produced = {} /\ Committed' = Committed
  BY DEF Damage, Committed, IInv, InStep
<1>2. TypeOK'
  <2>1. DOMAIN reports' = DOMAIN reports
    BY DEF Damage
  <2>2. PICK s \in DOMAIN reports, c \in Contracts :
          reports' = [reports EXCEPT ![s].launch = 0, ![s].contract = c]
    BY DEF Damage
  <2>3. \A t \in DOMAIN reports' : reports'[t] \in Report
    <3>1. 0 \in Launches
      BY ExperimentAssumption DEF Launches
    <3>2. \A t \in DOMAIN reports : reports[t] \in Report
      BY DEF IInv, TypeOK
    <3>3. [[reports[s] EXCEPT !.launch = 0] EXCEPT !.contract = c] \in Report
      BY <3>1, <3>2 DEF Report
    <3> QED
      BY <2>1, <2>2, <3>2, <3>3
  <2>4. damages' \in 0 .. MaxDamages
    BY ExperimentAssumption DEF IInv, TypeOK, Damage
  <2> QED
    BY <1>1, <2>1, <2>3, <2>4 DEF IInv, TypeOK, HasPolicies
<1>3. InStep'
  BY <1>1 DEF IInv, InStep, Loaded
<1>4. InOrder'
  BY <1>1 DEF IInv, InOrder, Working, Checked
<1>5. RecordsSound'
  BY <1>1, SoundStays DEF IInv, RecordsSound
<1>6. OneContract' /\ CycleBegun' /\ Compared'
  BY <1>1 DEF IInv, OneContract, CycleBegun, Compared, OneEvaluatorOf
<1> QED
  BY <1>2, <1>3, <1>4, <1>5, <1>6 DEF IInv

-----------------------------------------------------------------------------
(* The checkpoints of a stage *)

LEMMA CheckpointTyped ==
  ASSUME NEW policy \in {"shared", "main", "sub"}, NEW by \in SUBSET (Stages \X Launches)
  PROVE  [policy |-> policy, by |-> by] \in Checkpoint
BY DEF Checkpoint

\* The record a cycle goes on from: the supervised stage's, or that of the cycle before.
LEMMA CycleDependsOn ==
  ASSUME IInv, pc \in Working, request.kind = "train"
  PROVE  /\ request.of \in Topologies /\ request.cycle \in Nat \ {0}
         /\ \E d \in ToSet(records) :
              /\ Dependencies(request) = {d}
              /\ \/ d.stage = Sft
                 \/ /\ d.stage.kind = "train" /\ d.stage.of = request.of
                    /\ d.stage.cycle < request.cycle
<1> DEFINE n == Len(records)
<1>1. /\ n \in Nat /\ n < Len(Plan) /\ request = Plan[n + 1]
      /\ \A k \in 1 .. n : records[k].stage = Plan[k] /\ RecordOf(Plan[k]) = {records[k]}
      /\ records \in Seq(StageRecord)
  BY RecordsLoaded DEF IInv, InOrder, Working, Loaded
<1>2. SharedCycles \in Nat /\ IndependentCycles \in Nat
  BY ExperimentAssumption
<1>3. n + 1 \in DOMAIN Plan
  BY <1>1, StagesOfPlan
<1>4. \/ \E c \in 1 .. SharedCycles : n + 1 = c + 1 /\ request = Train("shared", c)
      \/ \E c \in 1 .. IndependentCycles :
           n + 1 = SharedCycles + c + 1 /\ request = Train("independent", c)
  BY <1>1, <1>3, PlanCases DEF Sft, Evaluate, Comparison, Stage
<1>5. ASSUME NEW k \in 1 .. n, Needs(request) = {Plan[k]}
      PROVE  Dependencies(request) = {records[k]} /\ records[k] \in ToSet(records)
             /\ records[k].stage = Plan[k]
  <2>1. records[k] \in ToSet(records)
    BY <1>1, SetOf
  <2>2. Dependencies(request) = RecordOf(Plan[k])
    BY <1>5 DEF Dependencies
  <2> QED
    BY <1>1, <2>1, <2>2
<1>6. CASE request.cycle = 1
  <2>1. Needs(request) = {Plan[1]} /\ Plan[1] = Sft
    BY <1>6, PlanAt DEF Needs
  <2>2. request.of \in Topologies
    BY <1>4 DEF Train, Stage, Topologies
  <2>3. n >= 1
    BY <1>1, <1>2, <1>4
  <2>4. 1 \in 1 .. n
    BY <1>1, <2>3
  <2> QED
    BY <1>5, <1>6, <2>1, <2>2, <2>4
<1>7. CASE request.cycle # 1
  <2>1. /\ request.cycle \in Nat /\ request.cycle > 1 /\ request.of \in Topologies
        /\ n \in 1 .. n /\ Plan[n] = Train(request.of, request.cycle - 1)
    <3>1. CASE \E c \in 1 .. SharedCycles : n + 1 = c + 1 /\ request = Train("shared", c)
      <4>1. PICK c \in 1 .. SharedCycles : n + 1 = c + 1 /\ request = Train("shared", c)
        BY <3>1
      <4>2. c > 1 /\ n = c /\ c - 1 \in 1 .. SharedCycles /\ n = (c - 1) + 1
        BY <1>1, <1>2, <1>7, <4>1 DEF Train, Stage
      <4> QED
        BY <4>1, <4>2, PlanAt DEF Train, Stage, Topologies
    <3>2. CASE \E c \in 1 .. IndependentCycles :
                 n + 1 = SharedCycles + c + 1 /\ request = Train("independent", c)
      <4>1. PICK c \in 1 .. IndependentCycles :
              n + 1 = SharedCycles + c + 1 /\ request = Train("independent", c)
        BY <3>2
      <4>2. c > 1 /\ c - 1 \in 1 .. IndependentCycles /\ n = SharedCycles + (c - 1) + 1
            /\ n \in 1 .. n
        BY <1>1, <1>2, <1>7, <4>1 DEF Train, Stage
      <4> QED
        BY <4>1, <4>2, PlanAt DEF Train, Stage, Topologies
    <3> QED
      BY <1>4, <3>1, <3>2
  <2>2. Needs(request) = {Plan[n]}
    BY <2>1 DEF Needs
  <2>3. /\ Plan[n].kind = "train" /\ Plan[n].of = request.of
        /\ Plan[n].cycle < request.cycle
    BY <2>1 DEF Train, Stage
  <2> QED
    BY <1>5, <2>1, <2>2, <2>3
<1> QED
  BY <1>6, <1>7

\* A policy of the cycle starts from a checkpoint of that record.
LEMMA StartSound ==
  ASSUME IInv, pc \in Working, request.kind = "train", NEW p \in PoliciesOf(request.of)
  PROVE  /\ StartOf(request, p) \in Checkpoint
         /\ StartOf(request, p).policy = p
         /\ \E b \in StartOf(request, p).by : b[1] = Sft
         /\ \A b \in StartOf(request, p).by :
              /\ b[1] = Sft \/ (b[1].of = request.of /\ b[1].cycle < request.cycle)
              /\ \E d \in ToSet(records) : d.stage = b[1] /\ d.report.launch = b[2]
<1>1. PICK d \in ToSet(records) :
        /\ Dependencies(request) = {d}
        /\ \/ d.stage = Sft
           \/ /\ d.stage.kind = "train" /\ d.stage.of = request.of
              /\ d.stage.cycle < request.cycle
  BY CycleDependsOn
<1>2. request.of \in Topologies /\ request.cycle \in Nat \ {0} /\ p \in {"shared", "main", "sub"}
  BY CycleDependsOn DEF PoliciesOf, Topologies
<1>3. d \in StageRecord /\ d.checkpoints \subseteq Checkpoint
  <2>1. records \in Seq(StageRecord)
    BY DEF IInv, TypeOK
  <2>2. d \in StageRecord
    BY <2>1, SetOf
  <2> QED
    BY <2>2 DEF StageRecord
<1>4. Sound(d, ToSet(records))
  BY Held DEF IInv, RecordsSound, Working, Loaded
<1> DEFINE from == CHOOSE c \in UNION {r.checkpoints : r \in Dependencies(request)} :
                     c.policy \in {p, "shared"}
<1>5. \E c \in d.checkpoints : c.policy \in {p, "shared"}
  <2>1. CASE d.stage = Sft
    BY <1>4, <2>1 DEF Sound, SharedStart
  <2>2. CASE d.stage.kind = "train" /\ d.stage.of = request.of
    BY <1>4, <2>2 DEF Sound, HasPolicies
  <2> QED
    BY <1>1, <2>1, <2>2
<1>6. from \in d.checkpoints
  BY <1>1, <1>5
<1>7. StartOf(request, p) = [from EXCEPT !.policy = p]
  BY DEF StartOf
<1> HIDE DEF from
<1>8. from \in Checkpoint
  BY <1>3, <1>6
<1>9. /\ StartOf(request, p) \in Checkpoint /\ StartOf(request, p).policy = p
      /\ StartOf(request, p).by = from.by
  BY <1>2, <1>7, <1>8 DEF Checkpoint
<1>10. \E b \in from.by : b[1] = Sft
  BY <1>4, <1>6 DEF Sound, Lineage
<1>11. ASSUME NEW b \in from.by
       PROVE  /\ b[1] = Sft \/ (b[1].of = request.of /\ b[1].cycle < request.cycle)
              /\ \E e \in ToSet(records) : e.stage = b[1] /\ e.report.launch = b[2]
  <2>1. \E e \in ToSet(records) : e.stage = b[1] /\ e.report.launch = b[2]
    BY <1>4, <1>6 DEF Sound, Lineage
  <2>2. CASE d.stage = Sft
    BY <1>4, <1>6, <2>1, <2>2 DEF Sound, SharedStart
  <2>3. CASE d.stage.kind = "train" /\ d.stage.of = request.of /\ d.stage.cycle < request.cycle
    <3>1. b[1] = Sft \/ (b[1].of = d.stage.of /\ b[1].cycle <= d.stage.cycle)
      BY <1>4, <1>6 DEF Sound, Lineage
    <3>2. b[1] \in Stages /\ d.stage \in Stages
      BY <1>3, <1>8 DEF Checkpoint, StageRecord
    <3>3. b[1].cycle \in Nat /\ d.stage.cycle \in Nat
      BY <3>2, StagesTyped DEF AllStages
    <3> QED
      BY <1>2, <2>1, <2>3, <3>1, <3>3
  <2> QED
    BY <1>1, <2>2, <2>3
<1> QED
  BY <1>9, <1>10, <1>11

\* What a stage leaves behind is sound, with the records before it.
LEMMA NewSound ==
  ASSUME IInv, pc = "report", NEW U \in Updated(request.of), NEW p,
         p.stage = request, p.report.launch = launch, p.checkpoints = CheckpointsOf(request, U)
  PROVE  /\ p.checkpoints \subseteq Checkpoint
         /\ Sound(p, ToSet(records) \cup {p})
<1>1. request \in Stages /\ launch \in Launches
  BY DEF IInv, TypeOK
<1>2. CASE request.kind = "sft"
  <2>1. request = Sft /\ p.checkpoints = {[policy |-> "shared", by |-> {<<Sft, launch>>}]}
    BY <1>1, <1>2, Kinds DEF CheckpointsOf
  <2>2. p.checkpoints \subseteq Checkpoint
    BY <1>1, <2>1, CheckpointTyped
  <2>3. HasPolicies(p) /\ FromBeginning(p)
    BY <1>2 DEF HasPolicies, FromBeginning
  <2>4. /\ {c.policy : c \in p.checkpoints} = {"shared"}
        /\ \A c \in p.checkpoints : c.by = {<<Sft, launch>>}
    <3> DEFINE new == [policy |-> "shared", by |-> {<<Sft, launch>>}]
    <3>1. new.policy = "shared" /\ new.by = {<<Sft, launch>>}
      OBVIOUS
    <3>2. p.checkpoints = {new}
      BY <2>1
    <3> HIDE DEF new
    <3> QED
      BY <3>1, <3>2
  <2>5. SharedStart(p)
    BY <2>4 DEF SharedStart
  <2>6. Lineage(p, ToSet(records) \cup {p})
    <3> SUFFICES ASSUME NEW c \in p.checkpoints
                 PROVE  /\ \E b \in c.by : b[1] = Sft
                        /\ \A b \in c.by : b[1] = Sft /\ b[2] = launch
      BY <2>1 DEF Lineage
    <3>1. c.by = {<<Sft, launch>>}
      BY <2>4
    <3>2. <<Sft, launch>> \in c.by /\ \A b \in c.by : b = <<Sft, launch>>
      BY <3>1
    <3>3. <<Sft, launch>>[1] = Sft /\ <<Sft, launch>>[2] = launch
      OBVIOUS
    <3> QED
      BY <3>2, <3>3, Zenon
  <2> QED
    BY <2>2, <2>3, <2>5, <2>6 DEF Sound
<1>3. CASE request.kind \in {"evaluate", "compare"}
  <2>1. p.checkpoints = {} /\ request # Sft
    BY <1>3 DEF CheckpointsOf, Sft, Stage
  <2> QED
    BY <1>3, <2>1 DEF Sound, HasPolicies, Lineage, FromBeginning, SharedStart
<1>4. CASE request.kind = "train"
  <2> DEFINE Left(q) == IF q \in U THEN Trained(StartOf(request, q), request)
                        ELSE StartOf(request, q)
  <2>1. p.checkpoints = {Left(q) : q \in PoliciesOf(request.of)}
    BY <1>4 DEF CheckpointsOf
  <2>2. /\ request.of \in Topologies /\ request.cycle \in Nat \ {0} /\ request # Sft
        /\ request \in DOMAIN begun /\ begun[request] = launch
    BY <1>4, CycleDependsOn DEF IInv, CycleBegun, Working, Sft, Stage
  <2>3. ASSUME NEW q \in PoliciesOf(request.of)
        PROVE  /\ Left(q) \in Checkpoint /\ Left(q).policy = q
               /\ \E b \in Left(q).by : b[1] = Sft
               /\ \A b \in Left(q).by :
                    \/ b = <<request, launch>>
                    \/ /\ b[1] = Sft \/ (b[1].of = request.of /\ b[1].cycle < request.cycle)
                       /\ \E d \in ToSet(records) : d.stage = b[1] /\ d.report.launch = b[2]
    <3> DEFINE start == StartOf(request, q)
    <3>1. /\ start \in Checkpoint /\ start.policy = q
          /\ \E b \in start.by : b[1] = Sft
          /\ \A b \in start.by :
               /\ b[1] = Sft \/ (b[1].of = request.of /\ b[1].cycle < request.cycle)
               /\ \E d \in ToSet(records) : d.stage = b[1] /\ d.report.launch = b[2]
      BY <1>4, StartSound DEF Working
    <3> HIDE DEF start
    <3>2. Left(q) = start \/ Left(q) = [start EXCEPT !.by = @ \cup {<<request, launch>>}]
      BY DEF Trained, start
    <3>3. CASE Left(q) = start
      BY <3>1, <3>3
    <3>4. CASE Left(q) = [start EXCEPT !.by = @ \cup {<<request, launch>>}]
      <4>1. /\ Left(q).policy = start.policy /\ Left(q).by = start.by \cup {<<request, launch>>}
            /\ Left(q) \in Checkpoint
        BY <1>1, <3>1, <3>4 DEF Checkpoint
      <4> HIDE DEF Left
      <4> QED
        BY <3>1, <4>1
    <3> QED
      BY <3>2, <3>3, <3>4
  <2> HIDE DEF Left
  <2>4. p.checkpoints \subseteq Checkpoint
    BY <2>1, <2>3
  <2>5. HasPolicies(p)
    BY <2>1, <2>3 DEF HasPolicies
  <2>6. Lineage(p, ToSet(records) \cup {p})
    <3> SUFFICES ASSUME NEW c \in p.checkpoints
                 PROVE  /\ \E b \in c.by : b[1] = Sft
                        /\ \A b \in c.by :
                             /\ b[1] = Sft \/ (b[1].of = request.of /\ b[1].cycle <= request.cycle)
                             /\ \E d \in ToSet(records) \cup {p} :
                                  d.stage = b[1] /\ d.report.launch = b[2]
      BY DEF Lineage
    <3>1. PICK q \in PoliciesOf(request.of) : c = Left(q)
      BY <2>1
    <3>2. \E b \in c.by : b[1] = Sft
      BY <2>3, <3>1
    <3>3. ASSUME NEW b \in c.by
          PROVE  /\ b[1] = Sft \/ (b[1].of = request.of /\ b[1].cycle <= request.cycle)
                 /\ \E d \in ToSet(records) \cup {p} :
                      d.stage = b[1] /\ d.report.launch = b[2]
      <4>1. CASE b = <<request, launch>>
        BY <2>2, <4>1
      <4>2. CASE /\ b[1] = Sft \/ (b[1].of = request.of /\ b[1].cycle < request.cycle)
                 /\ \E d \in ToSet(records) : d.stage = b[1] /\ d.report.launch = b[2]
        <5>1. b[1].cycle \in Nat
          <6>1. c \in Checkpoint
            BY <2>3, <3>1
          <6> QED
            BY <6>1, StagesTyped DEF Checkpoint, AllStages
        <5> QED
          BY <2>2, <4>2, <5>1
      <4> QED
        BY <2>3, <3>1, <4>1, <4>2
    <3> QED
      BY <3>2, <3>3
  <2>7. FromBeginning(p)
    BY <2>1, <2>2, <2>3 DEF FromBeginning
  <2>8. SharedStart(p)
    BY <2>2 DEF SharedStart
  <2> QED
    BY <2>4, <2>5, <2>6, <2>7, <2>8 DEF Sound
<1> QED
  BY <1>1, <1>2, <1>3, <1>4, Kinds

-----------------------------------------------------------------------------
(* A report, and its record *)

\* The digest of the stage's input.
LEMMA DigestTyped ==
  ASSUME IInv
  PROVE  InputDigest(request) \in Input
<1>1. ToSet(records) \subseteq StageRecord
  BY SetOf DEF IInv, TypeOK
<1>2. config \in Configs /\ request \in Stages
  BY DEF IInv, TypeOK
<1>3. Dependencies(request) \subseteq StageRecord
  BY <1>1 DEF Dependencies, RecordOf
<1> DEFINE Dep(r) == [stage |-> r.stage, report |-> r.report, checkpoints |-> r.checkpoints]
           deps == {Dep(r) : r \in Dependencies(request)}
<1>4. \A r \in StageRecord :
        Dep(r) \in [stage : Stages, report : Report, checkpoints : SUBSET Checkpoint]
  BY DEF StageRecord
<1>5. deps \in SUBSET [stage : Stages, report : Report, checkpoints : SUBSET Checkpoint]
  BY <1>3, <1>4
<1>6. InputDigest(request) = [config |-> config, stage |-> request, deps |-> deps]
  BY DEF InputDigest
<1> HIDE DEF deps
<1> QED
  BY <1>2, <1>5, <1>6 DEF Input

\* The stage at work has no record yet.
LEMMA RequestIsNew ==
  ASSUME IInv, pc \in Working, NEW r \in ToSet(records)
  PROVE  r.stage # request
<1>1. PICK k \in 1 .. Len(records) : r = records[k]
  BY SetOf DEF IInv, TypeOK
<1>2. /\ r.stage = Plan[k] /\ request = Plan[Len(records) + 1] /\ Len(records) \in Nat
      /\ k \in DOMAIN Plan /\ Len(records) + 1 \in DOMAIN Plan
  BY <1>1, RecordsLoaded, StagesOfPlan DEF IInv, InOrder, Working, Loaded
<1> QED
  BY <1>1, <1>2, PlanInjective

\* The stages that run in an environment come after the supervised one, and the first of them
\* is the first shared cycle.
LEMMA FirstCycleFirst ==
  ASSUME IInv, pc \in Working, request.kind \in {"train", "evaluate"},
         request # Train("shared", 1)
  PROVE  \E r \in ToSet(records) : r.stage = Train("shared", 1)
<1>1. /\ Len(records) \in Nat /\ Len(records) < Len(Plan) /\ request = Plan[Len(records) + 1]
      /\ \A k \in 1 .. Len(records) : records[k].stage = Plan[k]
      /\ records \in Seq(StageRecord)
  BY RecordsLoaded DEF IInv, InOrder, Working, Loaded
<1>2. SharedCycles \in Nat \ {0}
  BY ExperimentAssumption
<1>3. Plan[1] = Sft /\ Plan[2] = Train("shared", 1)
  <2>1. 1 \in 1 .. SharedCycles /\ 1 + 1 = 2
    BY <1>2
  <2> QED
    BY <2>1, PlanAt
<1>4. Len(records) # 0
  BY <1>1, <1>3 DEF Sft, Stage
<1>5. Len(records) # 1
  <2>1. ASSUME Len(records) = 1 PROVE FALSE
    <3>1. Len(records) + 1 = 2
      BY <2>1
    <3> QED
      BY <1>1, <1>3, <3>1, Zenon
  <2> QED
    BY <2>1
<1>6. 2 \in 1 .. Len(records)
  <2> DEFINE n == Len(records)
  <2>1. n \in Nat /\ n # 0 /\ n # 1
    BY <1>1, <1>4, <1>5
  <2> HIDE DEF n
  <2>2. 2 \in 1 .. n
    BY <2>1
  <2> QED
    BY <2>2 DEF n
<1>7. records[2] \in ToSet(records)
  BY <1>1, <1>6, SetOf
<1> QED
  BY <1>1, <1>3, <1>6, <1>7

LEMMA NoneBeforeFirstCycle ==
  ASSUME IInv, pc \in Working, request = Train("shared", 1), NEW r \in ToSet(records)
  PROVE  ~InEnvironment(r)
<1>1. /\ Len(records) \in Nat /\ Len(records) < Len(Plan) /\ request = Plan[Len(records) + 1]
      /\ \A k \in 1 .. Len(records) : records[k].stage = Plan[k]
      /\ records \in Seq(StageRecord)
  BY RecordsLoaded DEF IInv, InOrder, Working, Loaded
<1>2. SharedCycles \in Nat \ {0}
  BY ExperimentAssumption
<1>3. Plan[1] = Sft /\ Plan[2] = Train("shared", 1)
  <2>1. 1 \in 1 .. SharedCycles /\ 1 + 1 = 2
    BY <1>2
  <2> QED
    BY <2>1, PlanAt
<1>4. Len(Plan) >= 2 /\ 2 \in DOMAIN Plan /\ Len(records) + 1 \in DOMAIN Plan
  BY <1>1, <1>2, PlanAt, StagesOfPlan, ExperimentAssumption
<1>5. Len(records) = 1
  <2>1. Plan[Len(records) + 1] = Plan[2]
    BY <1>1, <1>3
  <2> DEFINE n == Len(records)
  <2>2. n + 1 = 2 /\ n \in Nat
    BY <1>1, <1>4, <2>1, PlanInjective
  <2> HIDE DEF n
  <2>3. n = 1
    BY <2>2
  <2> QED
    BY <2>3 DEF n
<1>6. r = records[1]
  BY <1>1, <1>5, SetOf
<1> QED
  BY <1>1, <1>3, <1>5, <1>6 DEF InEnvironment, Sft, Stage

\* A report that keeps the contract of the first cycle's, which was verified, says of the
\* environment what every record says.
LEMMA KeptContract ==
  ASSUME IInv, pc \in Working, NEW written, NEW c, NEW r \in ToSet(records), InEnvironment(r),
         \A s \in DOMAIN reports : s # request => s \in DOMAIN written /\ written[s] = reports[s],
         request.kind \in {"train", "evaluate"}, KeepsContract(written, c)
  PROVE  r.report.contract = c
<1>1. request # Train("shared", 1)
  BY NoneBeforeFirstCycle
<1>2. PICK d \in ToSet(records) : d.stage = Train("shared", 1)
  BY <1>1, FirstCycleFirst
<1>3. d.stage \in DOMAIN reports /\ reports[d.stage] = d.report
  BY DEF IInv, InOrder, Checked, Working, Verified
<1>4. c = d.report.contract
  BY <1>1, <1>2, <1>3 DEF KeepsContract
<1>5. InEnvironment(d)
  BY <1>2 DEF InEnvironment, Train, Stage
<1>6. Committed = records
  BY Held DEF Working, Loaded
<1> QED
  BY <1>4, <1>5, <1>6 DEF IInv, OneContract, InEnvironment

LEMMA WriteReportKeeps ==
  ASSUME IInv, WriteReport
  PROVE  IInv'
<1>1. /\ UNCHANGED <<dir, file, begun, final, launch, config, damages>>
      /\ pc = "report" /\ Committed' = Committed /\ produced = {}
      /\ pc \in Working /\ pc \in Checked /\ pc \in Loaded
  BY DEF WriteReport, Committed, IInv, InStep, Working, Checked, Loaded
<1>2. PICK c \in Contracts, v \in EvaluatorsOf(request) :
        LET report == [launch |-> launch, contract |-> c, evaluator |-> v]
            written == [s \in DOMAIN reports \cup {request} |->
                          IF s = request THEN report ELSE reports[s]]
        IN
        /\ reports' = written
        /\ IF request.kind \in {"train", "evaluate"} /\ ~KeepsContract(written, c)
           THEN Ended
           ELSE /\ \E U \in Updated(request.of) :
                     produced' = {[stage |-> request, input |-> InputDigest(request),
                                   report |-> report,
                                   checkpoints |-> CheckpointsOf(request, U)]}
                /\ pc' = "record"
                /\ UNCHANGED <<records, request>>
  BY DEF WriteReport
<1> DEFINE report == [launch |-> launch, contract |-> c, evaluator |-> v]
           written == [s \in DOMAIN reports \cup {request} |->
                         IF s = request THEN report ELSE reports[s]]
<1>3. /\ DOMAIN written = DOMAIN reports \cup {request} /\ written[request] = report
      /\ \A s \in DOMAIN reports : s # request => written[s] = reports[s]
  OBVIOUS
<1>4. report \in Report /\ report.launch = launch /\ report.contract = c
  BY DEF IInv, TypeOK, Report, EvaluatorsOf
<1>5. /\ reports' = written
      /\ DOMAIN reports' \subseteq Stages /\ \A s \in DOMAIN reports' : reports'[s] \in Report
  BY <1>2, <1>3, <1>4 DEF IInv, TypeOK
<1> HIDE DEF report
<1>6. CASE Ended
  <2>1. Sft \in Stages
    BY PlanAt, StagesOfPlan, ExperimentAssumption
  <2>2. Cardinality({}) <= 1 /\ <<>> \in Seq(StageRecord)
    BY EmptySeq, FS_EmptySet
  <2>3. /\ pc' = "none" /\ records' = <<>> /\ request' = Sft /\ produced' = {}
    BY <1>6 DEF Ended
  <2>4. TypeOK'
    <3> HIDE DEF written
    <3> QED
      BY <1>1, <1>5, <2>1, <2>2, <2>3 DEF IInv, TypeOK, HasPolicies
  <2> QED
    BY <1>1, <1>6, <2>4, EndedKeeps
<1>7. CASE ~Ended
  <2>1. /\ request.kind \in {"train", "evaluate"} => KeepsContract(written, c)
        /\ pc' = "record" /\ records' = records /\ request' = request
    BY <1>2, <1>7 DEF report
  <2>2. PICK U \in Updated(request.of) :
          produced' = {[stage |-> request, input |-> InputDigest(request), report |-> report,
                        checkpoints |-> CheckpointsOf(request, U)]}
    BY <1>2, <1>7 DEF report
  <2>3. PICK p :
          /\ p = [stage |-> request, input |-> InputDigest(request), report |-> report,
                  checkpoints |-> CheckpointsOf(request, U)]
          /\ p.stage = request /\ p.report = report /\ p.checkpoints = CheckpointsOf(request, U)
          /\ produced' = {p}
    <3> DEFINE new == [stage |-> request, input |-> InputDigest(request), report |-> report,
                       checkpoints |-> CheckpointsOf(request, U)]
    <3>1. /\ new.stage = request /\ new.report = report
          /\ new.checkpoints = CheckpointsOf(request, U) /\ produced' = {new}
      BY <2>2
    <3> QED
      BY <3>1
  <2>4. p.checkpoints \subseteq Checkpoint /\ Sound(p, ToSet(records) \cup {p})
    <3>1. p.report.launch = launch
      BY <1>4, <2>3
    <3> QED
      BY <1>1, <2>3, <3>1, NewSound
  <2>5. p \in StageRecord
    <3>1. request \in Stages /\ InputDigest(request) \in Input
      BY DigestTyped DEF IInv, TypeOK
    <3>2. CheckpointsOf(request, U) \in SUBSET Checkpoint
      BY <2>3, <2>4
    <3> QED
      BY <1>4, <2>3, <3>1, <3>2 DEF StageRecord
  <2> HIDE DEF written
  <2>6. TypeOK'
    <3>1. Cardinality({p}) <= 1
      <4>1. Cardinality({p}) = 1
        BY FS_Singleton, Zenon
      <4> QED
        BY <4>1
    <3> QED
      BY <1>1, <1>5, <2>1, <2>3, <2>5, <3>1 DEF IInv, TypeOK, HasPolicies
  <2>7. InStep'
    BY <1>1, <2>1, <2>3 DEF IInv, InStep, Loaded
  <2>8. ASSUME NEW r \in ToSet(records) PROVE Verified(r)'
    <3>1. r.stage # request /\ Verified(r)
      BY <1>1, RequestIsNew DEF IInv, InOrder
    <3> QED
      BY <1>3, <1>5, <3>1 DEF Verified
  <2>9. InOrder'
    BY <1>1, <2>1, <2>8 DEF IInv, InOrder, Working, Checked
  <2>10. ASSUME NEW r \in ToSet(records), InEnvironment(p), InEnvironment(r)
         PROVE  r.report.contract = p.report.contract
    <3>1. request.kind \in {"train", "evaluate"}
      BY <2>3, <2>10 DEF InEnvironment
    <3>2. \A s \in DOMAIN reports : s # request => s \in DOMAIN written /\ written[s] = reports[s]
      BY <1>3
    <3>3. r.report.contract = c
      BY <1>1, <2>1, <2>10, <3>1, <3>2, KeptContract
    <3> QED
      BY <1>4, <2>3, <3>3
  <2>11. RecordsSound'
    <3>1. ASSUME NEW r \in ToSet(Committed) PROVE Sound(r, ToSet(Committed))'
      BY <1>1, SoundStays DEF IInv, RecordsSound
    <3>2. PICK D : D = ToSet(records) \cup {p}
      OBVIOUS
    <3>3. (Sound(p, D))'
      BY <1>1, <2>4, <3>2, SoundStays
    <3>4. D = ToSet(records') \cup {p}
      BY <2>1, <3>2
    <3>5. p.stage = request' /\ p.report = reports'[request']
      BY <1>3, <1>5, <2>1, <2>3
    <3>6. (\A q \in produced :
             /\ q.stage = request
             /\ q.report = reports[request]
             /\ Sound(q, ToSet(records) \cup {q})
             /\ \A r \in ToSet(records) :
                  InEnvironment(q) /\ InEnvironment(r) => r.report.contract = q.report.contract)'
      BY <2>1, <2>3, <2>10, <3>3, <3>4, <3>5 DEF InEnvironment
    <3>7. (\A r \in ToSet(Committed) : Sound(r, ToSet(Committed)))'
      BY <1>1, <3>1
    <3> QED
      BY <3>6, <3>7 DEF RecordsSound
  <2>12. OneContract' /\ CycleBegun' /\ Compared'
    BY <1>1, <2>1 DEF IInv, OneContract, CycleBegun, Compared, OneEvaluatorOf
  <2> QED
    BY <2>6, <2>7, <2>9, <2>11, <2>12 DEF IInv
<1> QED
  BY <1>6, <1>7

LEMMA RecordKeeps ==
  ASSUME IInv, Record
  PROVE  IInv'
<1>1. /\ UNCHANGED <<dir, reports, begun, final, launch, config, request, damages>>
      /\ pc = "record" /\ pc' = "plan" /\ produced' = {}
      /\ pc \in Working /\ pc \in Checked /\ pc \in Loaded
  BY DEF Record, Working, Checked, Loaded
<1>2. PICK p : produced = {p}
  BY <1>1 DEF IInv, InStep
<1>3. /\ records' = Append(records, p) /\ file' = [file EXCEPT !.records = Append(@, p)]
      /\ file # NoState /\ file \in StateFile /\ file.config = config /\ records = file.records
  BY <1>1, <1>2 DEF Record, IInv, InStep, TypeOK
<1>4. p \in StageRecord /\ records \in Seq(StageRecord) /\ records' \in Seq(StageRecord)
  <2>1. p \in StageRecord /\ records \in Seq(StageRecord)
    BY <1>2 DEF IInv, TypeOK
  <2> QED
    BY <1>3, <2>1, AppendProperties
<1>5. /\ file' \in StateFile /\ file'.records = records' /\ file'.config = config /\ file' # NoState
  <2>1. /\ file'.records = records' /\ file'.config = config
        /\ file' = [config |-> config, records |-> records']
    BY <1>3 DEF StateFile
  <2>2. config \in Configs
    BY DEF IInv, TypeOK
  <2>3. file' \in StateFile
    BY <1>4, <2>1, <2>2, Zenon DEF StateFile
  <2> QED
    BY <2>1, <2>3, StateAssumption
<1>6. Committed = records /\ Committed' = records'
  BY <1>3, <1>5 DEF Committed
<1>7. ToSet(records') = ToSet(records) \cup {p}
  BY <1>3, <1>4, SetOfAppend
<1>8. /\ p.stage = request /\ Sound(p, ToSet(records) \cup {p})
      /\ \A r \in ToSet(records) :
           InEnvironment(p) /\ InEnvironment(r) => r.report.contract = p.report.contract
      /\ \A r \in ToSet(records) : Sound(r, ToSet(records))
  BY <1>1, <1>2, <1>6 DEF IInv, RecordsSound
<1>9. /\ Len(records') = Len(records) + 1 /\ Len(records) \in Nat
      /\ \A k \in 1 .. Len(records) : records'[k] = records[k]
      /\ records'[Len(records) + 1] = p
      /\ DOMAIN records' = 1 .. Len(records')
  BY <1>3, <1>4, AppendProperties, LenProperties
<1>10. /\ Len(records) < Len(Plan) /\ request = Plan[Len(records) + 1]
       /\ \A k \in 1 .. Len(records) : records[k].stage = Plan[k]
  BY <1>1, RecordsLoaded DEF IInv, InOrder
<1>11. TypeOK'
  <2>1. \A r \in ToSet(records) \cup {p} : HasPolicies(r)
    BY <1>8 DEF Sound
  <2>2. \A k \in DOMAIN records' : records'[k] \in ToSet(records')
    BY DEF ToSet
  <2>3. Cardinality({}) <= 1
    BY FS_EmptySet
  <2>4. \A k \in DOMAIN records' : HasPolicies(records'[k])
    BY <1>7, <2>1, <2>2
  <2> QED
    BY <1>1, <1>4, <1>5, <2>3, <2>4 DEF IInv, TypeOK, HasPolicies
<1>12. InStep'
  BY <1>1, <1>5 DEF InStep, Loaded
<1>13. InOrder'
  <2>1. Len(records') <= Len(Plan)
    BY <1>9, <1>10, StagesOfPlan
  <2>2. \A k \in DOMAIN records' : records'[k].stage = Plan[k]
    BY <1>8, <1>9, <1>10
  <2> QED
    BY <1>1, <1>6, <2>1, <2>2 DEF InOrder, Working, Checked
<1>14. RecordsSound'
  <2>1. PICK D : D = ToSet(records) \cup {p}
    OBVIOUS
  <2>2. ASSUME NEW r \in D PROVE (Sound(r, D))'
    BY <1>1, <1>8, <2>1, <2>2, SoundStays
  <2>3. pc' # "record"
    BY <1>1
  <2>4. D = ToSet(Committed')
    BY <1>6, <1>7, <2>1
  <2> QED
    BY <2>2, <2>3, <2>4 DEF RecordsSound
<1>15. OneContract'
  <2>1. \A r, d \in ToSet(records) :
          InEnvironment(r) /\ InEnvironment(d) => r.report.contract = d.report.contract
    BY <1>6 DEF IInv, OneContract, InEnvironment
  <2>2. \A r, d \in ToSet(records') :
          InEnvironment(r) /\ InEnvironment(d) => r.report.contract = d.report.contract
    BY <1>7, <1>8, <2>1
  <2> QED
    BY <1>6, <2>2 DEF OneContract, InEnvironment
<1>16. CycleBegun'
  BY <1>1 DEF CycleBegun
<1>17. Compared'
  <2>1. CASE request = Comparison
    <3>1. OneEvaluatorOf(ToSet(records))
      BY <1>1, <2>1 DEF IInv, Compared
    <3>2. p.stage.kind # "evaluate"
      BY <1>8, <2>1 DEF Comparison, Stage
    <3>3. OneEvaluatorOf(ToSet(records'))
      BY <1>7, <3>1, <3>2 DEF OneEvaluatorOf
    <3> QED
      BY <1>1, <1>6, <3>3 DEF Compared, OneEvaluatorOf
  <2>2. CASE request # Comparison
    <3>1. ASSUME NEW r \in ToSet(records), r.stage = Comparison PROVE FALSE
      <4>1. PICK k \in 1 .. Len(records) : r = records[k]
        BY <1>4, SetOf
      <4>2. Plan[k] = Comparison /\ k \in DOMAIN Plan
        BY <1>9, <1>10, <3>1, <4>1, StagesOfPlan
      <4>3. Plan[Len(Plan)] = Comparison /\ Len(Plan) \in DOMAIN Plan
        BY <1>9, <1>10, PlanAt, StagesOfPlan
      <4>4. k = Len(Plan)
        BY <4>2, <4>3, PlanInjective
      <4> QED
        BY <1>9, <1>10, <4>4, StagesOfPlan
    <3> QED
      BY <1>1, <1>6, <1>7, <1>8, <2>2, <3>1 DEF Compared
  <2> QED
    BY <2>1, <2>2
<1> QED
  BY <1>11, <1>12, <1>13, <1>14, <1>15, <1>16, <1>17 DEF IInv

-----------------------------------------------------------------------------
(* The specification *)

\* The invocation ends, with or without its report.
LEMMA EndKeeps ==
  ASSUME IInv, FinalReport \/ Stop
  PROVE  IInv'
<1>1. /\ Ended /\ UNCHANGED <<dir, file, reports, begun, launch, config, damages>>
      /\ final' = final \/ final' = {r.stage : r \in ToSet(records)}
  BY DEF FinalReport, Stop, disk
<1>2. final' \subseteq Stages
  <2>1. ToSet(records) \subseteq StageRecord
    BY SetOf DEF IInv, TypeOK
  <2>2. \A r \in StageRecord : r.stage \in Stages
    BY DEF StageRecord
  <2> QED
    BY <1>1, <2>1, <2>2 DEF IInv, TypeOK
<1>3. Sft \in Stages /\ Cardinality({}) <= 1 /\ <<>> \in Seq(StageRecord)
  BY PlanAt, StagesOfPlan, ExperimentAssumption, EmptySeq, FS_EmptySet
<1>4. TypeOK'
  BY <1>1, <1>2, <1>3 DEF IInv, TypeOK, HasPolicies, Ended
<1> QED
  BY <1>1, <1>4, EndedKeeps

LEMMA StutterKeeps ==
  ASSUME IInv, UNCHANGED vars
  PROVE  IInv'
<1>1. /\ UNCHANGED <<dir, file, reports, begun, final, launch, config, pc, records, request,
                     produced, damages>>
      /\ Committed' = Committed
  BY DEF vars, disk, Committed
<1>2. TypeOK' /\ InStep' /\ OneContract' /\ CycleBegun' /\ Compared'
  BY <1>1 DEF IInv, TypeOK, HasPolicies, InStep, OneContract, CycleBegun, Compared, OneEvaluatorOf
<1>3. InOrder'
  BY <1>1 DEF IInv, InOrder, Verified
<1>4. (\A r \in ToSet(Committed) : Sound(r, ToSet(Committed)))'
  BY <1>1, SoundStays DEF IInv, RecordsSound
<1>5. RecordsSound'
  BY <1>1, <1>4, SoundStays DEF IInv, RecordsSound, InEnvironment
<1> QED
  BY <1>2, <1>3, <1>5 DEF IInv

LEMMA InitHolds ==
  ASSUME Init
  PROVE  IInv
<1>1. /\ dir = FALSE /\ file = NoState /\ reports = <<>> /\ begun = <<>> /\ final = {}
      /\ launch = 0 /\ config \in Configs /\ pc = "none" /\ records = <<>> /\ request = Sft
      /\ produced = {} /\ damages = 0
  BY DEF Init
<1>2. /\ Sft \in Stages /\ Cardinality({}) <= 1 /\ <<>> \in Seq(StageRecord)
      /\ DOMAIN <<>> = {} /\ Len(<<>>) = 0 /\ Len(Plan) \in Nat
  BY PlanAt, StagesOfPlan, ExperimentAssumption, EmptySeq, FS_EmptySet
<1>3. Committed = <<>> /\ ToSet(<<>>) = {}
  BY <1>1 DEF Committed, ToSet
<1>4. TypeOK
  <2>1. launch \in Launches /\ damages \in 0 .. MaxDamages
    BY <1>1, ExperimentAssumption DEF Launches
  <2>2. file \in {NoState} \cup StateFile /\ ~(file # NoState) /\ dir \in BOOLEAN
    BY <1>1
  <2>3. DOMAIN reports = {} /\ DOMAIN begun = {} /\ final = {} /\ produced = {}
    BY <1>1, <1>2
  <2> QED
    BY <1>1, <1>2, <2>1, <2>2, <2>3, Zenon DEF TypeOK
<1>5. InStep /\ InOrder
  BY <1>1, <1>2, <1>3 DEF InStep, InOrder, Loaded, Checked, Working
<1>6. RecordsSound /\ OneContract /\ CycleBegun /\ Compared
  BY <1>1, <1>3 DEF RecordsSound, OneContract, CycleBegun, Compared
<1> QED
  BY <1>4, <1>5, <1>6 DEF IInv

LEMMA StepKeeps ==
  ASSUME IInv, [Next]_vars
  PROVE  IInv'
BY StartKeeps, LoadKeeps, CreateKeeps, NextStageKeeps, BeginTrainingKeeps, BeginKeeps,
   WriteReportKeeps, RecordKeeps, EndKeeps, DamageKeeps, StutterKeeps DEF Next

\* Whatever happens to its invocations, the experiment keeps the invariant.
THEOREM Invariant == Spec => []IInv
<1>1. Init => IInv
  BY InitHolds
<1>2. IInv /\ [Next]_vars => IInv'
  BY StepKeeps
<1> QED
  BY <1>1, <1>2, PTL DEF Spec

\* Every state of the experiment has the types the code gives its parts; a training stage's
\* record holds a checkpoint of every policy of its topology.
THEOREM TypeCorrect == Spec => []TypeOK
<1>1. IInv => TypeOK
  BY DEF IInv
<1> QED
  BY <1>1, Invariant, PTL

\* However many invocations die in a training stage, the one that records it has trained the
\* whole cycle: nothing an interrupted one left is adopted (_train and the phase store).
THEOREM NeverAdoptedAlways == Spec => []NeverAdopted
<1>1. IInv => NeverAdopted
  BY DEF IInv, RecordsSound, Sound, FromBeginning, NeverAdopted
<1> QED
  BY <1>1, Invariant, PTL

\* The topologies that are compared descend from one supervised checkpoint, each by its own
\* cycles, in one environment and under one evaluator.
THEOREM ComparableAlways == Spec => []Comparable
<1>1. ASSUME IInv PROVE OwnLineage
  BY <1>1 DEF IInv, RecordsSound, Sound, Lineage, OwnLineage
<1>2. ASSUME IInv PROVE OneEvaluator
  <2> SUFFICES ASSUME NEW r \in ToSet(Committed), NEW d \in ToSet(Committed),
                      Comparison \in {b.stage : b \in ToSet(Committed)},
                      {r.stage.kind, d.stage.kind} = {"evaluate"}
               PROVE  r.report.evaluator = d.report.evaluator
    BY DEF OneEvaluator
  <2>1. OneEvaluatorOf(ToSet(Committed))
    BY <1>2 DEF IInv, Compared
  <2>2. r.stage.kind = "evaluate" /\ d.stage.kind = "evaluate"
    OBVIOUS
  <2> QED
    BY <2>1, <2>2 DEF OneEvaluatorOf
<1>3. IInv => Comparable
  BY <1>1, <1>2 DEF IInv, Comparable
<1> QED
  BY <1>3, Invariant, PTL

-----------------------------------------------------------------------------
(* What a step may never do *)

\* Only the command that made no file makes one, and only a record is appended to it.
LEMMA OnlyGrowsStep ==
  ASSUME IInv, IInv', [Next]_vars
  PROVE  OnlyGrows
<1>1. \A k \in DOMAIN (Committed)' : (Committed)'[k].stage = Plan[k]
  BY DEF IInv, InOrder
<1>2. CASE file' = file
  <2>1. Committed' = Committed
    BY <1>2 DEF Committed
  <2> QED
    BY <1>1, <1>2, <2>1 DEF OnlyGrows
<1>3. CASE CreateState
  <2>1. file = NoState /\ Committed = <<>>
    BY <1>3 DEF IInv, InStep, CreateState, Committed
  <2>2. DOMAIN <<>> = {}
    OBVIOUS
  <2> QED
    BY <1>1, <2>1, <2>2 DEF OnlyGrows
<1>4. CASE Record
  <2>1. PICK p : produced = {p}
    BY <1>4 DEF Record, IInv, InStep
  <2>2. /\ records' = Append(records, p) /\ pc = "record" /\ pc' = "plan" /\ p \in StageRecord
        /\ config' = config
    BY <1>4, <2>1 DEF Record, IInv, TypeOK
  <2>3. Committed = records /\ Committed' = records' /\ records \in Seq(StageRecord)
    BY <2>2 DEF IInv, InStep, TypeOK, Loaded, Committed
  <2>4. /\ file # NoState /\ file' # NoState /\ file.config = config /\ file'.config = config
    BY <2>2 DEF IInv, InStep, Loaded
  <2>5. \A k \in DOMAIN records : k \in DOMAIN records' /\ records'[k] = records[k]
    <3>1. /\ Len(records') = Len(records) + 1 /\ records' \in Seq(StageRecord)
          /\ \A k \in 1 .. Len(records) : records'[k] = records[k]
      BY <2>2, <2>3, AppendProperties
    <3>2. /\ DOMAIN records = 1 .. Len(records) /\ DOMAIN records' = 1 .. Len(records')
          /\ Len(records) \in Nat
      BY <2>3, <3>1, LenProperties
    <3> QED
      BY <3>1, <3>2
  <2> QED
    BY <1>1, <2>3, <2>4, <2>5 DEF OnlyGrows
<1>5. file' = file \/ CreateState \/ Record
  BY DEF Next, vars, disk, Launch, LoadState, MakeDirectory, NextStage, BeginTraining, Begin,
         Compare, WriteReport, FinalReport, Stop, Damage
<1> QED
  BY <1>2, <1>3, <1>4, <1>5

\* The final report is written after the last stage, of reports that are verified.
LEMMA PassesVerifiedStep ==
  ASSUME IInv, [Next]_vars
  PROVE  PassesVerified
<1> SUFFICES ASSUME final' # final
             PROVE  final' = Stages /\ \A r \in ToSet(Committed) : reports[r.stage] = r.report
  BY DEF PassesVerified
<1>1. FinalReport
  BY DEF Next, vars, disk, Launch, LoadState, MakeDirectory, CreateState, NextStage,
         BeginTraining, Begin, Compare, WriteReport, Record, Stop, Damage
<1>2. pc = "final" /\ final' = {r.stage : r \in ToSet(records)}
  BY <1>1 DEF FinalReport
<1>3. /\ Len(records) = Len(Plan) /\ records \in Seq(StageRecord)
      /\ \A k \in 1 .. Len(records) : records[k].stage = Plan[k]
      /\ \A r \in ToSet(records) : Verified(r)
  BY <1>2, RecordsLoaded DEF IInv, InOrder, Loaded, Checked
<1>4. Committed = records
  BY <1>2, Held DEF Loaded
<1>5. final' = Stages
  <2>1. \A e : e \in ToSet(records) <=> \E k \in 1 .. Len(records) : e = records[k]
    BY <1>3, SetOf
  <2>2. ASSUME NEW s \in Stages PROVE s \in final'
    <3>1. PICK k \in 1 .. Len(Plan) : s = Plan[k]
      BY StagesOfPlan
    <3>2. records[k] \in ToSet(records) /\ records[k].stage = s
      BY <1>3, <2>1, <3>1
    <3> QED
      BY <1>2, <3>2
  <2>3. ASSUME NEW s \in final' PROVE s \in Stages
    BY <1>2, <1>3, <2>1, <2>3, StagesOfPlan
  <2> QED
    BY <2>2, <2>3
<1> QED
  BY <1>3, <1>4, <1>5 DEF Verified

\* The state file only grows, along the plan and under one configuration, and a run passes
\* only with every stage on it and every report as it was recorded (run, _verify_stage_record).
THEOREM RunTrustedAlways == Spec => RunTrusted
<1>1. IInv /\ IInv' /\ [Next]_vars => OnlyGrows /\ PassesVerified
  BY OnlyGrowsStep, PassesVerifiedStep
<1> QED
  BY <1>1, Invariant, PTL DEF Spec, RunTrusted

=============================================================================
