------------------------ MODULE RewardedBatch_proofs ------------------------
(***************************************************************************)
(* One answer has one score, and batches are balanced, for any tasks,      *)
(* rollouts, references, phases, limits of the judge and faults.           *)
(*                                                                         *)
(* The invariant is about the locks: who holds the lock of a question is   *)
(* alone with it, and the judge does not know the answer yet. So the judge *)
(* learns every verdict once, and what a score was given is what the judge *)
(* knows.                                                                  *)
(*                                                                         *)
(* Sums over sets are folds. What they come to is proved by induction over *)
(* the number of elements, for values that are an affine image of others.  *)
(***************************************************************************)
EXTENDS RewardedBatch, SequenceTheorems, FiniteSetTheorems, WellFoundedInduction, TLAPS

-----------------------------------------------------------------------------
(* The invariant *)

Asking == {"lock", "slot", "provider"}

\* The scores that hold the lock of their question.
Holders == {e \in Episodes : pc[e] \in {"slot", "provider"}}

AsksOpen == \A e \in Episodes : pc[e] \in Asking => Open(e) # {}

LocksExclusive == \A e, f \in Holders : Current(e) = Current(f) => e = f

NewToJudge == \A e \in Holders : ~Asked(cache, Current(e))

OneVerdict == \A r, s \in cache : r.q = s.q => r = s

\* A score was given what the judge knows.
FromJudge == \A e \in Episodes : got[e] \subseteq cache

\* It is complete when nothing is left to ask.
ScoredInFull == \A e \in Episodes : pc[e] = "scored" /\ trace[e].ok => Open(e) = {}

JInv == AsksOpen /\ LocksExclusive /\ NewToJudge /\ OneVerdict /\ FromJudge /\ ScoredInFull

BInv == TypeOK /\ JInv

-----------------------------------------------------------------------------
(* Questions *)

\* What a score asks depends on its trace, on what it was given and on its task.
LEMMA OpenStays ==
  ASSUME NEW e \in Episodes, got'[e] = got[e], trace'[e] = trace[e], boxed' = boxed
  PROVE  Open(e)' = Open(e) /\ Current(e)' = Current(e)
<1>1. Rows(e)' = Rows(e) /\ \A k : KeyQuestion(e, k)' = KeyQuestion(e, k)
  BY DEF Rows, KeyQuestion
<1>2. Unmatched(e)' = Unmatched(e)
  BY <1>1 DEF Unmatched, Asked
<1>3. \A k : MatchesOf(e, k)' = MatchesOf(e, k)
  BY <1>1 DEF MatchesOf
<1>4. Matched(e)' = Matched(e)
  BY <1>1, <1>3 DEF Matched
<1>5. Doubtful(e)' = Doubtful(e)
  BY <1>4 DEF Doubtful
<1>6. CellQuestion(e)' = CellQuestion(e)
  BY <1>5 DEF CellQuestion
<1>7. Open(e)' = Open(e)
  BY <1>1, <1>2, <1>5, <1>6 DEF Open, Asked
<1> QED
  BY <1>7 DEF Current

\* They are questions.
LEMMA OpenTyped ==
  ASSUME TypeOK, NEW e \in Episodes
  PROVE  Open(e) \subseteq Question
<1>1. TaskOf(e) \in Tasks
  BY DEF Episodes, TaskOf
<1>2. Rows(e) \subseteq Keys
  <2>1. trace[e].answer \in {Malformed} \cup Tables
    BY DEF TypeOK, Trace
  <2>2. CASE trace[e].answer = Malformed
    <3>1. DOMAIN <<>> = {}
      OBVIOUS
    <3> QED
      BY <2>2, <3>1 DEF Malformed, Rows
  <2>3. CASE trace[e].answer \in Tables
    BY <2>3 DEF Tables, Rows
  <2> QED
    BY <2>1, <2>2, <2>3
<1>3. \A k \in Keys : KeyQuestion(e, k) \in Question
  BY <1>1 DEF KeyQuestion, Question
<1>4. CellQuestion(e) \in Question
  BY <1>1, <1>2 DEF CellQuestion, Question, Doubtful, Matched
<1>5. Unmatched(e) # {} => (CHOOSE k \in Unmatched(e) : TRUE) \in Keys
  BY <1>2 DEF Unmatched
<1> QED
  BY <1>3, <1>4, <1>5 DEF Open

LEMMA CurrentTyped ==
  ASSUME TypeOK, NEW e \in Episodes, Open(e) # {}
  PROVE  Current(e) \in Open(e) /\ Current(e) \in Question
BY OpenTyped DEF Current

\* What was asked has an answer.
LEMMA YesTyped ==
  ASSUME NEW v \in SUBSET Verdict, NEW q, Asked(v, q)
  PROVE  [q |-> q, yes |-> YesOf(v, q)] \in v
<1> DEFINE r == CHOOSE s \in v : s.q = q
<1>1. r \in v /\ r.q = q
  BY DEF Asked
<1>2. YesOf(v, q) = r.yes
  BY DEF YesOf
<1> HIDE DEF r
<1>3. r = [q |-> q, yes |-> r.yes]
  BY <1>1 DEF Verdict
<1> QED
  BY <1>1, <1>2, <1>3

-----------------------------------------------------------------------------
(* What a step does to the locks and to what the judge knows *)

Same(e) == pc'[e] = pc[e] /\ got'[e] = got[e] /\ trace'[e] = trace[e]

\* Scores that ask nothing are given what is known.
Idle(e) ==
  /\ got'[e] \subseteq cache
  /\ \/ pc'[e] \in {"rollout", "ran", "score", "raised"}
     \/ pc'[e] = "scored" /\ ~trace'[e].ok

LEMMA FrameKeeps ==
  ASSUME JInv, boxed' = boxed, cache' = cache, \A e \in Episodes : Same(e) \/ Idle(e)
  PROVE  JInv'
<1>1. \A e \in Episodes : Same(e) => Open(e)' = Open(e) /\ Current(e)' = Current(e)
  BY OpenStays DEF Same
<1>2. \A e \in Holders' : e \in Holders /\ Current(e)' = Current(e)
  BY <1>1 DEF Holders, Same, Idle
<1>3. AsksOpen'
  BY <1>1 DEF JInv, AsksOpen, Same, Idle, Asking
<1>4. LocksExclusive'
  BY <1>2 DEF JInv, LocksExclusive
<1>5. NewToJudge'
  BY <1>2 DEF JInv, NewToJudge, Asked
<1>6. OneVerdict' /\ FromJudge'
  BY DEF JInv, OneVerdict, FromJudge, Same, Idle
<1>7. ScoredInFull'
  BY <1>1 DEF JInv, ScoredInFull, Same, Idle
<1> QED
  BY <1>3, <1>4, <1>5, <1>6, <1>7 DEF JInv

\* A score waits for the lock, holds it, or is done.
LEMMA EntersKeeps ==
  ASSUME JInv, NEW e \in Episodes, NEW x \in Asking \cup {"scored"},
         UNCHANGED <<boxed, cache, got, trace>>, pc' = [pc EXCEPT ![e] = x],
         DOMAIN pc = Episodes,
         x \in Asking => Open(e) # {},
         x # "lock" /\ x # "scored" =>
           ~Asked(cache, Current(e)) /\ \A f \in Holders : Current(f) = Current(e) => f = e,
         x = "scored" => Open(e) = {}
  PROVE  JInv'
<1>1. \A f \in Episodes : Open(f)' = Open(f) /\ Current(f)' = Current(f)
  BY OpenStays
<1>2. pc'[e] = x /\ \A f \in Episodes : f # e => pc'[f] = pc[f]
  OBVIOUS
<1>3. AsksOpen'
  BY <1>1, <1>2 DEF JInv, AsksOpen
<1>4. \A f \in Holders' : f \in Holders \/ (f = e /\ x # "lock" /\ x # "scored")
  BY <1>2 DEF Holders
<1>5. LocksExclusive'
  BY <1>1, <1>4 DEF JInv, LocksExclusive, Holders
<1>6. NewToJudge'
  BY <1>1, <1>4 DEF JInv, NewToJudge, Asked, Holders
<1>7. OneVerdict' /\ FromJudge'
  BY DEF JInv, OneVerdict, FromJudge
<1>8. ScoredInFull'
  BY <1>1, <1>2 DEF JInv, ScoredInFull, Asking
<1> QED
  BY <1>3, <1>5, <1>6, <1>7, <1>8 DEF JInv

\* The judge learns what the holder of a lock asked for.
LEMMA LearnsKeeps ==
  ASSUME JInv, NEW e \in Holders, NEW v, v.q = Current(e), NEW x \in {"score", "raised"},
         UNCHANGED <<boxed, trace>>, DOMAIN pc = Episodes, DOMAIN got = Episodes,
         pc' = [pc EXCEPT ![e] = x],
         got' = got \/ got' = [got EXCEPT ![e] = @ \cup {v}],
         cache' = cache \cup {v}
  PROVE  JInv'
<1>1. e \in Episodes /\ pc[e] \in {"slot", "provider"}
  BY DEF Holders
<1>2. \A f \in Episodes : f # e => pc'[f] = pc[f] /\ got'[f] = got[f]
  <2>1. CASE got' = got
    BY <1>1, <2>1
  <2>2. CASE got' = [got EXCEPT ![e] = @ \cup {v}]
    BY <1>1, <2>2
  <2> QED
    BY <2>1, <2>2
<1>3. \A f \in Episodes : f # e => Open(f)' = Open(f) /\ Current(f)' = Current(f)
  BY <1>2, OpenStays
<1>4. pc'[e] = x /\ got'[e] \subseteq got[e] \cup {v}
  <2>1. CASE got' = got
    BY <1>1, <2>1
  <2>2. CASE got' = [got EXCEPT ![e] = @ \cup {v}]
    BY <1>1, <2>2
  <2> QED
    BY <2>1, <2>2
<1>5. ~Asked(cache, v.q)
  BY DEF JInv, NewToJudge
<1>6. \A f \in Holders' : f \in Holders /\ f # e /\ Current(f)' = Current(f)
  BY <1>2, <1>3, <1>4 DEF Holders
<1>7. AsksOpen'
  BY <1>2, <1>3, <1>4 DEF JInv, AsksOpen, Asking
<1>8. LocksExclusive'
  BY <1>6 DEF JInv, LocksExclusive
<1>9. NewToJudge'
  <2> SUFFICES ASSUME NEW f \in Holders' PROVE ~Asked(cache', Current(f)')
    BY DEF NewToJudge, Asked
  <2>1. f \in Holders /\ f # e /\ Current(f)' = Current(f)
    BY <1>6
  <2>2. Current(f) # v.q /\ ~Asked(cache, Current(f))
    BY <2>1 DEF JInv, LocksExclusive, NewToJudge
  <2> QED
    BY <2>1, <2>2 DEF Asked
<1>10. OneVerdict'
  BY <1>5 DEF JInv, OneVerdict, Asked
<1>11. FromJudge'
  BY <1>2, <1>4 DEF JInv, FromJudge
<1>12. ScoredInFull'
  BY <1>2, <1>3, <1>4 DEF JInv, ScoredInFull
<1> QED
  BY <1>7, <1>8, <1>9, <1>10, <1>11, <1>12 DEF JInv

-----------------------------------------------------------------------------
(* The judge *)

\* Free or not, a request is made by one who may hold the lock.
MayHold(e) ==
  /\ Open(e) # {}
  /\ ~Asked(cache, Current(e))
  /\ \A f \in Holders : Current(f) = Current(e) => f = e

LEMMA HolderMayHold ==
  ASSUME BInv, NEW e \in Holders
  PROVE  MayHold(e)
BY DEF MayHold, BInv, JInv, AsksOpen, LocksExclusive, NewToJudge, Holders, Asking

LEMMA RequestKeeps ==
  ASSUME BInv, NEW e \in Episodes, MayHold(e), NEW n \in 1 .. MaxAttempts, Request(e, n),
         UNCHANGED <<boxed, phase, build, trace, faults>>
  PROVE  BInv'
<1>1. PICK x \in {"provider", "raised"} : pc' = [pc EXCEPT ![e] = x]
  BY DEF Request
<1>2. UNCHANGED <<got, cache>> /\ pc \in [Episodes -> Control] /\ got \in [Episodes -> SUBSET Verdict]
  BY DEF Request, BInv, TypeOK
<1>3. TypeOK'
  <2>1. pc' \in [Episodes -> Control]
    BY <1>1, <1>2 DEF Control
  <2>2. attempt' \in [Episodes -> 0 .. MaxAttempts] /\ requests' \in 0 .. MaxRequests
    <3>1. /\ attempt \in [Episodes -> 0 .. MaxAttempts] /\ requests \in 0 .. MaxRequests
          /\ n \in 0 .. MaxAttempts /\ MaxRequests \in Nat
      BY BatchAssumption DEF BInv, TypeOK
    <3>2. CASE requests < MaxRequests
      BY <3>1, <3>2 DEF Request
    <3>3. CASE ~(requests < MaxRequests)
      BY <3>1, <3>3 DEF Request
    <3> QED
      BY <3>2, <3>3
  <2> QED
    BY <1>2, <2>1, <2>2 DEF BInv, TypeOK
<1>4. JInv'
  <2>1. CASE x = "provider"
    BY <1>1, <1>2, <2>1, EntersKeeps DEF BInv, MayHold, Asking
  <2>2. CASE x = "raised"
    BY <1>1, <1>2, <2>2, FrameKeeps DEF BInv, JInv, FromJudge, Same, Idle
  <2> QED
    BY <2>1, <2>2
<1> QED
  BY <1>3, <1>4 DEF BInv

LEMMA EnterKeeps ==
  ASSUME BInv, NEW e \in Episodes, MayHold(e), Enter(e),
         UNCHANGED <<boxed, phase, build, trace, faults>>
  PROVE  BInv'
<1>1. CASE SlotFree
  <2>1. 1 \in 1 .. MaxAttempts
    BY BatchAssumption
  <2> QED
    BY <1>1, <2>1, RequestKeeps DEF Enter
<1>2. CASE ~SlotFree
  <2>1. pc' = [pc EXCEPT ![e] = "slot"] /\ UNCHANGED <<got, cache, requests, attempt>>
    BY <1>2 DEF Enter
  <2>2. TypeOK'
    BY <2>1 DEF BInv, TypeOK, Control, Waiting
  <2>3. JInv'
    BY <2>1, EntersKeeps DEF BInv, TypeOK, MayHold, Asking
  <2> QED
    BY <2>2, <2>3 DEF BInv
<1> QED
  BY <1>1, <1>2

\* A verdict that is known.
LEMMA GiveKeeps ==
  ASSUME BInv, NEW e \in Episodes, NEW q, Asked(cache, q), Give(e, q, YesOf(cache, q)),
         UNCHANGED <<boxed, phase, build, trace, attempt, cache, requests, faults>>
  PROVE  BInv'
<1> DEFINE v == [q |-> q, yes |-> YesOf(cache, q)]
<1>1. v \in cache /\ cache \subseteq Verdict
  BY YesTyped DEF BInv, TypeOK
<1>2. got' = [got EXCEPT ![e] = @ \cup {v}] /\ pc' = [pc EXCEPT ![e] = "score"]
  BY DEF Give
<1> HIDE DEF v
<1>3. pc \in [Episodes -> Control] /\ got \in [Episodes -> SUBSET Verdict]
  BY DEF BInv, TypeOK
<1>4. TypeOK'
  <2>1. got' \in [Episodes -> SUBSET Verdict] /\ pc' \in [Episodes -> Control]
    BY <1>1, <1>2, <1>3 DEF Control
  <2> QED
    BY <2>1 DEF BInv, TypeOK
<1>5. \A f \in Episodes : Same(f) \/ Idle(f)
  <2>1. \A f \in Episodes : f # e => Same(f)
    BY <1>2, <1>3 DEF Same
  <2>2. got'[e] = got[e] \cup {v} /\ pc'[e] = "score"
    BY <1>2, <1>3
  <2>3. Idle(e)
    BY <1>1, <2>2 DEF Idle, BInv, JInv, FromJudge
  <2> QED
    BY <2>1, <2>3
<1>6. JInv'
  BY <1>5, FrameKeeps DEF BInv
<1> QED
  BY <1>4, <1>6 DEF BInv

LEMMA AskKeeps ==
  ASSUME BInv, NEW e \in Episodes, Ask(e)
  PROVE  BInv'
<1>1. /\ Open(e) # {} /\ UNCHANGED <<boxed, phase, build, trace, batch, faults>>
  BY DEF Ask
<1>2. CASE Asked(cache, Current(e))
  <2>1. Give(e, Current(e), YesOf(cache, Current(e))) /\ UNCHANGED <<cache, requests, attempt>>
    BY <1>2 DEF Ask
  <2> QED
    BY <1>1, <1>2, <2>1, GiveKeeps
<1>3. CASE ~Asked(cache, Current(e)) /\ ~Locked(Current(e))
  <2>1. Enter(e)
    BY <1>3 DEF Ask
  <2>2. MayHold(e)
    BY <1>1, <1>3 DEF MayHold, Locked, Holders
  <2> QED
    BY <1>1, <2>1, <2>2, EnterKeeps
<1>4. CASE ~Asked(cache, Current(e)) /\ Locked(Current(e))
  <2>1. pc' = [pc EXCEPT ![e] = "lock"] /\ UNCHANGED <<got, cache, requests, attempt>>
    BY <1>4 DEF Ask
  <2>2. TypeOK'
    BY <1>1, <2>1 DEF BInv, TypeOK, Control, Waiting
  <2>3. JInv'
    BY <1>1, <2>1, EntersKeeps DEF BInv, TypeOK, Asking
  <2> QED
    BY <2>2, <2>3 DEF BInv
<1> QED
  BY <1>2, <1>3, <1>4

LEMMA AcquireKeeps ==
  ASSUME BInv, NEW e \in Episodes, Acquire(e)
  PROVE  BInv'
<1>1. /\ pc[e] = "lock" /\ ~Locked(Current(e))
      /\ UNCHANGED <<boxed, phase, build, trace, batch, faults>>
  BY DEF Acquire
<1>2. CASE Asked(cache, Current(e))
  <2>1. Give(e, Current(e), YesOf(cache, Current(e))) /\ UNCHANGED <<cache, requests, attempt>>
    BY <1>2 DEF Acquire, RememberedUnderLock
  <2> QED
    BY <1>1, <1>2, <2>1, GiveKeeps
<1>3. CASE ~Asked(cache, Current(e))
  <2>1. Enter(e)
    BY <1>3 DEF Acquire, RememberedUnderLock
  <2>2. MayHold(e)
    BY <1>1, <1>3 DEF MayHold, Locked, Holders, BInv, JInv, AsksOpen, Asking
  <2> QED
    BY <1>1, <2>1, <2>2, EnterKeeps
<1> QED
  BY <1>2, <1>3

\* The holder of the lock, once it has a slot, and its repeated attempts.
LEMMA HolderKeeps ==
  ASSUME BInv, NEW e \in Episodes, EnterSlot(e) \/ BadReply(e)
  PROVE  BInv'
<1>1. pc[e] \in {"slot", "provider"} /\ UNCHANGED <<boxed, phase, build, trace, batch, faults>>
  BY DEF EnterSlot, BadReply
<1>2. MayHold(e)
  BY <1>1, HolderMayHold DEF Holders
<1>3. CASE EnterSlot(e)
  <2>1. 1 \in 1 .. MaxAttempts
    BY BatchAssumption
  <2> QED
    BY <1>1, <1>2, <1>3, <2>1, RequestKeeps DEF EnterSlot
<1>4. CASE BadReply(e) /\ AttemptsLeft(e)
  <2>1. attempt[e] + 1 \in 1 .. MaxAttempts
    BY <1>4, BatchAssumption DEF BInv, TypeOK, AttemptsLeft
  <2> QED
    BY <1>1, <1>2, <1>4, <2>1, RequestKeeps DEF BadReply
<1>5. CASE BadReply(e) /\ ~AttemptsLeft(e)
  <2>1. pc' = [pc EXCEPT ![e] = "raised"] /\ UNCHANGED <<got, cache, requests, attempt>>
    BY <1>5 DEF BadReply
  <2>2. TypeOK'
    BY <1>1, <2>1 DEF BInv, TypeOK, Control
  <2>3. \A f \in Episodes : Same(f) \/ Idle(f)
    BY <1>1, <2>1 DEF BInv, TypeOK, JInv, FromJudge, Same, Idle
  <2> QED
    BY <1>1, <2>1, <2>2, <2>3, FrameKeeps DEF BInv
<1> QED
  BY <1>3, <1>4, <1>5

\* A verdict on a question is a verdict.
LEMMA VerdictTyped ==
  ASSUME TypeOK, NEW e \in Episodes, Open(e) # {}, NEW yes \in VerdictsOn(Current(e))
  PROVE  [q |-> Current(e), yes |-> yes] \in Verdict
<1>1. Current(e) \in Question
  BY CurrentTyped
<1>2. yes \subseteq Keys
  BY <1>1, BatchAssumption DEF VerdictsOn, Question
<1> QED
  BY <1>1, <1>2 DEF Verdict

LEMMA AnsweredKeeps ==
  ASSUME BInv, NEW e \in Episodes, Answered(e)
  PROVE  BInv'
<1>1. /\ pc[e] = "provider"
      /\ UNCHANGED <<boxed, phase, build, trace, attempt, requests, batch, faults>>
      /\ e \in Holders
  BY DEF Answered, Holders
<1>2. MayHold(e)
  BY <1>1, HolderMayHold
<1>3. PICK yes \in VerdictsOn(Current(e)) :
        /\ Give(e, Current(e), yes)
        /\ cache' = cache \cup {[q |-> Current(e), yes |-> yes]}
  BY <1>2 DEF Answered, MayHold
<1> DEFINE v == [q |-> Current(e), yes |-> yes]
<1>4. v \in Verdict
  BY <1>2, VerdictTyped DEF BInv, MayHold
<1>5. /\ pc' = [pc EXCEPT ![e] = "score"] /\ got' = [got EXCEPT ![e] = @ \cup {v}]
      /\ cache' = cache \cup {v} /\ v.q = Current(e)
  BY <1>3 DEF Give
<1> HIDE DEF v
<1>6. TypeOK'
  <2>1. /\ pc \in [Episodes -> Control] /\ got \in [Episodes -> SUBSET Verdict]
        /\ cache \subseteq Verdict
    BY DEF BInv, TypeOK
  <2>2. /\ pc' \in [Episodes -> Control] /\ got' \in [Episodes -> SUBSET Verdict]
        /\ cache' \subseteq Verdict
    BY <1>4, <1>5, <2>1 DEF Control
  <2> QED
    BY <1>1, <2>2 DEF BInv, TypeOK
<1>7. JInv'
  <2>1. DOMAIN pc = Episodes /\ DOMAIN got = Episodes
    BY DEF BInv, TypeOK
  <2> QED
    BY <1>1, <1>5, <2>1, LearnsKeeps DEF BInv
<1> QED
  BY <1>6, <1>7 DEF BInv

\* The judge fails, before or after it has remembered the verdict.
LEMMA JudgeFailsKeeps ==
  ASSUME BInv, NEW e \in Episodes, JudgeFails(e)
  PROVE  BInv'
<1>1. /\ pc[e] = "provider" /\ e \in Holders
      /\ UNCHANGED <<boxed, phase, build, trace, attempt, requests, batch>>
      /\ pc' = [pc EXCEPT ![e] = "raised"] /\ got' = got
      /\ faults < MaxFaults /\ faults' = faults + 1
  BY DEF JudgeFails, Holders, FailedRaises
<1>2. faults' \in 0 .. MaxFaults
  BY <1>1, BatchAssumption DEF BInv, TypeOK
<1>3. pc' \in [Episodes -> Control]
  BY <1>1 DEF BInv, TypeOK, Control
<1>4. DOMAIN pc = Episodes /\ DOMAIN got = Episodes
  BY DEF BInv, TypeOK
<1>5. CASE cache' = cache
  <2>1. TypeOK'
    BY <1>1, <1>2, <1>3, <1>5 DEF BInv, TypeOK
  <2>2. \A f \in Episodes : Same(f) \/ Idle(f)
    BY <1>1, <1>4 DEF BInv, JInv, FromJudge, Same, Idle
  <2> QED
    BY <1>1, <1>5, <2>1, <2>2, FrameKeeps DEF BInv
<1>6. CASE cache' # cache
  <2>1. PICK yes \in VerdictsOn(Current(e)) :
          cache' = cache \cup {[q |-> Current(e), yes |-> yes]}
    BY <1>6 DEF JudgeFails
  <2> DEFINE v == [q |-> Current(e), yes |-> yes]
  <2>2. v \in Verdict
    BY <1>1, HolderMayHold, VerdictTyped DEF BInv, MayHold
  <2>3. cache' = cache \cup {v} /\ v.q = Current(e)
    BY <2>1
  <2> HIDE DEF v
  <2>4. TypeOK'
    BY <1>1, <1>2, <1>3, <2>2, <2>3 DEF BInv, TypeOK
  <2>5. JInv'
    BY <1>1, <1>4, <2>3, LearnsKeeps DEF BInv
  <2> QED
    BY <2>4, <2>5 DEF BInv
<1> QED
  BY <1>5, <1>6

LEMMA EvaluateKeeps ==
  ASSUME BInv, NEW e \in Episodes, Evaluate(e)
  PROVE  BInv'
<1>1. /\ pc[e] = "score" /\ Open(e) = {}
      /\ UNCHANGED <<boxed, phase, build, trace, got, attempt, cache, requests, batch, faults>>
  BY DEF Evaluate
<1>2. PICK x \in {"raised", "scored"} : pc' = [pc EXCEPT ![e] = x]
  BY DEF Evaluate
<1>3. TypeOK'
  BY <1>1, <1>2 DEF BInv, TypeOK, Control
<1>4. DOMAIN pc = Episodes
  BY DEF BInv, TypeOK
<1>5. CASE x = "scored"
  <2>1. JInv'
    BY <1>1, <1>2, <1>4, <1>5, EntersKeeps DEF BInv, Asking
  <2> QED
    BY <1>3, <2>1 DEF BInv
<1>6. CASE x = "raised"
  <2>1. \A f \in Episodes : Same(f) \/ Idle(f)
    BY <1>1, <1>2, <1>4, <1>6 DEF BInv, JInv, FromJudge, Same, Idle
  <2> QED
    BY <1>1, <1>3, <2>1, FrameKeeps DEF BInv
<1> QED
  BY <1>5, <1>6

-----------------------------------------------------------------------------
(* Rollouts and batches *)

LEMMA RolloutKeeps ==
  ASSUME BInv, NEW e \in Episodes, RolloutEnds(e) \/ RolloutRaises(e)
  PROVE  BInv'
<1>1. /\ pc[e] = "rollout"
      /\ UNCHANGED <<boxed, phase, build, got, attempt, cache, requests, batch>>
  BY DEF RolloutEnds, RolloutRaises
<1>2. PICK x \in {"ran", "raised"} : pc' = [pc EXCEPT ![e] = x]
  BY DEF RolloutEnds, RolloutRaises
<1>3. faults' \in 0 .. MaxFaults
  BY BatchAssumption DEF RolloutEnds, RolloutRaises, BInv, TypeOK
<1>4. trace' \in [Episodes -> Trace] /\ \A f \in Episodes : f # e => trace'[f] = trace[f]
  BY DEF RolloutEnds, RolloutRaises, BInv, TypeOK
<1>5. TypeOK'
  BY <1>1, <1>2, <1>3, <1>4 DEF BInv, TypeOK, Control
<1>6. \A f \in Episodes : Same(f) \/ Idle(f)
  BY <1>1, <1>2, <1>4 DEF BInv, TypeOK, JInv, FromJudge, Same, Idle
<1> QED
  BY <1>1, <1>5, <1>6, FrameKeeps DEF BInv

LEMMA GroupKeeps ==
  ASSUME BInv, NEW t \in Tasks, ScoreGroup(t) \/ EnvironmentDiffers(t)
  PROVE  BInv'
<1>1. /\ \A e \in GroupOf(t) : pc[e] = "ran"
      /\ UNCHANGED <<boxed, phase, build, trace, got, attempt, cache, requests, batch>>
  BY DEF ScoreGroup, EnvironmentDiffers
<1>2. faults' \in 0 .. MaxFaults
  BY BatchAssumption DEF ScoreGroup, EnvironmentDiffers, BInv, TypeOK
<1>3. /\ DOMAIN pc' = Episodes
      /\ \A e \in Episodes :
           \/ e \notin GroupOf(t) /\ pc'[e] = pc[e]
           \/ e \in GroupOf(t) /\ pc'[e] \in {"score", "raised"}
           \/ e \in GroupOf(t) /\ pc'[e] = "scored" /\ ~trace[e].ok
      /\ pc' = [e \in Episodes |-> pc'[e]]
  BY DEF ScoreGroup, EnvironmentDiffers
<1>4. pc' \in [Episodes -> Control]
  BY <1>3 DEF BInv, TypeOK, Control
<1>5. TypeOK'
  BY <1>1, <1>2, <1>4 DEF BInv, TypeOK
<1>6. \A e \in Episodes : Same(e) \/ Idle(e)
  BY <1>1, <1>3 DEF BInv, JInv, FromJudge, Same, Idle
<1> QED
  BY <1>1, <1>5, <1>6, FrameKeeps DEF BInv

\* A trace of a rollout that did not run yet.
LEMMA BlankTyped == Blank \in Trace
BY BatchAssumption DEF Blank, Trace

LEMMA BuildKeeps ==
  ASSUME BInv, Build \/ BuildRaises
  PROVE  BInv'
<1>1. UNCHANGED <<boxed, phase, pc, trace, got, attempt, cache, requests, faults>>
  BY DEF Build, BuildRaises
<1>2. build' \in {"building", "built", "failed"}
  BY DEF Build, BuildRaises
<1>3. \A e \in Episodes : Same(e)
  BY <1>1 DEF Same
<1>4. TypeOK'
  BY <1>1, <1>2 DEF BInv, TypeOK
<1> QED
  BY <1>1, <1>3, <1>4, FrameKeeps DEF BInv

LEMMA NextPhaseKeeps ==
  ASSUME BInv, NextPhase
  PROVE  BInv'
<1>1. /\ UNCHANGED <<boxed, cache, requests, faults>>
      /\ phase' = phase + 1 /\ phase < Len(Phases) /\ build' = "building"
      /\ pc' = [e \in Episodes |-> "rollout"] /\ trace' = [e \in Episodes |-> Blank]
      /\ got' = [e \in Episodes |-> {}] /\ attempt' = [e \in Episodes |-> 0]
  BY DEF NextPhase
<1>2. phase' \in DOMAIN Phases
  <2>1. DOMAIN Phases = 1 .. Len(Phases) /\ Len(Phases) \in Nat
    BY BatchAssumption, LenProperties
  <2> QED
    BY <1>1, <2>1 DEF BInv, TypeOK
<1>3. TypeOK'
  BY <1>1, <1>2, BlankTyped, BatchAssumption DEF BInv, TypeOK, Control
<1>4. \A e \in Episodes : Idle(e)
  BY <1>1 DEF Idle
<1> QED
  BY <1>1, <1>3, <1>4, FrameKeeps DEF BInv

-----------------------------------------------------------------------------
(* The specification *)

LEMMA InitHolds ==
  ASSUME Init
  PROVE  BInv
<1>1. 1 \in DOMAIN Phases
  <2>1. DOMAIN Phases = 1 .. Len(Phases) /\ Len(Phases) \in Nat
    BY BatchAssumption, LenProperties
  <2>2. Len(Phases) # 0
    BY BatchAssumption, EmptySeq
  <2> QED
    BY <2>1, <2>2
<1>2. TypeOK
  BY <1>1, BlankTyped, BatchAssumption DEF Init, TypeOK, Control
<1>3. JInv
  BY DEF Init, JInv, AsksOpen, LocksExclusive, NewToJudge, OneVerdict, FromJudge, ScoredInFull,
         Holders, Asking
<1> QED
  BY <1>2, <1>3 DEF BInv

LEMMA StepKeeps ==
  ASSUME BInv, [Next]_vars
  PROVE  BInv'
<1>1. CASE UNCHANGED vars
  <2>1. UNCHANGED <<boxed, phase, build, pc, trace, got, attempt, cache, requests, faults>>
    BY <1>1 DEF vars
  <2>2. \A e \in Episodes : Same(e)
    BY <2>1 DEF Same
  <2>3. TypeOK'
    BY <2>1 DEF BInv, TypeOK
  <2> QED
    BY <2>1, <2>2, <2>3, FrameKeeps DEF BInv
<1>2. ASSUME NEW e \in Episodes, EpisodeStep(e) PROVE BInv'
  BY <1>2, RolloutKeeps, AskKeeps, AcquireKeeps, HolderKeeps, AnsweredKeeps, JudgeFailsKeeps,
     EvaluateKeeps DEF EpisodeStep
<1>3. CASE FactoryStep
  BY <1>3, GroupKeeps, BuildKeeps, NextPhaseKeeps DEF FactoryStep
<1> QED
  BY <1>1, <1>2, <1>3 DEF Next

\* The locks, the cache and the verdicts of the scores stay as they should be.
THEOREM Invariant == Spec => []BInv
BY InitHolds, StepKeeps, PTL DEF Spec

\* Every part of the batch factory's state has its type: requests stay within the budget of
\* the process and attempts within the judge's.
THEOREM TypeCorrect == Spec => []TypeOK
BY Invariant, PTL DEF BInv

\* The verdict a score was given is the one the judge knows.
LEMMA YesIsKnown ==
  ASSUME BInv, NEW e \in Episodes, NEW q, Asked(got[e], q)
  PROVE  YesOf(got[e], q) = YesOf(cache, q)
<1>1. PICK r \in got[e] : r.q = q
  BY DEF Asked
<1>2. r \in cache /\ \A s \in cache : s.q = q => s = r
  BY <1>1 DEF BInv, JInv, FromJudge, OneVerdict
<1>3. \A s \in got[e] : s.q = q => s = r
  BY <1>2 DEF BInv, JInv, FromJudge
<1>4. (CHOOSE s \in got[e] : s.q = q) = r /\ (CHOOSE s \in cache : s.q = q) = r
  BY <1>1, <1>2, <1>3
<1> QED
  BY <1>4 DEF YesOf

\* The answers of two complete scores that are equal were scored by the same verdicts.
LEMMA EqualScores ==
  ASSUME BInv, NEW e \in Episodes, NEW f \in Episodes, TaskOf(e) = TaskOf(f),
         trace[e].answer = trace[f].answer, trace[e].ok, trace[f].ok,
         Open(e) = {}, Open(f) = {}
  PROVE  Score(e) = Score(f)
<1>1. /\ Rows(e) = Rows(f) /\ \A k : KeyQuestion(e, k) = KeyQuestion(f, k)
  BY DEF Rows, KeyQuestion
<1>2. Unmatched(e) = {} /\ Unmatched(f) = {}
  BY DEF Open
<1>3. ASSUME NEW k \in Rows(e) \ References
      PROVE  YesOf(got[e], KeyQuestion(e, k)) = YesOf(got[f], KeyQuestion(f, k))
  <2>1. Asked(got[e], KeyQuestion(e, k)) /\ Asked(got[f], KeyQuestion(f, k))
    BY <1>1, <1>2 DEF Unmatched
  <2> QED
    BY <1>1, <2>1, YesIsKnown
<1>4. \A k \in Rows(e) : MatchesOf(e, k) = MatchesOf(f, k)
  BY <1>3 DEF MatchesOf
<1>5. Matched(e) = Matched(f)
  BY <1>1, <1>4 DEF Matched
<1>6. Doubtful(e) = Doubtful(f)
  BY <1>5 DEF Doubtful
<1>7. CellQuestion(e) = CellQuestion(f)
  BY <1>6 DEF CellQuestion
<1>8. CASE trace[e].answer = Malformed
  BY <1>8 DEF Score
<1>9. CASE trace[e].answer # Malformed /\ TaskOf(e) \in boxed
  <2> DEFINE k == CHOOSE key \in Rows(e) : TRUE
  <2>1. k \in Rows(e)
    <3>1. trace[e].answer \in Tables
      BY <1>9 DEF BInv, TypeOK, Trace
    <3>2. Rows(e) # {}
      BY <3>1 DEF Tables, Rows
    <3> QED
      BY <3>2
  <2> HIDE DEF k
  <2>2. k \notin References =>
          YesOf(got[e], KeyQuestion(e, k)) = YesOf(got[f], KeyQuestion(f, k))
    BY <1>3, <2>1
  <2>3. BoxedScore(e) = BoxedScore(f)
    BY <1>1, <2>2 DEF BoxedScore, k
  <2> QED
    BY <1>9, <2>3 DEF Score
<1>10. CASE trace[e].answer # Malformed /\ TaskOf(e) \notin boxed
  <2>1. Doubtful(e) # {} =>
          YesOf(got[e], CellQuestion(e)) = YesOf(got[f], CellQuestion(f))
    <3> SUFFICES ASSUME Doubtful(e) # {}
                 PROVE  YesOf(got[e], CellQuestion(e)) = YesOf(got[f], CellQuestion(f))
      OBVIOUS
    <3>1. Asked(got[e], CellQuestion(e)) /\ Asked(got[f], CellQuestion(f))
      BY <1>2, <1>6, <1>10 DEF Open
    <3> QED
      BY <1>7, <3>1, YesIsKnown
  <2>2. TableScore(e) = TableScore(f)
    BY <1>1, <1>5, <1>6, <2>1 DEF TableScore
  <2> QED
    BY <1>10, <2>2 DEF Score
<1> QED
  BY <1>8, <1>9, <1>10

\* Scores that ask the same question share one exchange with the provider, the judge never
\* learns two verdicts, and two rollouts with one answer have one score, in whatever order
\* they were judged and whatever failed (semantic_judge.py, judge; wideseek.py, evaluate).
THEOREM OneScoreHolds == Spec => []OneScorePerAnswer
<1>1. ASSUME BInv PROVE SingleFlight
  BY <1>1 DEF BInv, JInv, NewToJudge, LocksExclusive, OneVerdict, Holders, SingleFlight, Slots
<1>2. ASSUME BInv PROVE EqualAnswersEqualScores
  BY <1>2, EqualScores DEF BInv, JInv, ScoredInFull, EqualAnswersEqualScores
<1>3. BInv => OneScorePerAnswer
  BY <1>1, <1>2 DEF OneScorePerAnswer
<1> QED
  BY <1>3, Invariant, PTL

-----------------------------------------------------------------------------
(* Sums over sets *)

\* The partial sums that MapThenSumSet is defined by.
Cumulates(iter, f, S) ==
  iter = [s \in SUBSET S |->
            IF s = {} THEN 0
            ELSE f[CHOOSE x \in s : TRUE] + iter[s \ {CHOOSE x \in s : TRUE}]]

\* A set without its chosen element has one element less.
LEMMA Without ==
  ASSUME NEW S, IsFiniteSet(S), NEW s \in SUBSET S, s # {}
  PROVE  LET x == CHOOSE y \in s : TRUE
         IN  /\ x \in s /\ s \ {x} \in SUBSET S
             /\ Cardinality(s) \in Nat /\ Cardinality(s \ {x}) \in Nat
             /\ Cardinality(s \ {x}) = Cardinality(s) - 1
<1> DEFINE x == CHOOSE y \in s : TRUE
<1>1. x \in s
  OBVIOUS
<1> HIDE DEF x
<1>2. IsFiniteSet(s)
  BY FS_Subset
<1>3. IsFiniteSet(s \ {x}) /\ Cardinality(s \ {x}) = Cardinality(s) - 1
  BY <1>1, <1>2, FS_RemoveElement
<1>4. Cardinality(s) \in Nat /\ Cardinality(s \ {x}) \in Nat
  BY <1>2, <1>3, FS_CardinalityType
<1>5. x \in s /\ s \ {x} \in SUBSET S /\ Cardinality(s) \in Nat /\ Cardinality(s \ {x}) \in Nat
      /\ Cardinality(s \ {x}) = Cardinality(s) - 1
  BY <1>1, <1>3, <1>4
<1> QED
  BY <1>5 DEF x

\* A set of naturals has a least one.
LEMMA LeastOf ==
  ASSUME NEW T \in SUBSET Nat, T # {}
  PROVE  \E h \in T : \A g \in T : h <= g
<1> DEFINE R == OpToRel(<, Nat)
<1>1. \A x, y \in Nat : y < x => <<y, x>> \in R
  BY DEF OpToRel
<1>2. IsWellFoundedOn(R, Nat)
  BY NatLessThanWellFounded
<1> HIDE DEF R
<1>3. PICK x \in T : \A y \in T : ~ (<<y, x>> \in R)
  BY <1>2, WFMin
<1>4. ASSUME NEW y \in T PROVE x <= y
  <2>1. ~(y < x)
    BY <1>1, <1>3, Zenon
  <2> QED
    BY <2>1
<1> QED
  BY <1>4

\* Induction, for the numbers with a property.
LEMMA Counting ==
  ASSUME NEW T, T \subseteq Nat, 0 \in T, \A n \in T : n + 1 \in T
  PROVE  \A n \in Nat : n \in T
<1> SUFFICES ASSUME Nat \ T # {} PROVE FALSE
  OBVIOUS
<1>1. PICK n \in Nat \ T : \A m \in Nat \ T : n <= m
  BY LeastOf
<1>2. n # 0 /\ n - 1 \in Nat /\ n - 1 < n /\ (n - 1) + 1 = n
  BY <1>1
<1>3. n - 1 \in T
  BY <1>1, <1>2 DEF OpToRel
<1> QED
  BY <1>1, <1>2, <1>3

\* The partial sums exist, for subsets of n elements after those of fewer.
LEMMA CumulatesExists ==
  ASSUME NEW S, IsFiniteSet(S), NEW f
  PROVE  \E iter : Cumulates(iter, f, S)
<1> DEFINE Ch(s) == CHOOSE x \in s : TRUE
           Upto(n) == {s \in SUBSET S : Cardinality(s) <= n}
           Good(g, n) == g = [s \in Upto(n) |->
                                IF s = {} THEN 0 ELSE f[Ch(s)] + g[s \ {Ch(s)}]]
           T == {n \in Nat : \E g : Good(g, n)}
<1>0. \A s \in SUBSET S : Cardinality(s) \in Nat
  BY FS_Subset, FS_CardinalityType
<1>1. \A s \in SUBSET S : s # {} =>
         /\ s \ {Ch(s)} \in SUBSET S
         /\ Cardinality(s) \in Nat /\ Cardinality(s \ {Ch(s)}) = Cardinality(s) - 1
  BY Without
<1>2. 0 \in T
  <2>1. \A s \in Upto(0) : s = {}
    BY <1>1, FS_CardinalityType, FS_Subset
  <2>2. Good([s \in Upto(0) |-> 0], 0)
    BY <2>1
  <2> QED
    BY <2>2
<1>3. ASSUME NEW n \in T PROVE n + 1 \in T
  <2>1. PICK g : Good(g, n)
    OBVIOUS
  <2> DEFINE h == [s \in Upto(n + 1) |->
                     IF s \in Upto(n) THEN g[s]
                     ELSE IF s = {} THEN 0 ELSE f[Ch(s)] + g[s \ {Ch(s)}]]
  <2>2. ASSUME NEW s \in Upto(n + 1), s # {}
        PROVE  h[s] = f[Ch(s)] + h[s \ {Ch(s)}]
    <3>1. s \ {Ch(s)} \in Upto(n) /\ s \ {Ch(s)} \in Upto(n + 1)
      BY <1>1, <2>2
    <3>2. h[s \ {Ch(s)}] = g[s \ {Ch(s)}]
      BY <3>1
    <3>3. h[s] = f[Ch(s)] + g[s \ {Ch(s)}]
      BY <2>1, <2>2
    <3> QED
      BY <3>2, <3>3
  <2>3. ASSUME NEW s \in Upto(n + 1), s = {}
        PROVE  h[s] = 0
    BY <2>1, <2>3
  <2>4. Good(h, n + 1)
    <3>2. h = [s \in Upto(n + 1) |-> h[s]]
      OBVIOUS
    <3> HIDE DEF h, Upto, Ch
    <3>1. \A s \in Upto(n + 1) :
             h[s] = IF s = {} THEN 0 ELSE f[Ch(s)] + h[s \ {Ch(s)}]
      BY <2>2, <2>3
    <3> QED
      BY <3>1, <3>2
  <2>5. n + 1 \in Nat
    OBVIOUS
  <2> HIDE DEF Good
  <2> QED
    BY <2>4, <2>5
<1>4. Cardinality(S) \in Nat
  BY FS_CardinalityType
<1>5. Cardinality(S) \in T
  <2>1. T \subseteq Nat
    OBVIOUS
  <2> HIDE DEF T
  <2> QED
    BY <1>2, <1>3, <1>4, <2>1, Counting
<1>6. Upto(Cardinality(S)) = SUBSET S
  BY FS_Subset
<1> QED
  BY <1>5, <1>6 DEF Cumulates

LEMMA Distribute ==
  ASSUME NEW k \in Int, NEW a \in Int, NEW b \in Int
  PROVE  k * (a + b) = k * a + k * b
OBVIOUS

LEMMA Successor ==
  ASSUME NEW n \in Int, NEW c \in Int
  PROVE  (n + 1) * c = n * c + c
OBVIOUS

\* Sums are affine: k times every value and c less gives k times the sum and c less for each.
LEMMA CumulatesAffine ==
  ASSUME NEW S, IsFiniteSet(S), NEW f, NEW g, NEW I, NEW J, NEW k \in Int, NEW c \in Int,
         \A x \in S : f[x] \in Int /\ g[x] = k * f[x] - c,
         Cumulates(I, f, S), Cumulates(J, g, S)
  PROVE  I[S] \in Int /\ J[S] = k * I[S] - Cardinality(S) * c
<1> DEFINE Ch(s) == CHOOSE x \in s : TRUE
           Upto(n) == {s \in SUBSET S : Cardinality(s) <= n}
           T == {n \in Nat : \A s \in Upto(n) :
                   I[s] \in Int /\ J[s] = k * I[s] - Cardinality(s) * c}
<1>1. \A s \in SUBSET S : s # {} =>
         /\ Ch(s) \in s /\ s \ {Ch(s)} \in SUBSET S
         /\ Cardinality(s) \in Nat /\ Cardinality(s \ {Ch(s)}) = Cardinality(s) - 1
         /\ Cardinality(s \ {Ch(s)}) \in Nat
  BY Without
<1>2. ASSUME NEW s \in SUBSET S, s = {}
      PROVE  I[s] \in Int /\ J[s] = k * I[s] - Cardinality(s) * c
  <2>1. I[s] = 0 /\ J[s] = 0
    BY <1>2 DEF Cumulates
  <2>2. Cardinality(s) = 0
    BY <1>2, FS_EmptySet
  <2> QED
    BY <2>1, <2>2
<1>3. 0 \in T
  <2>1. ASSUME NEW s \in Upto(0), s # {} PROVE FALSE
    <3>1. Cardinality(s) <= 0 /\ s \in SUBSET S
      OBVIOUS
    <3>2. Cardinality(s) \in Nat /\ Cardinality(s) - 1 \in Nat
      BY <1>1, <2>1, <3>1
    <3> QED
      BY <3>1, <3>2
  <2> HIDE DEF Upto
  <2>2. \A s \in Upto(0) : s \in SUBSET S
    BY DEF Upto
  <2> QED
    BY <1>2, <2>1, <2>2
<1>4. ASSUME NEW n \in T PROVE n + 1 \in T
  <2> SUFFICES ASSUME NEW s \in Upto(n + 1)
               PROVE  I[s] \in Int /\ J[s] = k * I[s] - Cardinality(s) * c
    OBVIOUS
  <2>1. CASE s = {}
    BY <1>2, <2>1
  <2>2. CASE s # {}
    <3> DEFINE x == Ch(s)
               r == s \ {x}
    <3>1. x \in S /\ r \in Upto(n) /\ Cardinality(r) = Cardinality(s) - 1
          /\ Cardinality(s) \in Nat /\ Cardinality(r) \in Nat
      BY <1>1, <2>2
    <3>2. I[r] \in Int /\ J[r] = k * I[r] - Cardinality(r) * c
      BY <3>1
    <3>3. I[s] = f[x] + I[r] /\ J[s] = g[x] + J[r]
      BY <2>2 DEF Cumulates
    <3>4. f[x] \in Int /\ g[x] = k * f[x] - c
      BY <3>1
    <3> HIDE DEF x, r
    <3>5. I[s] \in Int
      BY <3>2, <3>3, <3>4
    <3>6. k * (f[x] + I[r]) = k * f[x] + k * I[r]
      BY <3>2, <3>4, Distribute
    <3>7. Cardinality(s) * c = Cardinality(r) * c + c
      <4>1. Cardinality(r) \in Int /\ Cardinality(s) = Cardinality(r) + 1
        BY <3>1
      <4> QED
        BY <4>1, Successor
    <3>8. k * f[x] \in Int /\ k * I[r] \in Int /\ Cardinality(r) * c \in Int
      BY <3>1, <3>2, <3>4
    <3> QED
      BY <3>2, <3>3, <3>4, <3>5, <3>6, <3>7, <3>8
  <2> QED
    BY <2>1, <2>2
<1>5. Cardinality(S) \in Nat
  BY FS_CardinalityType
<1>6. Cardinality(S) \in T
  <2>1. T \subseteq Nat
    OBVIOUS
  <2> HIDE DEF T
  <2> QED
    BY <1>3, <1>4, <1>5, <2>1, Counting
<1> QED
  BY <1>5, <1>6

\* v is the sum of f over S.
SumOf(v, f, S) == \E iter : Cumulates(iter, f, S) /\ v = iter[S]

\* MapThenSumSet is a sum, of rewards, of advantages, of weights and of shares.
LEMMA RewardsSum ==
  ASSUME NEW S, IsFiniteSet(S)
  PROVE  SumOf(MapThenSumSet(Reward, S), [x \in S |-> Reward(x)], S)
<1> DEFINE F == [x \in S |-> Reward(x)]
           Made(g) == g = [s \in SUBSET S |->
                             IF s = {} THEN 0
                             ELSE Reward(CHOOSE x \in s : TRUE)
                                    + g[s \ {CHOOSE x \in s : TRUE}]]
           iter == CHOOSE g : Made(g)
<1>1. \A g : Made(g) <=> Cumulates(g, F, S)
  <2>1. \A s \in SUBSET S : s # {} =>
          Reward(CHOOSE x \in s : TRUE) = F[CHOOSE x \in s : TRUE]
    OBVIOUS
  <2> HIDE DEF F
  <2> QED
    BY <2>1 DEF Cumulates
<1>2. MapThenSumSet(Reward, S) = iter[S]
  BY DEF MapThenSumSet, MapThenFoldSet
<1> HIDE DEF F, Made
<1>3. Made(iter)
  BY <1>1, CumulatesExists
<1> HIDE DEF iter
<1>4. SumOf(MapThenSumSet(Reward, S), F, S)
  BY <1>1, <1>2, <1>3 DEF SumOf
<1> QED
  BY <1>4 DEF F

LEMMA AdvantagesSum ==
  ASSUME NEW S, IsFiniteSet(S)
  PROVE  SumOf(MapThenSumSet(Advantage, S), [x \in S |-> Advantage(x)], S)
<1> DEFINE F == [x \in S |-> Advantage(x)]
           Made(g) == g = [s \in SUBSET S |->
                             IF s = {} THEN 0
                             ELSE Advantage(CHOOSE x \in s : TRUE)
                                    + g[s \ {CHOOSE x \in s : TRUE}]]
           iter == CHOOSE g : Made(g)
<1>1. \A g : Made(g) <=> Cumulates(g, F, S)
  <2>1. \A s \in SUBSET S : s # {} =>
          Advantage(CHOOSE x \in s : TRUE) = F[CHOOSE x \in s : TRUE]
    OBVIOUS
  <2> HIDE DEF F
  <2> QED
    BY <2>1 DEF Cumulates
<1>2. MapThenSumSet(Advantage, S) = iter[S]
  BY DEF MapThenSumSet, MapThenFoldSet
<1> HIDE DEF F, Made
<1>3. Made(iter)
  BY <1>1, CumulatesExists
<1> HIDE DEF iter
<1>4. SumOf(MapThenSumSet(Advantage, S), F, S)
  BY <1>1, <1>2, <1>3 DEF SumOf
<1> QED
  BY <1>4 DEF F

LEMMA WeightsSum ==
  ASSUME NEW S, IsFiniteSet(S)
  PROVE  SumOf(MapThenSumSet(LAMBDA s : s.weight, S), [x \in S |-> x.weight], S)
<1> DEFINE F == [x \in S |-> x.weight]
           Made(g) == g = [s \in SUBSET S |->
                             IF s = {} THEN 0
                             ELSE (CHOOSE x \in s : TRUE).weight
                                    + g[s \ {CHOOSE x \in s : TRUE}]]
           iter == CHOOSE g : Made(g)
<1>1. \A g : Made(g) <=> Cumulates(g, F, S)
  <2>1. \A s \in SUBSET S : s # {} =>
          (CHOOSE x \in s : TRUE).weight = F[CHOOSE x \in s : TRUE]
    OBVIOUS
  <2> HIDE DEF F
  <2> QED
    BY <2>1 DEF Cumulates
<1>2. MapThenSumSet(LAMBDA s : s.weight, S) = iter[S]
  BY DEF MapThenSumSet, MapThenFoldSet
<1> HIDE DEF F, Made
<1>3. Made(iter)
  BY <1>1, CumulatesExists
<1> HIDE DEF iter
<1>4. SumOf(MapThenSumSet(LAMBDA s : s.weight, S), F, S)
  BY <1>1, <1>2, <1>3 DEF SumOf
<1> QED
  BY <1>4 DEF F

LEMMA SharesSum ==
  ASSUME NEW e, NEW S, IsFiniteSet(S)
  PROVE  SumOf(MapThenSumSet(LAMBDA a : Share(e, a), S), [x \in S |-> Share(e, x)], S)
<1> DEFINE F == [x \in S |-> Share(e, x)]
           Made(g) == g = [s \in SUBSET S |->
                             IF s = {} THEN 0
                             ELSE Share(e, (CHOOSE x \in s : TRUE))
                                    + g[s \ {CHOOSE x \in s : TRUE}]]
           iter == CHOOSE g : Made(g)
<1>1. \A g : Made(g) <=> Cumulates(g, F, S)
  <2>1. \A s \in SUBSET S : s # {} =>
          Share(e, (CHOOSE x \in s : TRUE)) = F[CHOOSE x \in s : TRUE]
    OBVIOUS
  <2> HIDE DEF F
  <2> QED
    BY <2>1 DEF Cumulates
<1>2. MapThenSumSet(LAMBDA a : Share(e, a), S) = iter[S]
  BY DEF MapThenSumSet, MapThenFoldSet
<1> HIDE DEF F, Made
<1>3. Made(iter)
  BY <1>1, CumulatesExists
<1> HIDE DEF iter
<1>4. SumOf(MapThenSumSet(LAMBDA a : Share(e, a), S), F, S)
  BY <1>1, <1>2, <1>3 DEF SumOf
<1> QED
  BY <1>4 DEF F

\* g is k times f, and c less.
Affinely(g, k, f, c, S) == \A x \in S : f[x] \in Int /\ g[x] = k * f[x] - c

LEMMA SumsAffine ==
  ASSUME NEW S, IsFiniteSet(S), NEW f, NEW g, NEW k \in Int, NEW c \in Int, NEW u, NEW v,
         Affinely(g, k, f, c, S), SumOf(u, f, S), SumOf(v, g, S)
  PROVE  u \in Int /\ v = k * u - Cardinality(S) * c
<1>1. PICK I : Cumulates(I, f, S) /\ u = I[S]
  BY DEF SumOf
<1>2. PICK J : Cumulates(J, g, S) /\ v = J[S]
  BY DEF SumOf
<1>3. I[S] \in Int /\ J[S] = k * I[S] - Cardinality(S) * c
  BY <1>1, <1>2, CumulatesAffine DEF Affinely
<1> QED
  BY <1>1, <1>2, <1>3

\* Equal values add up to their product.
LEMMA SumConstant ==
  ASSUME NEW S, IsFiniteSet(S), NEW g, NEW c \in Int, NEW v,
         \A x \in S : g[x] = c, SumOf(v, g, S)
  PROVE  v = Cardinality(S) * c
<1> DEFINE f == [x \in S |-> 0]
<1>1. Affinely(g, 0, f, -c, S)
  BY DEF Affinely
<1>2. PICK iter : Cumulates(iter, f, S)
  BY CumulatesExists
<1> HIDE DEF f
<1>3. SumOf(iter[S], f, S)
  BY <1>2 DEF SumOf
<1>4. iter[S] \in Int /\ v = 0 * iter[S] - Cardinality(S) * (-c)
  <2>1. 0 \in Int /\ -c \in Int
    OBVIOUS
  <2> QED
    BY <1>1, <1>3, <2>1, SumsAffine
<1>5. Cardinality(S) \in Nat
  BY FS_CardinalityType
<1>6. Cardinality(S) * (-c) = -(Cardinality(S) * c) /\ Cardinality(S) * c \in Int
  BY <1>5
<1> QED
  BY <1>4, <1>6

-----------------------------------------------------------------------------
(* Advantages *)

\* The rollouts of a task, counted.
LEMMA GroupsAre ==
  ASSUME NEW t \in Tasks
  PROVE  /\ GroupOf(t) \subseteq Episodes /\ GroupOf(t) # {}
         /\ IsFiniteSet(GroupOf(t)) /\ Cardinality(GroupOf(t)) = Rollouts
<1> DEFINE b == [i \in 1 .. Rollouts |-> <<t, i>>]
<1>1. Rollouts \in Nat \ {0, 1}
  BY BatchAssumption
<1>2. GroupOf(t) = {<<t, i>> : i \in 1 .. Rollouts}
  BY DEF GroupOf, Episodes, TaskOf
<1>3. b \in Bijection(1 .. Rollouts, GroupOf(t))
  BY <1>2 DEF Bijection, Injection, Surjection, IsInjective
<1> HIDE DEF b
<1>4. IsFiniteSet(1 .. Rollouts) /\ Cardinality(1 .. Rollouts) = Rollouts
  BY <1>1, FS_Interval
<1>5. ExistsBijection(1 .. Rollouts, GroupOf(t))
  BY <1>3 DEF ExistsBijection
<1>6. IsFiniteSet(GroupOf(t)) /\ Cardinality(GroupOf(t)) = Rollouts
  BY <1>4, <1>5, FS_Bijection
<1>7. <<t, 1>> \in GroupOf(t)
  BY <1>1, <1>2
<1> QED
  BY <1>6, <1>7 DEF GroupOf

\* A finished score is a number.
LEMMA ScoresTyped ==
  ASSUME BInv, NEW e \in Episodes, pc[e] = "scored", trace[e].ok
  PROVE  Score(e) \in Int
<1>1. Open(e) = {}
  BY DEF BInv, JInv, ScoredInFull
<1>2. Scale \in Int /\ IsFiniteSet(Keys) /\ References \subseteq Keys /\ References # {}
  BY ScaleAssumption, BatchAssumption
<1>3. CASE trace[e].answer = Malformed
  BY <1>3 DEF Score
<1>4. CASE trace[e].answer # Malformed /\ TaskOf(e) \in boxed
  BY <1>2, <1>4 DEF Score, BoxedScore
<1>5. CASE trace[e].answer # Malformed /\ TaskOf(e) \notin boxed
  <2>1. Rows(e) \subseteq Keys
    <3>1. trace[e].answer \in Tables
      BY <1>5 DEF BInv, TypeOK, Trace
    <3> QED
      BY <3>1 DEF Tables, Rows
  <2>2. Matched(e) \subseteq Keys /\ Matched(e) \ Doubtful(e) \subseteq Keys
    BY <2>1 DEF Matched
  <2>3. \A X \in SUBSET Keys : IsFiniteSet(X) /\ Cardinality(X) \in Nat
    BY <1>2, FS_Subset, FS_CardinalityType
  <2>4. Doubtful(e) # {} => YesOf(got[e], CellQuestion(e)) \subseteq Keys
    <3> SUFFICES ASSUME Doubtful(e) # {} PROVE YesOf(got[e], CellQuestion(e)) \subseteq Keys
      OBVIOUS
    <3>1. Asked(got[e], CellQuestion(e))
      BY <1>1, <1>5 DEF Open
    <3>2. got[e] \in SUBSET Verdict
      BY DEF BInv, TypeOK
    <3>3. [q |-> CellQuestion(e), yes |-> YesOf(got[e], CellQuestion(e))] \in Verdict
      BY <3>1, <3>2, YesTyped
    <3> QED
      BY <3>3 DEF Verdict
  <2> DEFINE cells == IF Doubtful(e) = {} THEN 0
                      ELSE Cardinality(YesOf(got[e], CellQuestion(e)))
             hits == Cardinality(Matched(e)) + Cardinality(Matched(e) \ Doubtful(e)) + cells
             items == 2 * (Cardinality(Rows(e)) + Cardinality(References))
  <2>5. cells \in Nat
    BY <2>3, <2>4
  <2>6. Cardinality(Matched(e)) \in Nat /\ Cardinality(Matched(e) \ Doubtful(e)) \in Nat
    BY <2>2, <2>3
  <2>7. Cardinality(Rows(e)) \in Nat /\ Cardinality(References) \in Nat
    BY <1>2, <2>1, <2>3
  <2>8. Cardinality(References) > 0
    <3>1. IsFiniteSet(References)
      BY <1>2, <2>3
    <3>2. Cardinality(References) # 0
      BY <1>2, <3>1, FS_EmptySet
    <3> QED
      BY <2>7, <3>2
  <2>9. TableScore(e) = (2 * hits * Scale) \div items
    BY DEF TableScore
  <2> HIDE DEF cells
  <2>10. hits \in Nat /\ items \in Nat /\ items > 0
    BY <2>5, <2>6, <2>7, <2>8
  <2> HIDE DEF hits, items
  <2>11. 2 * hits * Scale \in Int
    BY <1>2, <2>10
  <2>12. TableScore(e) \in Int
    BY <2>9, <2>10, <2>11
  <2> QED
    BY <1>5, <2>12 DEF Score
<1> QED
  BY <1>3, <1>4, <1>5

LEMMA RewardsTyped ==
  ASSUME BInv, NEW e \in Episodes, pc[e] = "scored"
  PROVE  Reward(e) \in Int
<1>1. trace[e].shape \in Shapes
  BY DEF BInv, TypeOK, Trace
<1>2. trace[e].shape.extra \in Int /\ FailedOutcome \in Int
  BY <1>1, ScaleAssumption
<1>3. CASE trace[e].ok
  <2>1. Score(e) \in Int
    BY <1>3, ScoresTyped
  <2> QED
    BY <1>2, <1>3, <2>1 DEF Reward
<1> QED
  BY <1>2, <1>3 DEF Reward

\* The difference of each reward to the mean adds up to nothing.
LEMMA AdvantagesCancel ==
  ASSUME BInv, \A e \in Episodes : pc[e] = "scored", NEW t \in Tasks
  PROVE  MapThenSumSet(Advantage, GroupOf(t)) = 0
<1> DEFINE G == GroupOf(t)
           total == MapThenSumSet(Reward, G)
           gained == MapThenSumSet(Advantage, G)
           f == [x \in G |-> Reward(x)]
           g == [x \in G |-> Advantage(x)]
<1>1. G \subseteq Episodes /\ IsFiniteSet(G) /\ Cardinality(G) = Rollouts
  BY GroupsAre
<1>2. SumOf(total, f, G) /\ SumOf(gained, g, G)
  BY <1>1, RewardsSum, AdvantagesSum
<1>3. ASSUME NEW x \in G PROVE f[x] \in Int /\ g[x] = Rollouts * f[x] - total
  <2>1. Reward(x) \in Int
    BY <1>1, RewardsTyped
  <2>2. TaskOf(x) = t
    BY DEF GroupOf
  <2>3. Advantage(x) = Rollouts * Reward(x) - total
    BY <2>2 DEF Advantage
  <2>4. f[x] = Reward(x) /\ g[x] = Advantage(x)
    OBVIOUS
  <2> QED
    BY <2>1, <2>3, <2>4
<1>4. Rollouts \in Int /\ 1 \in Int /\ 0 \in Int
  BY BatchAssumption
<1> HIDE DEF f, g, total, gained, G
<1>5. total \in Int
  <2>1. Affinely(f, 1, f, 0, G)
    BY <1>3 DEF Affinely
  <2> QED
    BY <1>1, <1>2, <1>4, <2>1, SumsAffine
<1>6. gained = Rollouts * total - Cardinality(G) * total
  <2>1. Affinely(g, Rollouts, f, total, G)
    BY <1>3 DEF Affinely
  <2>2. IsFiniteSet(G) /\ SumOf(total, f, G) /\ SumOf(gained, g, G)
    BY <1>1, <1>2
  <2>3. Rollouts \in Int /\ total \in Int
    BY <1>4, <1>5
  <2>4. \A k, c \in Int :
          Affinely(g, k, f, c, G) => gained = k * total - Cardinality(G) * c
    BY <2>2, SumsAffine
  <2> QED
    BY <2>1, <2>3, <2>4
<1>7. Rollouts * total \in Int
  BY <1>4, <1>5
<1>8. gained = 0
  BY <1>1, <1>6, <1>7
<1> QED
  BY <1>8 DEF G, gained

-----------------------------------------------------------------------------
(* Weights *)

\* The samples of a built batch, with some advantage for each episode.
Sampled(adv) ==
  UNION {UNION {{[of |-> e, agent |-> a, step |-> i, weight |-> Weight(e, a),
                  advantage |-> adv[e]] : i \in 1 .. StepsOf(e, a)} : a \in Agents(e)} :
           e \in Episodes}

\* A batch is built from scores of all rollouts, and stays until the next phase begins.
Whole ==
  build = "built" =>
    /\ \A e \in Episodes : pc[e] = "scored"
    /\ \E adv : batch = Sampled(adv)

\* What the agents of an episode took part in.
LEMMA AgentsAre ==
  ASSUME TypeOK, NEW e \in Episodes
  PROVE  /\ IsFiniteSet(Agents(e))
         /\ \A a \in Agents(e) :
              /\ StepsOf(e, a) \in Nat \ {0}
              /\ \A n \in 1 .. Cardinality(Agents(e)) : Scale % (StepsOf(e, a) * n) = 0
<1> DEFINE s == trace[e].shape
<1>1. s \in Shapes
  BY DEF TypeOK, Trace
<1> HIDE DEF s
<1>2. IsFiniteSet(DOMAIN s.steps)
  BY <1>1, ScaleAssumption
<1>3. Agents(e) \subseteq DOMAIN s.steps
  BY DEF Agents, s
<1>4. /\ IsFiniteSet(Agents(e))
      /\ Cardinality(Agents(e)) <= Cardinality(DOMAIN s.steps)
  BY <1>2, <1>3, FS_Subset
<1>5. Cardinality(Agents(e)) \in Nat /\ Cardinality(DOMAIN s.steps) \in Nat
  BY <1>2, <1>4, FS_CardinalityType
<1>6. ASSUME NEW a \in Agents(e)
      PROVE  /\ StepsOf(e, a) \in Nat \ {0}
             /\ \A n \in 1 .. Cardinality(Agents(e)) : Scale % (StepsOf(e, a) * n) = 0
  <2>1. a \in DOMAIN s.steps /\ StepsOf(e, a) = s.steps[a] /\ StepsOf(e, a) > 0
    BY <1>3 DEF Agents, StepsOf, s
  <2>2. /\ s.steps[a] \in Nat
        /\ s.steps[a] > 0 =>
             \A n \in 1 .. Cardinality(DOMAIN s.steps) : Scale % (s.steps[a] * n) = 0
    BY <1>1, <2>1, ScaleAssumption
  <2>3. 1 .. Cardinality(Agents(e)) \subseteq 1 .. Cardinality(DOMAIN s.steps)
    BY <1>4, <1>5
  <2>4. StepsOf(e, a) \in Nat \ {0}
    BY <2>1, <2>2
  <2> QED
    BY <2>1, <2>2, <2>3, <2>4
<1> QED
  BY <1>4, <1>6

\* A number that d divides.
LEMMA Divided ==
  ASSUME NEW m \in Nat, NEW d \in Nat \ {0}, m % d = 0
  PROVE  m \div d \in Int /\ m = d * (m \div d)
OBVIOUS

LEMMA Regrouped ==
  ASSUME NEW a \in Int, NEW b \in Int, NEW c \in Int
  PROVE  a * b \in Int /\ a * c \in Int /\ (a * b) * c = b * (a * c)
OBVIOUS

\* The steps of an agent weigh, together, as much as its part of one.
LEMMA SharesAre ==
  ASSUME TypeOK, NEW adv, batch = Sampled(adv), NEW e \in Episodes, NEW a \in Agents(e)
  PROVE  Share(e, a) \in Int /\ Cardinality(Agents(e)) * Share(e, a) = Scale
<1> DEFINE n == Cardinality(Agents(e))
           k == StepsOf(e, a)
           w == Weight(e, a)
           X == {s \in batch : s.of = e /\ s.agent = a}
           sample(i) == [of |-> e, agent |-> a, step |-> i, weight |-> w, advantage |-> adv[e]]
           b == [i \in 1 .. k |-> sample(i)]
           share == MapThenSumSet(LAMBDA s : s.weight, X)
           g == [x \in X |-> x.weight]
<1>1. IsFiniteSet(Agents(e)) /\ k \in Nat \ {0} /\ \A m \in 1 .. n : Scale % (k * m) = 0
  BY AgentsAre
<1>2. n \in Nat /\ n # 0
  BY <1>1, FS_CardinalityType, FS_EmptySet
<1>3. Scale \in Nat
  BY ScaleAssumption
<1>4. w = Scale \div (k * n)
  BY DEF Weight
<1>5. X = {sample(i) : i \in 1 .. k}
  <2>1. ASSUME NEW i \in 1 .. k PROVE sample(i) \in X
    <3>1. sample(i) \in batch
      BY DEF Sampled
    <3> QED
      BY <3>1
  <2>2. ASSUME NEW s \in X PROVE \E i \in 1 .. k : s = sample(i)
    <3>1. PICK d \in Episodes : \E c \in Agents(d) : \E i \in 1 .. StepsOf(d, c) :
            s = [of |-> d, agent |-> c, step |-> i, weight |-> Weight(d, c),
                 advantage |-> adv[d]]
      BY DEF Sampled
    <3>2. PICK c \in Agents(d) : \E i \in 1 .. StepsOf(d, c) :
            s = [of |-> d, agent |-> c, step |-> i, weight |-> Weight(d, c),
                 advantage |-> adv[d]]
      BY <3>1
    <3>3. s.of = d /\ s.agent = c
      BY <3>2
    <3>4. d = e /\ c = a
      BY <3>3
    <3> QED
      BY <3>2, <3>4
  <2> HIDE DEF X, sample
  <2> QED
    BY <2>1, <2>2
<1>6. b \in Bijection(1 .. k, X)
  <2>1. \A i \in 1 .. k : b[i] \in X
    BY <1>5
  <2>2. \A i, j \in 1 .. k : b[i] = b[j] => i = j
    <3>1. \A i \in 1 .. k : b[i].step = i
      OBVIOUS
    <3> QED
      BY <3>1
  <2>3. \A s \in X : \E i \in 1 .. k : b[i] = s
    BY <1>5
  <2>4. b = [i \in 1 .. k |-> b[i]]
    OBVIOUS
  <2> HIDE DEF b, X, k
  <2> QED
    BY <2>1, <2>2, <2>3, <2>4 DEF Bijection, Injection, Surjection, IsInjective
<1>7. IsFiniteSet(X) /\ Cardinality(X) = k
  <2>1. IsFiniteSet(1 .. k) /\ Cardinality(1 .. k) = k
    BY <1>1, FS_Interval
  <2>2. ExistsBijection(1 .. k, X)
    BY <1>6 DEF ExistsBijection
  <2> HIDE DEF X, k
  <2> QED
    BY <2>1, <2>2, FS_Bijection
<1>8. \A x \in X : g[x] = w
  BY <1>5
<1>9. SumOf(share, g, X)
  BY <1>7, WeightsSum
<1>10. Share(e, a) = share
  BY DEF Share
<1> HIDE DEF n, k, w, X, b, share, g
<1>11. k * n \in Nat \ {0} /\ Scale % (k * n) = 0
  <2>1. n \in 1 .. n
    BY <1>2
  <2> QED
    BY <1>1, <1>2, <2>1
<1>12. w \in Int /\ Scale = (k * n) * w
  BY <1>3, <1>4, <1>11, Divided
<1>13. share = k * w
  BY <1>7, <1>8, <1>9, <1>12, SumConstant
<1>14. k \in Int /\ n \in Int
  BY <1>1, <1>2
<1>15. (k * n) * w = n * (k * w) /\ k * w \in Int
  BY <1>12, <1>14, Regrouped
<1>16. share \in Int /\ n * share = Scale
  BY <1>12, <1>13, <1>15
<1> QED
  BY <1>10, <1>16 DEF n

LEMMA Cancelled ==
  ASSUME NEW n \in Nat \ {0}, NEW a \in Int, NEW b \in Int, n * a = n * b
  PROVE  a = b
<1> SUFFICES ASSUME a # b PROVE FALSE
  OBVIOUS
<1>1. n * (a - b) = n * a - n * b /\ n * a \in Int
  OBVIOUS
<1>2. n * (a - b) = 0
  BY <1>1
<1>3. a - b > 0 \/ a - b < 0
  OBVIOUS
<1> QED
  BY <1>2, <1>3

\* All agents of an episode have the same part, and together the whole.
LEMMA EpisodesWeighOne ==
  ASSUME TypeOK, NEW adv, batch = Sampled(adv), NEW e \in Episodes, Agents(e) # {}
  PROVE  /\ MapThenSumSet(LAMBDA a : Share(e, a), Agents(e)) = Scale
         /\ \A a, b \in Agents(e) : Share(e, a) = Share(e, b)
<1> DEFINE A == Agents(e)
           n == Cardinality(A)
           whole == MapThenSumSet(LAMBDA a : Share(e, a), A)
           g == [a \in A |-> Share(e, a)]
<1>1. IsFiniteSet(A)
  BY AgentsAre
<1>2. n \in Nat \ {0}
  BY <1>1, FS_CardinalityType, FS_EmptySet
<1>3. \A a \in A : Share(e, a) \in Int /\ n * Share(e, a) = Scale
  BY SharesAre
<1>4. SumOf(whole, g, A)
  BY <1>1, SharesSum
<1>5. PICK a0 \in A : TRUE
  OBVIOUS
<1> HIDE DEF n
<1>6. \A a \in A : Share(e, a) = Share(e, a0)
  <2> SUFFICES ASSUME NEW a \in A PROVE Share(e, a) = Share(e, a0)
    OBVIOUS
  <2>1. /\ Share(e, a) \in Int /\ Share(e, a0) \in Int
        /\ n * Share(e, a) = n * Share(e, a0)
    BY <1>3
  <2> QED
    BY <1>2, <2>1, Cancelled
<1>7. \A a \in A : g[a] = Share(e, a0)
  BY <1>6
<1> HIDE DEF A, whole, g
<1>8. whole = Cardinality(A) * Share(e, a0)
  BY <1>1, <1>3, <1>4, <1>5, <1>7, SumConstant
<1>9. whole = Scale
  BY <1>3, <1>5, <1>8 DEF n
<1> QED
  BY <1>6, <1>9 DEF A, whole

\* The samples depend on the traces and the phase.
LEMMA SamplesStay ==
  ASSUME NEW adv, trace' = trace, phase' = phase
  PROVE  Sampled(adv)' = Sampled(adv)
<1>1. \A e, a : StepsOf(e, a)' = StepsOf(e, a) /\ Trained(a)' = Trained(a)
  BY DEF StepsOf, Trained
<1>2. \A e : Agents(e)' = Agents(e)
  BY <1>1 DEF Agents
<1>3. \A e, a : Weight(e, a)' = Weight(e, a)
  BY <1>1, <1>2 DEF Weight
<1> QED
  BY <1>1, <1>2, <1>3 DEF Sampled

LEMMA WholeInit == Init => Whole
BY DEF Init, Whole

\* A built batch is left alone until the next phase.
LEMMA WholeStep == BInv /\ Whole /\ [Next]_vars => Whole'
<1> SUFFICES ASSUME BInv, Whole, [Next]_vars PROVE Whole'
  OBVIOUS
<1>1. CASE Build
  <2> DEFINE adv == [e \in Episodes |-> Advantage(e)]
  <2>1. batch' = Sampled(adv)
    BY <1>1 DEF Build, SamplesOf, Sampled
  <2>2. pc' = pc /\ trace' = trace /\ phase' = phase /\ \A e \in Episodes : pc[e] = "scored"
    BY <1>1 DEF Build
  <2> HIDE DEF adv
  <2> QED
    BY <2>1, <2>2, SamplesStay DEF Whole
<1>2. CASE NextPhase
  BY <1>2 DEF NextPhase, Whole
<1>3. CASE BuildRaises
  BY <1>3 DEF BuildRaises, Whole
<1>4. ASSUME NEW t \in Tasks, ScoreGroup(t) \/ EnvironmentDiffers(t) PROVE Whole'
  <2>1. PICK e \in GroupOf(t) : e \in Episodes
    BY GroupsAre
  <2>2. pc[e] = "ran" /\ build' = build
    BY <1>4, <2>1 DEF ScoreGroup, EnvironmentDiffers
  <2> QED
    BY <2>1, <2>2 DEF Whole
<1>5. ASSUME NEW e \in Episodes, EpisodeStep(e) PROVE Whole'
  <2>1. pc[e] # "scored" /\ build' = build
    BY <1>5 DEF EpisodeStep, RolloutEnds, RolloutRaises, Ask, Acquire, EnterSlot, Answered,
                BadReply, JudgeFails, Evaluate
  <2> QED
    BY <2>1 DEF Whole
<1>6. CASE UNCHANGED vars
  <2>1. build' = build /\ pc' = pc /\ trace' = trace /\ phase' = phase /\ batch' = batch
    BY <1>6 DEF vars
  <2> QED
    BY <2>1, SamplesStay DEF Whole
<1> QED
  BY <1>1, <1>2, <1>3, <1>4, <1>5, <1>6 DEF Next, FactoryStep

\* In every batch the advantages of a task's rollouts cancel out, and every episode with
\* samples weighs one, its agents the same, for any rewards, agents and steps
\* (batch.py, normalize_outcome_advantages and build).
THEOREM BatchBalancedAlways == Spec => []BatchBalanced
<1>1. BInv /\ Whole => BatchBalanced
  <2> SUFFICES ASSUME BInv, Whole, build = "built" PROVE BatchBalanced
    BY DEF BatchBalanced
  <2>1. \A e \in Episodes : pc[e] = "scored"
    BY DEF Whole
  <2>2. PICK adv : batch = Sampled(adv)
    BY DEF Whole
  <2>3. \A t \in Tasks : MapThenSumSet(Advantage, GroupOf(t)) = 0
    BY <2>1, AdvantagesCancel
  <2>4. TypeOK
    BY DEF BInv
  <2>5. \A e \in Episodes : Agents(e) # {} =>
          /\ MapThenSumSet(LAMBDA a : Share(e, a), Agents(e)) = Scale
          /\ \A a, b \in Agents(e) : Share(e, a) = Share(e, b)
    BY <2>2, <2>4, EpisodesWeighOne
  <2> QED
    BY <2>3, <2>5 DEF BatchBalanced
<1>2. Spec => []Whole
  BY WholeInit, WholeStep, Invariant, PTL DEF Spec
<1> QED
  BY <1>1, <1>2, Invariant, PTL

=============================================================================
