------------------------ MODULE SpawnEpisode_proofs ------------------------
(***************************************************************************)
(* Proofs about the one-round episodes and the pilot that runs them, for   *)
(* every number of concurrent episodes, of Subs, of permits, of tasks and  *)
(* of repeats: the ledger refuses no Sub (LInv), every trace is one its    *)
(* validator accepts (EInv), what an episode counts adds up (CInv), and    *)
(* so does what the pilot reports and scores (RInv).                       *)
(***************************************************************************)
EXTENDS ApiPilot, FiniteSetTheorems, SequenceTheorems, WellFoundedInduction, TLAPS

-----------------------------------------------------------------------------
(* Concatenations of sequences                                               *)

\* Every set of numbers has a smallest one.
LEMMA Smallest ==
  ASSUME NEW T, T \subseteq Nat, T # {}
  PROVE \E n \in T : \A m \in T : n <= m
<1> DEFINE R == OpToRel(<, Nat)
<1>1. IsWellFoundedOn(R, Nat)
  BY NatLessThanWellFounded
<1>2. ASSUME NEW y \in Nat, NEW x \in Nat, y < x PROVE <<y, x>> \in R
  BY <1>2 DEF OpToRel
<1> HIDE DEF R
<1>3. PICK x \in T : \A y \in T : ~ (<<y, x>> \in R)
  BY <1>1, WFMin, Zenon
<1>4. ASSUME NEW m \in T PROVE x <= m
  <2>1. ~ (<<m, x>> \in R)
    BY <1>3
  <2>2. m \in Nat /\ x \in Nat
    BY <1>3
  <2>3. ~(m < x)
    BY <2>1, <2>2, <1>2
  <2> QED
    BY <2>2, <2>3
<1> QED
  BY <1>3, <1>4

\* Induction, for the numbers with a property.
LEMMA Induction ==
  ASSUME NEW T, T \subseteq Nat, 0 \in T, \A n \in T : n + 1 \in T
  PROVE  \A n \in Nat : n \in T
<1> SUFFICES ASSUME Nat \ T # {} PROVE FALSE
  OBVIOUS
<1>1. PICK n \in Nat \ T : \A m \in Nat \ T : n <= m
  BY Smallest
<1>2. n # 0 /\ n - 1 \in Nat /\ ~(n <= n - 1) /\ (n - 1) + 1 = n
  BY <1>1
<1>3. n - 1 \in T
  BY <1>1, <1>2
<1> QED
  BY <1>1, <1>2, <1>3

\* The partial concatenations that FlattenSeq is defined by.
Concatenates(f, ss, n) ==
  f = [i \in 1 .. n |-> IF i = 1 THEN ss[i] ELSE f[i - 1] \o ss[i]]

LEMMA ConcatenatesExists ==
  ASSUME NEW ss, NEW n \in Nat
  PROVE  \E f : Concatenates(f, ss, n)
<1> DEFINE T == {m \in Nat : \E f : Concatenates(f, ss, m)}
<1>1. 0 \in T
  <2>1. Concatenates([i \in 1 .. 0 |-> ss[i]], ss, 0)
    BY DEF Concatenates
  <2> QED
    BY <2>1
<1>2. ASSUME NEW m \in T PROVE m + 1 \in T
  <2>1. PICK f : Concatenates(f, ss, m)
    OBVIOUS
  <2> DEFINE g == [i \in 1 .. m + 1 |->
                     IF i \in 1 .. m THEN f[i] ELSE IF i = 1 THEN ss[i] ELSE f[i - 1] \o ss[i]]
  <2>2. ASSUME NEW i \in 1 .. m + 1
        PROVE  g[i] = IF i = 1 THEN ss[i] ELSE g[i - 1] \o ss[i]
    <3>1. CASE i \in 1 .. m
      <4>1. g[i] = f[i] /\ (i # 1 => i - 1 \in 1 .. m /\ g[i - 1] = f[i - 1])
        BY <3>1
      <4>2. f[i] = IF i = 1 THEN ss[i] ELSE f[i - 1] \o ss[i]
        BY <2>1, <3>1 DEF Concatenates
      <4> QED
        BY <4>1, <4>2
    <3>2. CASE i \notin 1 .. m
      <4>1. i # 1 => i - 1 \in 1 .. m /\ g[i - 1] = f[i - 1]
        BY <3>2
      <4> QED
        BY <3>2, <4>1
    <3> QED
      BY <3>1, <3>2
  <2>3. Concatenates(g, ss, m + 1)
    BY <2>2 DEF Concatenates
  <2> QED
    BY <2>3
<1> HIDE DEF T
<1>3. n \in T
  BY <1>1, <1>2, Induction DEF T
<1> QED
  BY <1>3 DEF T

LEMMA FlattenIs ==
  ASSUME NEW ss, Len(ss) \in Nat \ {0}
  PROVE  \E f : Concatenates(f, ss, Len(ss)) /\ FlattenSeq(ss) = f[Len(ss)]
<1>1. FlattenSeq(ss) = (CHOOSE f : Concatenates(f, ss, Len(ss)))[Len(ss)]
  BY DEF FlattenSeq, Concatenates
<1> QED
  BY <1>1, ConcatenatesExists

\* Where the parts of a concatenation lie: at[i] is the length of the first i of them.
Lies(at, ss) ==
  /\ at \in [0 .. Len(ss) -> Nat]
  /\ at[0] = 0
  /\ \A i \in 1 .. Len(ss) : at[i] = at[i - 1] + Len(ss[i])

\* The first at[n] elements of s are those of the first n parts, in order.
Holds(s, at, ss, n) ==
  /\ \A i \in 1 .. n, j \in Nat :
       j \in 1 .. Len(ss[i]) => at[i - 1] + j \in 1 .. at[n] /\ s[at[i - 1] + j] = ss[i][j]
  /\ \A k \in 1 .. at[n] : \E i \in 1 .. n : k - at[i - 1] \in 1 .. Len(ss[i])

LEMMA ConcatIs ==
  ASSUME NEW S, NEW a \in Seq(S), NEW b \in Seq(S)
  PROVE  /\ a \o b \in Seq(S) /\ Len(a \o b) = Len(a) + Len(b)
         /\ \A k \in 1 .. Len(a \o b) :
              (a \o b)[k] = IF k <= Len(a) THEN a[k] ELSE b[k - Len(a)]
OBVIOUS

LEMMA FlattenLayout ==
  ASSUME NEW S, NEW ss \in Seq(Seq(S))
  PROVE  /\ FlattenSeq(ss) \in Seq(S)
         /\ \E at : /\ Lies(at, ss)
                    /\ Len(FlattenSeq(ss)) = at[Len(ss)]
                    /\ Holds(FlattenSeq(ss), at, ss, Len(ss))
<1> DEFINE n == Len(ss)
<1>0. n \in Nat /\ DOMAIN ss = 1 .. n
  OBVIOUS
<1>1. CASE n = 0
  <2>1. FlattenSeq(ss) = ss /\ ss = << >>
    BY <1>1 DEF FlattenSeq
  <2>2. Lies([i \in 0 .. Len(ss) |-> 0], ss)
    BY <2>1 DEF Lies
  <2>3. Holds(ss, [i \in 0 .. Len(ss) |-> 0], ss, Len(ss))
    BY <2>1 DEF Holds
  <2> QED
    BY <2>1, <2>2, <2>3
<1>2. CASE n # 0
  <2>1. PICK f : Concatenates(f, ss, n) /\ FlattenSeq(ss) = f[n]
    BY <1>0, <1>2, FlattenIs
  <2> HIDE DEF n
  <2> DEFINE at == [i \in 0 .. n |-> IF i = 0 THEN 0 ELSE Len(f[i])]
             Good(i) == /\ f[i] \in Seq(S)
                        /\ at[i] = at[i - 1] + Len(ss[i])
                        /\ Holds(f[i], at, ss, i)
             T == {m \in Nat : m \in 1 .. n => Good(m)}
  <2>2. \A i \in 1 .. n : f[i] = IF i = 1 THEN ss[i] ELSE f[i - 1] \o ss[i]
    BY <2>1 DEF Concatenates
  <2>2a. \A i \in 1 .. n : ss[i] \in Seq(S) /\ Len(ss[i]) \in Nat
    BY <1>0 
  <2>2b. \A i \in 1 .. n : at[i] = Len(f[i])
    OBVIOUS
  <2>2c. at[0] = 0
    BY <1>0
  <2> HIDE DEF at
  <2>3. 0 \in T
    OBVIOUS
  <2>4. ASSUME NEW m \in T PROVE m + 1 \in T
    <3> SUFFICES ASSUME m + 1 \in 1 .. n PROVE Good(m + 1)
      OBVIOUS
    <3>1. CASE m = 0
      <4>1. f[1] = ss[1] /\ f[1] \in Seq(S)
        BY <2>2, <2>2a, <3>1
      <4>2. at[1] = Len(ss[1]) /\ at[1] = at[0] + Len(ss[1])
        BY <2>2a, <2>2b, <2>2c, <4>1, <3>1
      <4>3. Holds(f[1], at, ss, 1)
        BY <4>1, <4>2, <2>2c, <2>2a, <3>1 DEF Holds
      <4> QED
        BY <3>1, <4>1, <4>2, <4>3
    <3>2. CASE m # 0
      <4>1. m \in 1 .. n /\ m \in Nat /\ (m + 1) - 1 = m /\ m + 1 # 1
        BY <3>2, <1>0
      <4>2. Good(m)
        BY <4>1
      <4>3. f[m + 1] = f[m] \o ss[m + 1]
        BY <2>2, <4>1
      <4>4. f[m] \in Seq(S) /\ ss[m + 1] \in Seq(S)
        BY <4>2, <2>2a
      <4>5. /\ f[m + 1] \in Seq(S) /\ Len(f[m + 1]) = Len(f[m]) + Len(ss[m + 1])
            /\ \A k \in 1 .. Len(f[m + 1]) :
                 f[m + 1][k] = IF k <= Len(f[m]) THEN f[m][k] ELSE ss[m + 1][k - Len(f[m])]
        <5> DEFINE a == f[m]
                   b == ss[m + 1]
        <5>1. a \in Seq(S) /\ b \in Seq(S) /\ f[m + 1] = a \o b
          BY <4>3, <4>4
        <5> HIDE DEF a, b
        <5>2. /\ a \o b \in Seq(S) /\ Len(a \o b) = Len(a) + Len(b)
              /\ \A k \in 1 .. Len(a \o b) :
                   (a \o b)[k] = IF k <= Len(a) THEN a[k] ELSE b[k - Len(a)]
          BY <5>1, ConcatIs
        <5> QED
          BY <5>1, <5>2 DEF a, b
      <4>6. at[m] = Len(f[m]) /\ at[m + 1] = Len(f[m + 1]) /\ at[m] \in Nat
        BY <2>2b, <4>1, <4>4
      <4>7. Len(ss[m + 1]) \in Nat
        BY <4>4
      <4>8. Holds(f[m], at, ss, m)
        BY <4>2
      <4>8a. at[m + 1] = at[m] + Len(ss[m + 1])
        BY <4>5, <4>6
      <4> DEFINE p == at[m]
                 q == Len(ss[m + 1])
                 r == at[m + 1]
      <4>8b. p \in Nat /\ q \in Nat /\ r = p + q /\ Len(f[m]) = p /\ Len(f[m + 1]) = r
        BY <4>6, <4>7, <4>8a
      <4> HIDE DEF p, q, r
      <4>9. ASSUME NEW i \in 1 .. m + 1, NEW j \in Nat, j \in 1 .. Len(ss[i])
            PROVE  at[i - 1] + j \in 1 .. at[m + 1] /\ f[m + 1][at[i - 1] + j] = ss[i][j]
        <5>1. CASE i \in 1 .. m
          <6>1. at[i - 1] + j \in 1 .. at[m] /\ f[m][at[i - 1] + j] = ss[i][j]
            BY <5>1, <4>9, <4>8 DEF Holds
          <6> DEFINE k == at[i - 1] + j
          <6>2. k \in 1 .. p
            BY <6>1 DEF p
          <6> HIDE DEF k
          <6>3. k \in 1 .. r /\ k <= p
            BY <6>2, <4>8b
          <6>4. f[m + 1][k] = f[m][k]
            BY <6>3, <4>5, <4>8b
          <6> QED
            BY <6>1, <6>3, <6>4 DEF k, r
        <5>2. CASE i = m + 1
          <6>1. i - 1 = m /\ at[i - 1] = at[m]
            BY <5>2, <4>1
          <6>2. j \in 1 .. q
            BY <5>2, <4>9 DEF q
          <6>2a. p + j \in 1 .. r /\ ~(p + j <= p) /\ (p + j) - p = j
            BY <6>2, <4>8b
          <6>3. f[m + 1][p + j] = ss[m + 1][j]
            BY <6>2a, <4>5, <4>8b
          <6> QED
            BY <5>2, <6>1, <6>2a, <6>3 DEF p, r
        <5> QED
          BY <5>1, <5>2, <4>1
      <4>10. ASSUME NEW k \in 1 .. at[m + 1]
             PROVE  \E i \in 1 .. m + 1 : k - at[i - 1] \in 1 .. Len(ss[i])
        <5>1. CASE k \in 1 .. at[m]
          <6>1. PICK i \in 1 .. m : k - at[i - 1] \in 1 .. Len(ss[i])
            BY <5>1, <4>8 DEF Holds
          <6> QED
            BY <6>1, <4>1
        <5>2. CASE k \notin 1 .. at[m]
          <6>0. k \in 1 .. r /\ k \notin 1 .. p
            BY <5>2 DEF p, r
          <6>0a. k - p \in 1 .. q
            BY <6>0, <4>8b
          <6>1. k - at[m] \in 1 .. Len(ss[m + 1])
            BY <6>0a DEF p, q
          <6>2. m + 1 \in 1 .. m + 1
            BY <4>1
          <6> QED
            BY <6>1, <6>2, <4>1
        <5> QED
          BY <5>1, <5>2
      <4>11. Holds(f[m + 1], at, ss, m + 1)
        BY <4>9, <4>10 DEF Holds
      <4> QED
        BY <4>1, <4>5, <4>8a, <4>11
    <3> QED
      BY <3>1, <3>2
  <2>5. \A m \in 1 .. n : Good(m)
    <3> HIDE DEF Good
    <3>1. T \subseteq Nat
      OBVIOUS
    <3> HIDE DEF T
    <3>2. \A m \in Nat : m \in T
      BY <2>3, <2>4, <3>1, Induction
    <3> QED
      BY <3>2 DEF T
  <2>6. n \in 1 .. n
    BY <1>0, <1>2 DEF n
  <2>7. f[n] \in Seq(S) /\ Holds(f[n], at, ss, n)
    BY <2>5, <2>6
  <2>8. at \in [0 .. n -> Nat]
    <3>1. \A i \in 0 .. n : at[i] \in Nat
      <4> SUFFICES ASSUME NEW i \in 0 .. n PROVE at[i] \in Nat
        OBVIOUS
      <4>1. CASE i = 0
        BY <4>1, <2>2c
      <4>2. CASE i \in 1 .. n
        <5>1. f[i] \in Seq(S) /\ at[i] = Len(f[i])
          BY <4>2, <2>5, <2>2b
        <5> QED
          BY <5>1
      <4> QED
        BY <1>0, <4>1, <4>2
    <3> QED
      BY <3>1 DEF at
  <2>9. Lies(at, ss)
    BY <2>5, <2>8, <2>2c DEF Lies, n
  <2>10. at[n] = Len(f[n])
    BY <2>2b, <2>6
  <2> QED
    BY <2>1, <2>7, <2>9, <2>10 DEF n
<1> QED
  BY <1>1, <1>2
-----------------------------------------------------------------------------
(* The inductive invariant                                                   *)

Ended == ApiEnds \cup {"decode"}

SubState == {"queued", "searching", "generating", "refused"} \cup Ended

Serving == {"searching", "generating"}

Control ==
  /\ pc \in [Episodes -> {"absent", "subs"} \cup Generating \cup Over]
  /\ subs \in [Episodes -> Seq(SubState)]
  /\ permits \in Nat

\* Subs are at work only while their episode waits for them.
Awaited ==
  \A e \in Episodes :
    /\ pc[e] \in {"absent", "initial"} => subs[e] = <<>>
    /\ pc[e] # "subs" => \A i \in DOMAIN subs[e] : subs[e][i] \in Ended

NoneRefused ==
  \A e \in Episodes : \A i \in DOMAIN subs[e] : subs[e][i] # "refused"

\* The reservations are those of the Subs that hold a permit.
Reserved ==
  /\ ledger \subseteq Episodes \X Nat
  /\ \A e \in Episodes, i \in Nat :
       <<e, i>> \in ledger <=> i \in DOMAIN subs[e] /\ subs[e][i] \in Serving

Counted ==
  /\ IsFiniteSet(ledger)
  /\ Cardinality(ledger) = Capacity - permits

LInv == Control /\ Awaited /\ NoneRefused /\ Reserved /\ Counted

-----------------------------------------------------------------------------
\* Nothing is reserved when the orchestrator is made.
LEMMA LedgerInit == Init => LInv
<1> SUFFICES ASSUME Init PROVE LInv
  OBVIOUS
<1>1. Control
  BY SpawnAssumption DEF Init, Control, Generating, Over, Traced
<1>2. Awaited /\ NoneRefused /\ Reserved
  BY DEF Init, Awaited, NoneRefused, Reserved
<1>3. Counted
  BY FS_EmptySet, SpawnAssumption DEF Init, Counted
<1> QED
  BY <1>1, <1>2, <1>3 DEF LInv

\* A turn of Main ends it, repeats it, or delegates to Subs that wait.
MainStays(e) ==
  /\ pc[e] \in Generating
  /\ \E x \in {pc[e]} \cup Over : pc' = [pc EXCEPT ![e] = x]
  /\ UNCHANGED subs

MainDelegates(e) ==
  /\ pc[e] = "initial"
  /\ pc' = [pc EXCEPT ![e] = "subs"]
  /\ \E n \in Nat : subs' = [subs EXCEPT ![e] = [i \in 1 .. n |-> "queued"]]

\* What a turn of Main does, whatever the output and the repairs left.
LEMMA MainEffect ==
  ASSUME LInv, NEW e \in Episodes, MainTurn(e) \/ MainRaises(e)
  PROVE  (MainStays(e) \/ MainDelegates(e)) /\ UNCHANGED budget
<1>1. CASE MainRaises(e)
  BY <1>1 DEF MainRaises, MainStays, Over
<1>2. CASE MainTurn(e)
  <2>1. PICK out \in Outputs : Answers(e, out) \/ Delegates(e, out) \/ Errs(e, out)
    BY <1>2 DEF MainTurn
  <2>2. pc[e] \in Generating /\ UNCHANGED budget
    BY <1>2 DEF MainTurn
  <2>3. CASE Answers(e, out)
    BY <2>2, <2>3 DEF Answers, MainStays, Over, Traced
  <2>4. CASE Delegates(e, out)
    <3>1. pc[e] = "initial" /\ pc' = [pc EXCEPT ![e] = "subs"]
      BY <2>4 DEF Delegates, Valid
    <3>2. out.count \in Nat
      BY <2>4, SpawnAssumption DEF Delegates, Outputs
    <3>3. subs' = [subs EXCEPT ![e] = [i \in 1 .. out.count |-> "queued"]]
      BY <2>4 DEF Delegates
    <3> QED
      BY <2>2, <3>1, <3>2, <3>3 DEF MainDelegates
  <2>5. CASE Errs(e, out)
    <3>1. UNCHANGED subs
      BY <2>5 DEF Errs
    <3>2. UNCHANGED pc \/ GivesUp(e)
      BY <2>5 DEF Errs
    <3>3. CASE UNCHANGED pc
      <4>1. pc' = [pc EXCEPT ![e] = pc[e]]
        BY <3>3 DEF LInv, Control
      <4> QED
        BY <2>2, <3>1, <4>1 DEF MainStays
    <3>4. CASE GivesUp(e)
      BY <2>2, <3>1, <3>4 DEF GivesUp, MainStays, Over, Traced
    <3> QED
      BY <3>2, <3>3, <3>4
  <2> QED
    BY <2>1, <2>3, <2>4, <2>5
<1> QED
  BY <1>1, <1>2

\* Main's turns touch neither ledger nor semaphore; a delegation finds no Subs yet.
LEMMA MainStepKeeps ==
  ASSUME LInv, NEW e \in Episodes, MainTurn(e) \/ MainRaises(e)
  PROVE  LInv'
<1>1. (MainStays(e) \/ MainDelegates(e)) /\ UNCHANGED <<permits, ledger>>
  BY MainEffect DEF budget
<1>2. Counted'
  BY <1>1 DEF LInv, Counted
<1>3. CASE MainStays(e)
  <2>1. PICK x \in {pc[e]} \cup Over : pc' = [pc EXCEPT ![e] = x]
    BY <1>3 DEF MainStays
  <2>2. Control'
    BY <1>1, <1>3, <2>1 DEF LInv, Control, MainStays
  <2>3. Awaited'
    BY <1>3, <2>1 DEF LInv, Control, Awaited, MainStays, Generating, Over, Traced
  <2>4. NoneRefused' /\ Reserved'
    BY <1>1, <1>3 DEF LInv, NoneRefused, Reserved, MainStays
  <2> QED
    BY <1>2, <2>2, <2>3, <2>4 DEF LInv
<1>4. CASE MainDelegates(e)
  <2>1. pc[e] = "initial" /\ pc' = [pc EXCEPT ![e] = "subs"]
    BY <1>4 DEF MainDelegates
  <2>2. PICK n \in Nat : subs' = [subs EXCEPT ![e] = [i \in 1 .. n |-> "queued"]]
    BY <1>4 DEF MainDelegates
  <2>3. subs[e] = <<>> /\ subs'[e] = [i \in 1 .. n |-> "queued"]
    BY <2>1, <2>2 DEF LInv, Control, Awaited
  <2>4. subs'[e] \in Seq(SubState)
    BY <2>3 DEF SubState
  <2>5. Control'
    BY <1>1, <2>1, <2>2, <2>3, <2>4 DEF LInv, Control
  <2>6. Awaited'
    BY <2>1, <2>2 DEF LInv, Control, Awaited
  <2>7. NoneRefused'
    BY <2>2, <2>3 DEF LInv, Control, NoneRefused
  <2>8. Reserved'
    BY <1>1, <2>2, <2>3 DEF LInv, Control, Reserved, Serving
  <2> QED
    BY <1>2, <2>5, <2>6, <2>7, <2>8 DEF LInv
<1> QED
  BY <1>1, <1>3, <1>4

-----------------------------------------------------------------------------
(* Subs                                                                      *)

\* A Sub at work belongs to an episode that waits for it.
LEMMA SubIsAwaited ==
  ASSUME LInv, NEW e \in Episodes, NEW i \in DOMAIN subs[e], subs[e][i] \notin Ended
  PROVE  pc[e] = "subs" /\ i \in Nat /\ subs[e] \in Seq(SubState)
BY DEF LInv, Control, Awaited

\* One Sub goes on to another state, and its reservation with it.
LEMMA SubMoves ==
  ASSUME LInv, NEW e \in Episodes, NEW i \in DOMAIN subs[e], NEW x \in SubState \ {"refused"},
         subs[e][i] \notin Ended, UNCHANGED pc,
         subs' = [subs EXCEPT ![e][i] = x],
         ledger' = IF x \in Serving THEN ledger \cup {<<e, i>>} ELSE ledger \ {<<e, i>>},
         permits' \in Nat, Counted'
  PROVE  LInv'
<1>1. pc[e] = "subs" /\ i \in Nat /\ subs[e] \in Seq(SubState)
  BY SubIsAwaited
<1>2. subs'[e] = [subs[e] EXCEPT ![i] = x]
  BY DEF LInv, Control
<1>3. subs'[e] \in Seq(SubState) /\ DOMAIN subs'[e] = DOMAIN subs[e]
  BY <1>1, <1>2
<1>4. \A f \in Episodes : f # e => subs'[f] = subs[f]
  BY DEF LInv, Control
<1>5. \A j \in DOMAIN subs[e] : subs'[e][j] = IF j = i THEN x ELSE subs[e][j]
  BY <1>1, <1>2
<1>6. Control'
  BY <1>3 DEF LInv, Control
<1>7. Awaited'
  BY <1>1, <1>4 DEF LInv, Control, Awaited
<1>8. NoneRefused'
  BY <1>3, <1>4, <1>5 DEF LInv, NoneRefused
<1>9. Reserved'
  <2>1. ledger' \subseteq Episodes \X Nat
    BY <1>1 DEF LInv, Reserved
  <2>2. ASSUME NEW f \in Episodes, NEW j \in Nat
        PROVE  <<f, j>> \in ledger' <=> j \in DOMAIN subs'[f] /\ subs'[f][j] \in Serving
    <3>1. CASE f = e /\ j = i
      BY <1>3, <1>5, <3>1
    <3>2. CASE ~(f = e /\ j = i)
      <4>1. <<f, j>> \in ledger' <=> <<f, j>> \in ledger
        BY <3>2
      <4>2. j \in DOMAIN subs'[f] <=> j \in DOMAIN subs[f]
        BY <1>3, <1>4
      <4>3. j \in DOMAIN subs[f] => subs'[f][j] = subs[f][j]
        BY <1>4, <1>5, <3>2
      <4> QED
        BY <4>1, <4>2, <4>3 DEF LInv, Reserved
    <3> QED
      BY <3>1, <3>2
  <2> QED
    BY <2>1, <2>2 DEF Reserved
<1> QED
  BY <1>6, <1>7, <1>8, <1>9 DEF LInv

\* A Sub that gets a permit finds room in the ledger, and no reservation of its own: as many
\* are reserved as permits are taken.
LEMMA NeverRefused ==
  ASSUME LInv, NEW e \in Episodes, NEW i \in DOMAIN subs[e],
         subs[e][i] = "queued", permits > 0
  PROVE  Admits(<<e, i>>) /\ Cardinality(ledger) \in Nat
<1>1. i \in Nat
  BY SubIsAwaited DEF Ended, ApiEnds
<1>2. <<e, i>> \notin ledger
  BY <1>1 DEF LInv, Reserved, Serving
<1>3. Cardinality(ledger) \in Nat
  BY FS_CardinalityType DEF LInv, Counted
<1>4. Cardinality(ledger) < Capacity
  BY <1>3, SpawnAssumption DEF LInv, Control, Counted
<1> QED
  BY <1>2, <1>3, <1>4 DEF Admits

\* Taking the permit reserves, for this Sub alone.
LEMMA BeginKeeps ==
  ASSUME LInv, NEW e \in Episodes, NEW i \in DOMAIN subs[e], SubBegins(e, i)
  PROVE  LInv'
<1>1. subs[e][i] = "queued" /\ permits > 0
  BY DEF SubBegins
<1>2. Admits(<<e, i>>) /\ Cardinality(ledger) \in Nat
  BY <1>1, NeverRefused
<1>3. /\ permits' = permits - 1
      /\ ledger' = ledger \cup {<<e, i>>}
      /\ subs' = [subs EXCEPT ![e][i] = "searching"]
      /\ UNCHANGED pc
  BY <1>2 DEF SubBegins
<1>4. IsFiniteSet(ledger') /\ Cardinality(ledger') = Cardinality(ledger) + 1
  BY <1>2, <1>3, FS_AddElement DEF LInv, Counted, Admits
<1>5. permits' \in Nat
  BY <1>1, <1>3 DEF LInv, Control
<1>6. Counted'
  BY <1>2, <1>3, <1>4, SpawnAssumption DEF LInv, Control, Counted
<1>7. "searching" \in SubState \ {"refused"} /\ "searching" \in Serving
  BY DEF SubState, Serving
<1>8. subs[e][i] \notin Ended
  BY <1>1 DEF Ended, ApiEnds
<1> QED
  BY <1>3, <1>5, <1>6, <1>7, <1>8, SubMoves

\* A search comes back to a Sub that keeps its reservation.
LEMMA SearchedKeeps ==
  ASSUME LInv, NEW e \in Episodes, NEW i \in DOMAIN subs[e], Searched(e, i)
  PROVE  LInv'
<1>1. /\ subs[e][i] = "searching"
      /\ subs' = [subs EXCEPT ![e][i] = "generating"]
      /\ UNCHANGED <<pc, permits, ledger>>
  BY DEF Searched, budget
<1>2. i \in Nat
  BY <1>1, SubIsAwaited DEF Ended, ApiEnds
<1>3. <<e, i>> \in ledger
  BY <1>1, <1>2 DEF LInv, Reserved, Serving
<1>4. ledger' = ledger \cup {<<e, i>>}
  BY <1>1, <1>3
<1>5. Counted' /\ permits' \in Nat
  BY <1>1 DEF LInv, Control, Counted
<1>6. "generating" \in SubState \ {"refused"} /\ "generating" \in Serving
  BY DEF SubState, Serving
<1>7. subs[e][i] \notin Ended
  BY <1>1 DEF Ended, ApiEnds
<1> QED
  BY <1>1, <1>4, <1>5, <1>6, <1>7, SubMoves

\* However a Sub ends, its reservation and its permit are given back, once.
LEMMA EndKeeps ==
  ASSUME LInv, NEW e \in Episodes, NEW i \in DOMAIN subs[e], SubEnds(e, i)
  PROVE  LInv'
<1>1. PICK end \in Ends :
        /\ subs[e][i] = IF end = "search" THEN "searching" ELSE "generating"
        /\ subs' = [subs EXCEPT ![e][i] = end]
        /\ ledger' = Released(<<e, i>>, end)
        /\ permits' = PermitsAfter(end)
  BY DEF SubEnds
<1>2. UNCHANGED pc /\ ledger' = ledger \ {<<e, i>>} /\ permits' = permits + 1
  BY <1>1 DEF SubEnds, Released, PermitsAfter
<1>3. subs[e][i] \in Serving
  BY <1>1 DEF Serving
<1>4. subs[e][i] \notin Ended
  BY <1>3 DEF Serving, Ended, ApiEnds
<1>5. <<e, i>> \in ledger
  BY <1>3, <1>4, SubIsAwaited DEF LInv, Reserved
<1>6. IsFiniteSet(ledger') /\ Cardinality(ledger') = Cardinality(ledger) - 1
  BY <1>2, <1>5, FS_RemoveElement DEF LInv, Counted
<1>7. Cardinality(ledger) \in Nat
  BY FS_CardinalityType DEF LInv, Counted
<1>8. permits' \in Nat
  BY <1>2 DEF LInv, Control
<1>9. Counted'
  BY <1>2, <1>6, <1>7, SpawnAssumption DEF LInv, Control, Counted
<1>10. end \in SubState \ {"refused"} /\ end \notin Serving
  BY DEF Ends, TrainableEnds, ApiEnds, SubState, Ended, Serving
<1> QED
  BY <1>1, <1>2, <1>4, <1>8, <1>9, <1>10, SubMoves

\* The merge finds every Sub ended.
LEMMA MergeKeeps ==
  ASSUME LInv, NEW e \in Episodes, Merge(e)
  PROVE  LInv'
<1>1. /\ pc[e] = "subs"
      /\ \A i \in DOMAIN subs[e] : subs[e][i] \in Ends
      /\ pc' = [pc EXCEPT ![e] = "final"]
      /\ UNCHANGED <<subs, permits, ledger>>
  BY DEF Merge, budget
<1>2. Control'
  BY <1>1 DEF LInv, Control, Generating
<1>3. Awaited'
  BY <1>1 DEF LInv, Control, Awaited, Ends, TrainableEnds, Ended
<1>4. NoneRefused' /\ Reserved' /\ Counted'
  BY <1>1 DEF LInv, NoneRefused, Reserved, Counted
<1> QED
  BY <1>2, <1>3, <1>4 DEF LInv

-----------------------------------------------------------------------------
\* Every step of every episode keeps the invariant.
THEOREM LedgerStep == LInv /\ [Next]_vars => LInv'
<1> SUFFICES ASSUME LInv, [Next]_vars PROVE LInv'
  OBVIOUS
<1>1. CASE UNCHANGED vars
  BY <1>1 DEF vars, episode, budget, LInv, Control, Awaited, NoneRefused, Reserved, Counted
<1>2. CASE Next
  <2>1. PICK e \in Episodes :
          \/ MainTurn(e)
          \/ MainRaises(e)
          \/ \E i \in DOMAIN subs[e] : SubStepOf(e, i)
          \/ Merge(e)
    BY <1>2 DEF Next
  <2>2. CASE MainTurn(e) \/ MainRaises(e)
    BY <2>2, MainStepKeeps
  <2>3. CASE \E i \in DOMAIN subs[e] : SubStepOf(e, i)
    BY <2>3, BeginKeeps, SearchedKeeps, EndKeeps DEF SubStepOf
  <2>4. CASE Merge(e)
    BY <2>4, MergeKeeps
  <2> QED
    BY <2>1, <2>2, <2>3, <2>4
<1> QED
  BY <1>1, <1>2

-----------------------------------------------------------------------------
(* The fact stream of an episode                                             *)

EventRec == [step : Step, causes : Seq(Step), ok : BOOLEAN]

OutcomeRec == [ok : BOOLEAN, search : SUBSET Step, model : SUBSET Step]

\* A step is recorded once.
OnceEach(evs) ==
  \A j, k \in DOMAIN evs : evs[j].step = evs[k].step => j = k

\* What causes an event was recorded before it.
CausedEarlier(evs) ==
  \A k \in DOMAIN evs : \A c \in Range(evs[k].causes) :
    \E j \in DOMAIN evs : j < k /\ evs[j].step = c

\* Main's attempts at an action are numbered as they come, and nothing but attempts at the
\* initial action precedes the delegation.
AttemptsInOrder(p, a, sb, evs) ==
  /\ p \in {"absent", "initial", "subs"} =>
       \A k \in DOMAIN evs : evs[k].step.agent = 0 /\ evs[k].step.kind = "initial"
  /\ p \in Generating =>
       /\ \A k \in DOMAIN evs :
            evs[k].step.agent = 0 /\ evs[k].step.kind = p => evs[k].step.index < a
       /\ a > 0 => MainStep(p, a - 1) \in StepsOf(evs)
  /\ p = "subs" => evs # <<>>
  /\ p \in {"subs", "final"} => sb # <<>>

\* Main heard of the last step of each Sub, and its final attempts are caused by them.
HeardLast(p, sb, evs, outs, hd) ==
  /\ p \in {"absent", "initial", "subs"} => outs = <<>>
  /\ p # "subs" => Len(outs) = Len(sb)
  /\ Len(hd) = Len(outs)
  /\ Range(hd) \subseteq StepsOf(evs)
  /\ \A k \in DOMAIN evs :
       evs[k].step.kind = "final" => Range(hd) \subseteq Range(evs[k].causes)
  /\ \A i \in DOMAIN hd :
       /\ hd[i].agent = i
       /\ \A j \in DOMAIN evs : evs[j].step.agent = i =>
            \E n \in DOMAIN evs : n >= j /\ evs[n].step = hd[i]

OutcomesNamed(evs, outs) ==
  \A i \in DOMAIN outs : outs[i].search \cup outs[i].model \subseteq StepsOf(evs)

Typed(a, sb, evs, outs, hd) ==
  /\ a \in 0 .. Repairs
  /\ sb \in Seq(SubState) /\ Len(sb) <= MaxSpawn
  /\ evs \in Seq(EventRec)
  /\ outs \in Seq(OutcomeRec)
  /\ hd \in Seq(Step)

Sound(p, a, sb, evs, outs, hd) ==
  /\ Typed(a, sb, evs, outs, hd)
  /\ OnceEach(evs)
  /\ CausedEarlier(evs)
  /\ AttemptsInOrder(p, a, sb, evs)
  /\ HeardLast(p, sb, evs, outs, hd)
  /\ OutcomesNamed(evs, outs)

-----------------------------------------------------------------------------
\* What Append does, in one place.
LEMMA AppendIs ==
  ASSUME NEW S, NEW s \in Seq(S), NEW x \in S
  PROVE  /\ Append(s, x) \in Seq(S) /\ Len(Append(s, x)) = Len(s) + 1 /\ Len(s) \in Nat
         /\ \A k \in 1 .. Len(s) : Append(s, x)[k] = s[k]
         /\ Append(s, x)[Len(s) + 1] = x
OBVIOUS

\* new is evs with an attempt of Main behind it, and nothing is wrong with it.
WellRecorded(p, a, sb, evs, outs, hd, ev, new) ==
  /\ new \in Seq(EventRec) /\ Len(new) = Len(evs) + 1 /\ Len(evs) \in Nat
  /\ \A k \in 1 .. Len(evs) : new[k] = evs[k]
  /\ new[Len(evs) + 1] = ev
  /\ OnceEach(new)
  /\ CausedEarlier(new)
  /\ OutcomesNamed(new, outs)
  /\ MainStep(p, a) \in StepsOf(new)
  /\ \A q : q \notin {"absent", "initial", "subs"} => HeardLast(q, sb, new, outs, hd)
  /\ p = "initial" => /\ outs = <<>> /\ hd = <<>>
                      /\ HeardLast("subs", sb, new, outs, hd)
                      /\ HeardLast("initial", sb, new, outs, hd)

LEMMA AttemptRecorded ==
  ASSUME NEW p \in Generating, NEW a, NEW sb, NEW evs, NEW outs, NEW hd, NEW ok \in BOOLEAN,
         Sound(p, a, sb, evs, outs, hd),
         NEW cs, cs = hd \o (IF a = 0 THEN <<>> ELSE <<MainStep(p, a - 1)>>),
         NEW new, new = Append(evs, Event(MainStep(p, a), cs, ok))
  PROVE  WellRecorded(p, a, sb, evs, outs, hd, Event(MainStep(p, a), cs, ok), new)
<1> DEFINE m == MainStep(p, a)
           ev == Event(m, cs, ok)
           n == Len(evs)
<1>1. /\ a \in 0 .. Repairs /\ evs \in Seq(EventRec) /\ hd \in Seq(Step)
      /\ outs \in Seq(OutcomeRec) /\ p \in {"initial", "final"}
  BY DEF Sound, Typed, Generating
<1>2. m \in Step
  BY <1>1, SpawnAssumption DEF Step, MainStep
<1>3. cs \in Seq(Step) /\ Range(cs) = Range(hd) \cup (IF a = 0 THEN {} ELSE {MainStep(p, a - 1)})
  <2>1. CASE a = 0
    <3>1. cs = hd
      BY <1>1, <2>1
    <3> QED
      BY <1>1, <2>1, <3>1
  <2>2. CASE a # 0
    <3> DEFINE x == MainStep(p, a - 1)
    <3>1. x \in Step /\ cs = hd \o <<x>>
      BY <1>1, <2>2, SpawnAssumption DEF Step, MainStep
    <3> HIDE DEF x
    <3>2. cs = Append(hd, x)
      BY <1>1, <3>1
    <3>3. /\ Append(hd, x) \in Seq(Step) /\ Len(Append(hd, x)) = Len(hd) + 1 /\ Len(hd) \in Nat
          /\ \A k \in 1 .. Len(hd) : Append(hd, x)[k] = hd[k]
          /\ Append(hd, x)[Len(hd) + 1] = x
      BY <1>1, <3>1, AppendIs
    <3>4. cs \in Seq(Step) /\ DOMAIN cs = 1 .. Len(hd) + 1 /\ DOMAIN hd = 1 .. Len(hd)
      BY <1>1, <3>2, <3>3
    <3>5. Range(cs) = Range(hd) \cup {x}
      <4> DEFINE l == Len(hd)
      <4>1. /\ l \in Nat /\ DOMAIN cs = 1 .. l + 1 /\ DOMAIN hd = 1 .. l
            /\ \A k \in 1 .. l : cs[k] = hd[k]
            /\ cs[l + 1] = x
        BY <3>2, <3>3, <3>4
      <4> HIDE DEF l
      <4>2. \A y \in Range(cs) : y \in Range(hd) \cup {x}
        BY <4>1 DEF Range
      <4>3. \A y \in Range(hd) : y \in Range(cs)
        BY <4>1 DEF Range
      <4>4. x \in Range(cs)
        <5>1. l + 1 \in DOMAIN cs
          BY <4>1
        <5> QED
          BY <4>1, <5>1 DEF Range
      <4> QED
        BY <4>2, <4>3, <4>4
    <3> QED
      BY <2>2, <3>4, <3>5 DEF x
  <2> QED
    BY <2>1, <2>2
<1>4. ev \in EventRec /\ ev.step = m /\ ev.causes = cs
  BY <1>2, <1>3 DEF EventRec, Event
<1> HIDE DEF ev
<1>5. /\ new \in Seq(EventRec) /\ Len(new) = n + 1 /\ n \in Nat
      /\ \A k \in 1 .. n : new[k] = evs[k]
      /\ new[n + 1] = ev
  <2>1. new = Append(evs, ev)
    BY DEF ev
  <2> QED
    BY <1>1, <1>4, <2>1, AppendIs
<1>6. DOMAIN new = 1 .. n + 1 /\ DOMAIN evs = 1 .. n
  BY <1>1, <1>5
<1> HIDE DEF n
<1>7. \A k \in 1 .. n : evs[k].step # m
  <2> SUFFICES ASSUME NEW k \in 1 .. n, evs[k].step = m PROVE FALSE
    OBVIOUS
  <2>1. evs[k].step.agent = 0 /\ evs[k].step.kind = p /\ evs[k].step.index = a
    BY DEF MainStep
  <2>2. a < a
    BY <1>6, <2>1 DEF Sound, AttemptsInOrder
  <2> QED
    BY <1>1, <2>2
<1>8. OnceEach(new)
  <2> SUFFICES ASSUME NEW j \in 1 .. n + 1, NEW k \in 1 .. n + 1, new[j].step = new[k].step
               PROVE  j = k
    BY <1>6 DEF OnceEach
  <2>1. CASE j \in 1 .. n /\ k \in 1 .. n
    BY <1>5, <1>6, <2>1 DEF Sound, OnceEach
  <2>2. CASE j = n + 1 /\ k = n + 1
    BY <2>2
  <2>3. CASE j = n + 1 /\ k \in 1 .. n
    BY <1>4, <1>5, <1>7, <2>3
  <2>4. CASE k = n + 1 /\ j \in 1 .. n
    BY <1>4, <1>5, <1>7, <2>4
  <2> QED
    BY <1>5, <2>1, <2>2, <2>3, <2>4
<1>9. \A c \in StepsOf(evs) : \E j \in 1 .. n : new[j].step = c
  BY <1>5, <1>6 DEF StepsOf
<1>10. Range(cs) \subseteq StepsOf(evs)
  <2>1. a # 0 => a > 0
    BY <1>1
  <2> QED
    BY <1>1, <1>3, <2>1 DEF Sound, HeardLast, AttemptsInOrder
<1>11. CausedEarlier(new)
  <2>1. ASSUME NEW k \in 1 .. n, NEW c \in Range(new[k].causes)
        PROVE  \E j \in 1 .. n + 1 : j < k /\ new[j].step = c
    <3>1. PICK j \in 1 .. n : j < k /\ evs[j].step = c
      BY <1>5, <1>6, <2>1 DEF Sound, CausedEarlier
    <3> QED
      BY <1>5, <3>1
  <2>2. ASSUME NEW c \in Range(new[n + 1].causes)
        PROVE  \E j \in 1 .. n + 1 : j < n + 1 /\ new[j].step = c
    <3>1. PICK j \in 1 .. n : new[j].step = c
      BY <1>4, <1>5, <1>9, <1>10, <2>2
    <3>2. j \in 1 .. n + 1 /\ j < n + 1
      BY <1>5
    <3> QED
      BY <3>1, <3>2
  <2>3. \A k \in 1 .. n + 1 : k \in 1 .. n \/ k = n + 1
    BY <1>5
  <2> SUFFICES ASSUME NEW k \in DOMAIN new, NEW c \in Range(new[k].causes)
               PROVE  \E j \in DOMAIN new : j < k /\ new[j].step = c
    BY DEF CausedEarlier
  <2>4. k \in 1 .. n \/ k = n + 1
    BY <1>6, <2>3
  <2>5. CASE k \in 1 .. n
    BY <1>6, <2>1, <2>5
  <2>6. CASE k = n + 1
    BY <1>6, <2>2, <2>6
  <2> QED
    BY <2>4, <2>5, <2>6
<1>12. StepsOf(evs) \subseteq StepsOf(new)
  BY <1>5, <1>6 DEF StepsOf
<1>13. OutcomesNamed(new, outs)
  BY <1>12 DEF Sound, OutcomesNamed
<1>14. m \in StepsOf(new)
  <2>1. n + 1 \in DOMAIN new /\ new[n + 1].step = m
    BY <1>4, <1>5, <1>6
  <2> QED
    BY <2>1 DEF StepsOf
<1>15. /\ Len(hd) = Len(outs) /\ Range(hd) \subseteq StepsOf(new)
       /\ \A k \in DOMAIN new :
            new[k].step.kind = "final" => Range(hd) \subseteq Range(new[k].causes)
       /\ \A i \in DOMAIN hd :
            /\ hd[i].agent = i
            /\ \A j \in DOMAIN new : new[j].step.agent = i =>
                 \E l \in DOMAIN new : l >= j /\ new[l].step = hd[i]
  <2>1. Len(hd) = Len(outs) /\ Range(hd) \subseteq StepsOf(new)
    BY <1>12 DEF Sound, HeardLast
  <2>2. ASSUME NEW k \in DOMAIN new, new[k].step.kind = "final"
        PROVE  Range(hd) \subseteq Range(new[k].causes)
    <3>1. CASE k \in 1 .. n
      BY <1>5, <1>6, <2>2, <3>1 DEF Sound, HeardLast
    <3>2. CASE k = n + 1
      BY <1>3, <1>4, <1>5, <3>2
    <3> QED
      BY <1>5, <1>6, <3>1, <3>2
  <2>3. ASSUME NEW i \in DOMAIN hd
        PROVE  /\ hd[i].agent = i
               /\ \A j \in DOMAIN new : new[j].step.agent = i =>
                    \E l \in DOMAIN new : l >= j /\ new[l].step = hd[i]
    <3>1. hd[i].agent = i /\ i \in Nat \ {0}
      BY <1>1 DEF Sound, HeardLast
    <3>2. ASSUME NEW j \in DOMAIN new, new[j].step.agent = i
          PROVE  \E l \in DOMAIN new : l >= j /\ new[l].step = hd[i]
      <4>1. j \in 1 .. n
        <5>1. j # n + 1
          BY <1>4, <1>5, <3>1, <3>2 DEF MainStep
        <5> QED
          BY <1>5, <1>6, <5>1
      <4>2. evs[j].step.agent = i
        BY <1>5, <3>2, <4>1
      <4>3. PICK l \in 1 .. n : l >= j /\ evs[l].step = hd[i]
        BY <1>6, <4>1, <4>2 DEF Sound, HeardLast
      <4> QED
        BY <1>5, <1>6, <4>3
    <3> QED
      BY <3>1, <3>2
  <2> QED
    BY <2>1, <2>2, <2>3
<1>16. ASSUME NEW q, q \notin {"absent", "initial", "subs"} PROVE HeardLast(q, sb, new, outs, hd)
  <2>1. Len(outs) = Len(sb)
    BY <1>1 DEF Sound, HeardLast
  <2> QED
    BY <1>15, <1>16, <2>1 DEF HeardLast
<1>17. ASSUME p = "initial"
       PROVE  /\ outs = <<>> /\ hd = <<>>
              /\ HeardLast("subs", sb, new, outs, hd)
              /\ HeardLast("initial", sb, new, outs, hd)
  <2>1. outs = <<>> /\ Len(outs) = Len(sb) /\ Len(hd) = Len(outs)
    BY <1>17 DEF Sound, HeardLast
  <2>2. hd = <<>>
    BY <1>1, <2>1
  <2> QED
    BY <1>15, <2>1, <2>2 DEF HeardLast
<1> QED
  BY <1>5, <1>8, <1>11, <1>13, <1>14, <1>16, <1>17 DEF n, ev, WellRecorded

-----------------------------------------------------------------------------
(* The merge                                                                 *)

\* What is recorded of Sub i, after the delegation d.
OfSub(i, d, st) ==
  /\ st \in Seq(EventRec) /\ st # <<>>
  /\ \A k \in DOMAIN st : st[k].step.agent = i /\ st[k].step.kind \notin {"initial", "final"}
  /\ OnceEach(st)
  /\ \A k \in DOMAIN st : \A c \in Range(st[k].causes) :
       c = d \/ \E j \in DOMAIN st : j < k /\ st[j].step = c

\* The parts of ss, appended to a stream, lie behind the places b.
Behind(new, evs, ss, b) ==
  /\ b \in [1 .. Len(ss) -> Nat]
  /\ \A i \in 1 .. Len(ss) : Len(evs) <= b[i]
  /\ \A i \in 1 .. Len(ss), j \in Nat :
       j \in 1 .. Len(ss[i]) =>
         b[i] + j \in 1 .. Len(new) /\ new[b[i] + j] = ss[i][j]
  /\ \A k \in 1 .. Len(new) :
       k \in 1 .. Len(evs) \/ \E i \in 1 .. Len(ss) : k - b[i] \in 1 .. Len(ss[i])

Extends(new, evs) ==
  Len(evs) <= Len(new) /\ \A k \in 1 .. Len(evs) : new[k] = evs[k]

LEMMA FunctionIsSeq ==
  ASSUME NEW S, NEW n \in Nat, NEW f \in [1 .. n -> S]
  PROVE  f \in Seq(S) /\ Len(f) = n
OBVIOUS

LEMMA MergedStream ==
  ASSUME NEW S, NEW evs \in Seq(S), NEW ss \in Seq(Seq(S)),
         NEW new, new = evs \o FlattenSeq(ss)
  PROVE  /\ new \in Seq(S) /\ Extends(new, evs)
         /\ \E b : Behind(new, evs, ss, b)
<1>1. FlattenSeq(ss) \in Seq(S)
  BY FlattenLayout
<1>2. PICK at : /\ Lies(at, ss)
                /\ Len(FlattenSeq(ss)) = at[Len(ss)]
                /\ Holds(FlattenSeq(ss), at, ss, Len(ss))
  BY FlattenLayout
<1> DEFINE f == FlattenSeq(ss)
           n == Len(evs)
           m == Len(ss)
           b == [i \in 1 .. m |-> n + at[i - 1]]
<1>3. f \in Seq(S) /\ Len(f) = at[m] /\ Holds(f, at, ss, m) /\ new = evs \o f
  BY <1>1, <1>2
<1> HIDE DEF f
<1>4. /\ new \in Seq(S) /\ Len(new) = n + Len(f)
      /\ \A k \in 1 .. Len(new) : new[k] = IF k <= n THEN evs[k] ELSE f[k - n]
  BY <1>3, ConcatIs
<1>5. n \in Nat /\ m \in Nat /\ at \in [0 .. m -> Nat]
  BY <1>2 DEF Lies
<1> HIDE DEF n, m
<1> DEFINE t == at[m]
<1>6. t \in Nat /\ Len(f) = t
  BY <1>3, <1>5
<1> HIDE DEF t
<1>7. \A i \in 1 .. m : i - 1 \in 0 .. m /\ at[i - 1] \in Nat
  BY <1>5
<1>8. b \in [1 .. m -> Nat] /\ \A i \in 1 .. m : b[i] = n + at[i - 1] /\ n <= b[i]
  BY <1>5, <1>7
<1> HIDE DEF b
<1>9. ASSUME NEW i \in 1 .. m, NEW j \in Nat, j \in 1 .. Len(ss[i])
      PROVE  b[i] + j \in 1 .. Len(new) /\ new[b[i] + j] = ss[i][j]
  <2> DEFINE x == at[i - 1]
  <2>1. x \in Nat /\ b[i] = n + x
    BY <1>7, <1>8
  <2>2. x + j \in 1 .. t /\ f[x + j] = ss[i][j]
    BY <1>3, <1>9 DEF Holds, t
  <2> HIDE DEF x
  <2>3. /\ (n + x) + j \in 1 .. n + t /\ ~((n + x) + j <= n)
        /\ ((n + x) + j) - n = x + j
    BY <1>5, <1>6, <2>1, <2>2
  <2>4. new[(n + x) + j] = f[x + j]
    BY <1>4, <1>6, <2>3
  <2> QED
    BY <1>4, <1>6, <2>1, <2>2, <2>3, <2>4
<1>10. ASSUME NEW k \in 1 .. Len(new), k \notin 1 .. n
       PROVE  \E i \in 1 .. m : k - b[i] \in 1 .. Len(ss[i])
  <2>1. k - n \in 1 .. t
    BY <1>4, <1>5, <1>6, <1>10
  <2>2. PICK i \in 1 .. m : (k - n) - at[i - 1] \in 1 .. Len(ss[i])
    BY <1>3, <2>1 DEF Holds, t
  <2>3. k - b[i] = (k - n) - at[i - 1]
    <3>1. k \in Nat /\ n \in Nat /\ at[i - 1] \in Nat /\ b[i] = n + at[i - 1]
      BY <1>5, <1>7, <1>8
    <3> QED
      BY <3>1
  <2> QED
    BY <2>2, <2>3
<1>11. n <= Len(new) /\ \A k \in 1 .. n : new[k] = evs[k]
  BY <1>4, <1>5, <1>6
<1> QED
  BY <1>4, <1>5, <1>8, <1>9, <1>10, <1>11 DEF n, m, Behind, Extends

\* The streams of the Subs, merged behind Main's attempts, leave a sound stream.
LEMMA MergeSound ==
  ASSUME NEW a, NEW sb, NEW evs, NEW outs, NEW hd, Sound("subs", a, sb, evs, outs, hd),
         NEW ss, DOMAIN ss = DOMAIN sb, ss \in Seq(Seq(EventRec)),
         \A i \in DOMAIN ss : OfSub(i, Last(evs).step, ss[i]),
         NEW outs2 \in Seq(OutcomeRec), Len(outs2) = Len(ss),
         \A i \in DOMAIN ss : outs2[i].search \cup outs2[i].model \subseteq StepsOf(ss[i]),
         NEW hd2, hd2 = [i \in 1 .. Len(ss) |-> Last(ss[i]).step]
  PROVE  Sound("final", 0, sb, evs \o FlattenSeq(ss), outs2, hd2)
<1> DEFINE n == Len(evs)
           m == Len(ss)
           d == Last(evs).step
           new == evs \o FlattenSeq(ss)
<1>1. /\ a \in 0 .. Repairs /\ sb \in Seq(SubState) /\ Len(sb) <= MaxSpawn
      /\ evs \in Seq(EventRec) /\ evs # <<>> /\ sb # <<>>
  BY DEF Sound, Typed, AttemptsInOrder
<1>2. /\ DOMAIN ss = 1 .. m /\ m = Len(sb) /\ m \in Nat
      /\ DOMAIN evs = 1 .. n /\ n \in Nat /\ n >= 1
  BY <1>1
<1>3. \A k \in 1 .. n : evs[k].step.agent = 0 /\ evs[k].step.kind = "initial"
  BY <1>2 DEF Sound, AttemptsInOrder
<1>3a. new = evs \o FlattenSeq(ss)
  OBVIOUS
<1> HIDE DEF new
<1>4. /\ new \in Seq(EventRec) /\ n <= Len(new)
      /\ \A k \in 1 .. n : new[k] = evs[k]
  <2>1. new \in Seq(EventRec) /\ Extends(new, evs)
    BY <1>1, <1>3a, MergedStream
  <2> QED
    BY <2>1 DEF Extends
<1>5. PICK b \in [1 .. m -> Nat] :
           /\ \A i \in 1 .. m : n <= b[i]
           /\ \A i \in 1 .. m, j \in Nat :
                j \in 1 .. Len(ss[i]) =>
                  b[i] + j \in 1 .. Len(new) /\ new[b[i] + j] = ss[i][j]
           /\ \A k \in 1 .. Len(new) :
                k \in 1 .. n \/ \E i \in 1 .. m : k - b[i] \in 1 .. Len(ss[i])
  <2>1. PICK b : Behind(new, evs, ss, b)
    BY <1>1, <1>3a, MergedStream
  <2> QED
    BY <2>1 DEF Behind
<1>6. DOMAIN new = 1 .. Len(new) /\ Len(new) \in Nat
  BY <1>4
<1>7. evs[n].step = d
  BY DEF Last
<1>8. \A i \in 1 .. m : /\ OfSub(i, d, ss[i]) /\ ss[i] \in Seq(EventRec)
                        /\ DOMAIN ss[i] = 1 .. Len(ss[i]) /\ Len(ss[i]) \in Nat /\ ss[i] # <<>>
  <2> SUFFICES ASSUME NEW i \in 1 .. m
               PROVE  /\ OfSub(i, d, ss[i]) /\ ss[i] \in Seq(EventRec)
                      /\ DOMAIN ss[i] = 1 .. Len(ss[i]) /\ Len(ss[i]) \in Nat /\ ss[i] # <<>>
    OBVIOUS
  <2>1. OfSub(i, d, ss[i])
    BY <1>2
  <2>2. ss[i] \in Seq(EventRec) /\ ss[i] # <<>>
    BY <2>1 DEF OfSub
  <2> QED
    BY <2>1, <2>2
<1> HIDE DEF n, m, d
\* Behind the attempts of Main, every event is one of a Sub.
<1>9. ASSUME NEW k \in DOMAIN new
      PROVE  \/ k \in 1 .. n /\ new[k] = evs[k]
             \/ \E i \in 1 .. m, j \in Nat :
                  j \in 1 .. Len(ss[i]) /\ k = b[i] + j /\ new[k] = ss[i][j]
  <2>1. CASE k \in 1 .. n
    BY <1>4, <2>1
  <2>2. CASE k \notin 1 .. n
    <3>1. PICK i \in 1 .. m : k - b[i] \in 1 .. Len(ss[i])
      BY <1>5, <1>6, <2>2
    <3> DEFINE j == k - b[i]
    <3>2. j \in Nat /\ k = b[i] + j
      BY <1>5, <1>6, <3>1
    <3> HIDE DEF j
    <3>3. j \in 1 .. Len(ss[i])
      BY <3>1 DEF j
    <3>4. new[b[i] + j] = ss[i][j]
      BY <1>5, <3>2, <3>3
    <3> QED
      BY <3>2, <3>3, <3>4
  <2> QED
    BY <2>1, <2>2
<1>10. ASSUME NEW i \in 1 .. m, NEW j \in Nat, j \in 1 .. Len(ss[i])
       PROVE  /\ ss[i][j].step.agent = i /\ ss[i][j].step.kind \notin {"initial", "final"}
              /\ i # 0 /\ b[i] + j \in DOMAIN new /\ new[b[i] + j] = ss[i][j]
              /\ b[i] + j > n
  <2>1. ss[i][j].step.agent = i /\ ss[i][j].step.kind \notin {"initial", "final"}
    BY <1>8, <1>10 DEF OfSub
  <2>2. i # 0
    BY <1>2
  <2>3. b[i] + j \in DOMAIN new /\ new[b[i] + j] = ss[i][j]
    BY <1>5, <1>6, <1>10
  <2>4. b[i] \in Nat /\ n <= b[i] /\ j >= 1
    BY <1>5, <1>8, <1>10
  <2>5. b[i] + j > n
    BY <1>2, <2>4
  <2> QED
    BY <2>1, <2>2, <2>3, <2>5
<1>11. OnceEach(new)
  <2> SUFFICES ASSUME NEW x \in DOMAIN new, NEW y \in DOMAIN new, new[x].step = new[y].step
               PROVE  x = y
    BY DEF OnceEach
  <2>1. CASE x \in 1 .. n /\ y \in 1 .. n
    BY <1>2, <1>4, <2>1 DEF Sound, OnceEach
  <2>2. CASE x \in 1 .. n /\ y \notin 1 .. n
    <3>1. PICK i \in 1 .. m, j \in Nat :
            j \in 1 .. Len(ss[i]) /\ y = b[i] + j /\ new[y] = ss[i][j]
      BY <1>9, <2>2
    <3>2. ss[i][j].step.agent = i /\ i # 0
      BY <1>10, <3>1
    <3>3. new[x].step.agent = 0
      BY <1>3, <1>4, <2>2
    <3> QED
      BY <3>1, <3>2, <3>3
  <2>3. CASE y \in 1 .. n /\ x \notin 1 .. n
    <3>1. PICK i \in 1 .. m, j \in Nat :
            j \in 1 .. Len(ss[i]) /\ x = b[i] + j /\ new[x] = ss[i][j]
      BY <1>9, <2>3
    <3>2. ss[i][j].step.agent = i /\ i # 0
      BY <1>10, <3>1
    <3>3. new[y].step.agent = 0
      BY <1>3, <1>4, <2>3
    <3> QED
      BY <3>1, <3>2, <3>3
  <2>4. CASE x \notin 1 .. n /\ y \notin 1 .. n
    <3>1. PICK i \in 1 .. m, j \in Nat :
            j \in 1 .. Len(ss[i]) /\ x = b[i] + j /\ new[x] = ss[i][j]
      BY <1>9, <2>4
    <3>2. PICK u \in 1 .. m, v \in Nat :
            v \in 1 .. Len(ss[u]) /\ y = b[u] + v /\ new[y] = ss[u][v]
      BY <1>9, <2>4
    <3>2a. ss[i][j].step.agent = i
      BY <1>10, <3>1
    <3>2b. ss[u][v].step.agent = u
      BY <1>10, <3>2
    <3>3. i = u
      BY <3>1, <3>2, <3>2a, <3>2b
    <3>4. ss[i][j].step = ss[i][v].step /\ j \in DOMAIN ss[i] /\ v \in DOMAIN ss[i]
      BY <1>8, <3>1, <3>2, <3>3
    <3>5. j = v
      BY <1>8, <3>4 DEF OfSub, OnceEach
    <3> QED
      BY <3>1, <3>2, <3>3, <3>5
  <2> QED
    BY <2>1, <2>2, <2>3, <2>4
<1>12. CausedEarlier(new)
  <2> SUFFICES ASSUME NEW x \in DOMAIN new, NEW c \in Range(new[x].causes)
               PROVE  \E y \in DOMAIN new : y < x /\ new[y].step = c
    BY DEF CausedEarlier
  <2>1. CASE x \in 1 .. n
    <3>0. x \in DOMAIN evs /\ new[x] = evs[x]
      BY <1>2, <1>4, <2>1
    <3>0a. CausedEarlier(evs)
      BY DEF Sound
    <3>1. PICK y \in 1 .. n : y < x /\ evs[y].step = c
      BY <1>2, <3>0, <3>0a DEF CausedEarlier
    <3>2. y \in DOMAIN new /\ new[y].step = c
      BY <1>2, <1>4, <1>6, <3>1
    <3> QED
      BY <3>1, <3>2
  <2>2. CASE x \notin 1 .. n
    <3>1. PICK i \in 1 .. m, j \in Nat :
            j \in 1 .. Len(ss[i]) /\ x = b[i] + j /\ new[x] = ss[i][j]
      BY <1>9, <2>2
    <3>2. j \in DOMAIN ss[i] /\ OfSub(i, d, ss[i])
      BY <1>8, <3>1
    <3>2a. c \in Range(ss[i][j].causes)
      BY <3>1
    <3>3. c = d \/ \E y \in DOMAIN ss[i] : y < j /\ ss[i][y].step = c
      BY <3>2, <3>2a DEF OfSub
    <3>4. CASE c = d
      <4>1. n \in DOMAIN new /\ new[n].step = d /\ n < x
        BY <1>2, <1>4, <1>6, <1>7, <1>10, <3>1
      <4> QED
        BY <3>4, <4>1
    <3>5. CASE \E y \in DOMAIN ss[i] : y < j /\ ss[i][y].step = c
      <4>1. PICK y \in DOMAIN ss[i] : y < j /\ ss[i][y].step = c
        BY <3>5
      <4>2. y \in Nat /\ y \in 1 .. Len(ss[i])
        BY <1>8, <4>1
      <4>3. b[i] + y \in DOMAIN new /\ new[b[i] + y] = ss[i][y]
        BY <1>10, <4>2
      <4>4. b[i] + y < x
        <5>1. b[i] \in Nat
          BY <1>5
        <5> QED
          BY <5>1, <3>1, <4>1, <4>2
      <4> QED
        BY <4>1, <4>3, <4>4
    <3> QED
      BY <3>3, <3>4, <3>5
  <2> QED
    BY <2>1, <2>2
<1>13. AttemptsInOrder("final", 0, sb, new)
  <2>1. ASSUME NEW k \in DOMAIN new, new[k].step.agent = 0 PROVE new[k].step.kind # "final"
    <3>1. CASE k \in 1 .. n
      BY <1>3, <1>4, <3>1
    <3>2. CASE k \notin 1 .. n
      BY <1>9, <1>10, <2>1, <3>2
    <3> QED
      BY <3>1, <3>2
  <2> QED
    BY <1>1, <2>1 DEF AttemptsInOrder
<1>14. \A i \in 1 .. m : StepsOf(ss[i]) \subseteq StepsOf(new)
  <2> SUFFICES ASSUME NEW i \in 1 .. m, NEW j \in DOMAIN ss[i]
               PROVE  ss[i][j].step \in StepsOf(new)
    BY DEF StepsOf
  <2>1. j \in Nat /\ j \in 1 .. Len(ss[i])
    BY <1>8
  <2>2. b[i] + j \in DOMAIN new /\ new[b[i] + j] = ss[i][j]
    BY <1>10, <2>1
  <2> QED
    BY <2>2 DEF StepsOf
<1>15. OutcomesNamed(new, outs2)
  <2>1. DOMAIN outs2 = 1 .. m
    BY DEF m
  <2> QED
    BY <1>2, <1>14, <2>1 DEF OutcomesNamed
<1>16. \A i \in 1 .. m : /\ Len(ss[i]) \in 1 .. Len(ss[i]) /\ Len(ss[i]) \in Nat
                         /\ hd2[i] = ss[i][Len(ss[i])].step
  <2> SUFFICES ASSUME NEW i \in 1 .. m
               PROVE  /\ Len(ss[i]) \in 1 .. Len(ss[i]) /\ Len(ss[i]) \in Nat
                      /\ hd2[i] = ss[i][Len(ss[i])].step
    OBVIOUS
  <2>1. ss[i] \in Seq(EventRec) /\ ss[i] # <<>>
    BY <1>8
  <2>2. hd2[i] = ss[i][Len(ss[i])].step
    BY DEF m, Last
  <2> QED
    BY <2>1, <2>2
<1>17. /\ DOMAIN hd2 = 1 .. m /\ hd2 \in Seq(Step) /\ Len(hd2) = m
       /\ \A i \in 1 .. m : hd2[i] \in StepsOf(new) /\ hd2[i].agent = i
  <2>1. \A i \in 1 .. m : hd2[i].agent = i
    <3> SUFFICES ASSUME NEW i \in 1 .. m PROVE hd2[i].agent = i
      OBVIOUS
    <3> DEFINE l == Len(ss[i])
    <3>1. l \in Nat /\ l \in 1 .. Len(ss[i]) /\ hd2[i] = ss[i][l].step
      BY <1>16
    <3> HIDE DEF l
    <3>2. ss[i][l].step.agent = i
      BY <1>10, <3>1
    <3> QED
      BY <3>1, <3>2
  <2>2. \A i \in 1 .. m : hd2[i] \in Step
    <3> SUFFICES ASSUME NEW i \in 1 .. m PROVE hd2[i] \in Step
      OBVIOUS
    <3>1. ss[i][Len(ss[i])] \in EventRec
      BY <1>8, <1>16
    <3> QED
      BY <1>16, <3>1 DEF EventRec
  <2>3. \A i \in 1 .. m : hd2[i] \in StepsOf(new)
    BY <1>8, <1>14, <1>16 DEF StepsOf
  <2>4. DOMAIN hd2 = 1 .. m
    BY DEF m
  <2>5. hd2 = [i \in 1 .. m |-> hd2[i]]
    BY DEF m
  <2>6. hd2 \in Seq(Step) /\ Len(hd2) = m
    <3>1. hd2 \in [1 .. m -> Step]
      BY <2>2, <2>5
    <3>2. m \in Nat
      BY <1>2
    <3> QED
      BY <3>1, <3>2, FunctionIsSeq
  <2> QED
    BY <2>1, <2>3, <2>4, <2>6
<1>18. HeardLast("final", sb, new, outs2, hd2)
  <2>1. Len(outs2) = Len(sb) /\ Len(hd2) = Len(outs2)
    BY <1>2, <1>17 DEF m
  <2>2. Range(hd2) \subseteq StepsOf(new)
    <3> SUFFICES ASSUME NEW i \in DOMAIN hd2 PROVE hd2[i] \in StepsOf(new)
      BY DEF Range
    <3> QED
      BY <1>17
  <2>3. \A k \in DOMAIN new : new[k].step.kind # "final"
    BY <1>3, <1>9, <1>10
  <2>4. ASSUME NEW i \in DOMAIN hd2
        PROVE  /\ hd2[i].agent = i
               /\ \A x \in DOMAIN new : new[x].step.agent = i =>
                    \E y \in DOMAIN new : y >= x /\ new[y].step = hd2[i]
    <3>0. i \in 1 .. m /\ hd2[i].agent = i
      BY <1>17
    <3>1. i \in 1 .. m /\ hd2[i].agent = i /\ i # 0
      BY <1>2, <3>0
    <3>2. ASSUME NEW x \in DOMAIN new, new[x].step.agent = i
          PROVE  \E y \in DOMAIN new : y >= x /\ new[y].step = hd2[i]
      <4>1. x \notin 1 .. n
        BY <1>3, <1>4, <3>1, <3>2
      <4>2. PICK u \in 1 .. m, v \in Nat :
              v \in 1 .. Len(ss[u]) /\ x = b[u] + v /\ new[x] = ss[u][v]
        BY <1>9, <4>1
      <4>3. u = i
        BY <1>10, <3>2, <4>2
      <4> DEFINE l == Len(ss[i])
      <4>4. l \in Nat /\ l \in 1 .. Len(ss[i]) /\ hd2[i] = ss[i][l].step
        BY <1>16, <3>1
      <4>5. b[i] + l \in DOMAIN new /\ new[b[i] + l] = ss[i][l]
        BY <1>10, <3>1, <4>4
      <4>6. v <= l /\ b[i] \in Nat
        BY <1>5, <3>1, <4>2, <4>3
      <4> HIDE DEF l
      <4>7. b[i] + l >= b[i] + v
        BY <4>2, <4>4, <4>6
      <4> QED
        BY <4>2, <4>3, <4>4, <4>5, <4>7
    <3> QED
      BY <3>1, <3>2
  <2> QED
    BY <2>1, <2>2, <2>3, <2>4 DEF HeardLast
<1>19. Typed(0, sb, new, outs2, hd2)
  BY <1>1, <1>4, <1>17, SpawnAssumption DEF Typed
<1> QED
  BY <1>11, <1>12, <1>13, <1>15, <1>18, <1>19 DEF Sound, new

\* Streams of one, two and three events, of which each causes the next.
LEMMA OfSubOne ==
  ASSUME NEW i \in 1 .. MaxSpawn, NEW d \in Step, NEW kind \in {"model", "failure"},
         NEW ok \in BOOLEAN
  PROVE  OfSub(i, d, <<Event(SubStep(i, kind), <<d>>, ok)>>)
<1> DEFINE x == Event(SubStep(i, kind), <<d>>, ok)
<1>1. x \in EventRec /\ x.step.agent = i /\ x.step.kind = kind /\ Range(x.causes) = {d}
  BY SpawnAssumption DEF Event, EventRec, Step, SubStep, Range
<1> HIDE DEF x
<1>2. <<x>> \in Seq(EventRec) /\ <<x>> # <<>> /\ DOMAIN <<x>> = {1} /\ <<x>>[1] = x
  BY <1>1
<1> QED
  BY <1>1, <1>2 DEF OfSub, OnceEach, x

LEMMA OfSubTwo ==
  ASSUME NEW i \in 1 .. MaxSpawn, NEW d \in Step, NEW kind \in {"model", "failure"},
         NEW ok \in BOOLEAN, NEW okay \in BOOLEAN
  PROVE  OfSub(i, d, <<Event(SubStep(i, "search"), <<d>>, ok),
                       Event(SubStep(i, kind), <<SubStep(i, "search")>>, okay)>>)
<1> DEFINE x == Event(SubStep(i, "search"), <<d>>, ok)
           y == Event(SubStep(i, kind), <<SubStep(i, "search")>>, okay)
<1>1. /\ x \in EventRec /\ x.step.agent = i /\ x.step.kind = "search" /\ Range(x.causes) = {d}
      /\ x.step = SubStep(i, "search")
  BY SpawnAssumption DEF Event, EventRec, Step, SubStep, Range
<1>2. /\ y \in EventRec /\ y.step.agent = i /\ y.step.kind = kind
      /\ Range(y.causes) = {SubStep(i, "search")}
  BY SpawnAssumption DEF Event, EventRec, Step, SubStep, Range
<1> HIDE DEF x, y
<1>3. /\ <<x, y>> \in Seq(EventRec) /\ <<x, y>> # <<>> /\ DOMAIN <<x, y>> = {1, 2}
      /\ <<x, y>>[1] = x /\ <<x, y>>[2] = y
  BY <1>1, <1>2
<1>4. OnceEach(<<x, y>>)
  BY <1>1, <1>2, <1>3 DEF OnceEach
<1>5. \A k \in DOMAIN <<x, y>> : \A c \in Range(<<x, y>>[k].causes) :
        c = d \/ \E j \in DOMAIN <<x, y>> : j < k /\ <<x, y>>[j].step = c
  BY <1>1, <1>2, <1>3
<1> QED
  BY <1>1, <1>2, <1>3, <1>4, <1>5 DEF OfSub, x, y

LEMMA OfSubThree ==
  ASSUME NEW i \in 1 .. MaxSpawn, NEW d \in Step
  PROVE  OfSub(i, d, <<Event(SubStep(i, "search"), <<d>>, TRUE),
                       Event(SubStep(i, "model"), <<SubStep(i, "search")>>, FALSE),
                       Event(SubStep(i, "failure"), <<SubStep(i, "model")>>, FALSE)>>)
<1> DEFINE x == Event(SubStep(i, "search"), <<d>>, TRUE)
           y == Event(SubStep(i, "model"), <<SubStep(i, "search")>>, FALSE)
           z == Event(SubStep(i, "failure"), <<SubStep(i, "model")>>, FALSE)
<1>1. /\ x \in EventRec /\ x.step.agent = i /\ x.step.kind = "search" /\ Range(x.causes) = {d}
      /\ x.step = SubStep(i, "search")
  BY SpawnAssumption DEF Event, EventRec, Step, SubStep, Range
<1>2. /\ y \in EventRec /\ y.step.agent = i /\ y.step.kind = "model"
      /\ Range(y.causes) = {SubStep(i, "search")} /\ y.step = SubStep(i, "model")
  BY SpawnAssumption DEF Event, EventRec, Step, SubStep, Range
<1>3. /\ z \in EventRec /\ z.step.agent = i /\ z.step.kind = "failure"
      /\ Range(z.causes) = {SubStep(i, "model")}
  BY SpawnAssumption DEF Event, EventRec, Step, SubStep, Range
<1> HIDE DEF x, y, z
<1>4. /\ <<x, y, z>> \in Seq(EventRec) /\ <<x, y, z>> # <<>> /\ DOMAIN <<x, y, z>> = {1, 2, 3}
      /\ <<x, y, z>>[1] = x /\ <<x, y, z>>[2] = y /\ <<x, y, z>>[3] = z
  BY <1>1, <1>2, <1>3
<1> DEFINE s == <<x, y, z>>
<1>5. s \in Seq(EventRec) /\ s # <<>> /\ DOMAIN s = {1, 2, 3} /\ s[1] = x /\ s[2] = y /\ s[3] = z
  BY <1>4
<1> HIDE DEF s
<1>6. OnceEach(s)
  BY <1>1, <1>2, <1>3, <1>5 DEF OnceEach
<1>7. \A k \in DOMAIN s : \A c \in Range(s[k].causes) :
        c = d \/ \E j \in DOMAIN s : j < k /\ s[j].step = c
  BY <1>1, <1>2, <1>3, <1>5
<1>8. OfSub(i, d, s)
  BY <1>1, <1>2, <1>3, <1>5, <1>6, <1>7 DEF OfSub
<1> QED
  BY <1>8 DEF s, x, y, z

LEMMA Tuples ==
  ASSUME NEW x, NEW y, NEW z
  PROVE  /\ <<x>> \o <<y>> = <<x, y>>
         /\ <<x>> \o <<y, z>> = <<x, y, z>>
<1> DEFINE S == {x, y, z}
<1>1. <<x>> \in Seq(S) /\ <<y>> \in Seq(S) /\ <<y, z>> \in Seq(S)
  OBVIOUS
<1>2. <<x, y>> \in Seq(S) /\ <<x, y, z>> \in Seq(S)
  OBVIOUS
<1> HIDE DEF S
<1>3. <<x>> \o <<y>> = <<x, y>>
  <2>1. /\ <<x>> \o <<y>> \in Seq(S) /\ Len(<<x>> \o <<y>>) = 2
        /\ (<<x>> \o <<y>>)[1] = x /\ (<<x>> \o <<y>>)[2] = y
    BY <1>1
  <2> DEFINE p == <<x>> \o <<y>>
             q == <<x, y>>
  <2>2. /\ p \in Seq(S) /\ q \in Seq(S) /\ Len(p) = 2 /\ Len(q) = 2
        /\ p[1] = x /\ p[2] = y /\ q[1] = x /\ q[2] = y
    BY <1>2, <2>1
  <2> HIDE DEF p, q
  <2>3. Len(p) = Len(q) /\ \A k \in 1 .. Len(p) : p[k] = q[k]
    BY <2>2
  <2>4. p = q
    BY <2>2, <2>3, SeqEqual, Zenon
  <2> QED
    BY <2>4 DEF p, q
<1>4. <<x>> \o <<y, z>> = <<x, y, z>>
  <2>1. /\ <<x>> \o <<y, z>> \in Seq(S) /\ Len(<<x>> \o <<y, z>>) = 3
        /\ (<<x>> \o <<y, z>>)[1] = x /\ (<<x>> \o <<y, z>>)[2] = y
        /\ (<<x>> \o <<y, z>>)[3] = z
    BY <1>1
  <2> DEFINE p == <<x>> \o <<y, z>>
             q == <<x, y, z>>
  <2>2. /\ p \in Seq(S) /\ q \in Seq(S) /\ Len(p) = 3 /\ Len(q) = 3
        /\ p[1] = x /\ p[2] = y /\ p[3] = z /\ q[1] = x /\ q[2] = y /\ q[3] = z
    BY <1>2, <2>1
  <2> HIDE DEF p, q
  <2>3. Len(p) = Len(q) /\ \A k \in 1 .. Len(p) : p[k] = q[k]
    BY <2>2
  <2>4. p = q
    BY <2>2, <2>3, SeqEqual, Zenon
  <2> QED
    BY <2>4 DEF p, q
<1> QED
  BY <1>3, <1>4

\* What either orchestrator records of a Sub that ended.
LEMMA EventsOfSub ==
  ASSUME runner \in {"trainable", "api"}, NEW e \in Episodes, NEW i \in 1 .. MaxSpawn,
         subs[e][i] \in Ends, NEW d \in Step
  PROVE  /\ OfSub(i, d, EventsOf(e, i, d))
         /\ runner = "api" => Len(EventsOf(e, i, d)) = 1
<1>1. CASE runner = "api"
  <2>1. EventsOf(e, i, d) = <<Event(SubStep(i, "model"), <<d>>, subs[e][i] = "success")>>
    BY <1>1 DEF EventsOf, ApiEvents
  <2>2. (subs[e][i] = "success") \in BOOLEAN
    OBVIOUS
  <2> DEFINE ok == subs[e][i] = "success"
  <2>3. OfSub(i, d, <<Event(SubStep(i, "model"), <<d>>, ok)>>)
    <3> HIDE DEF ok
    <3>1. ok \in BOOLEAN
      BY DEF ok
    <3> QED
      BY <3>1, OfSubOne
  <2> QED
    BY <2>1, <2>3
<1>2. CASE runner # "api"
  <2>1. EventsOf(e, i, d) = TrainableEvents(e, i, d)
    BY <1>2 DEF EventsOf
  <2>2. subs[e][i] \in {"search", "generate", "success", "decode"}
    BY <1>2 DEF Ends, TrainableEnds, ApiEnds
  <2> DEFINE search == SubStep(i, "search")
             model == SubStep(i, "model")
             failure == SubStep(i, "failure")
  <2>3. CASE subs[e][i] = "search"
    <3>1. TrainableEvents(e, i, d) =
            <<Event(search, <<d>>, FALSE), Event(failure, <<search>>, FALSE)>>
      <4>1. TrainableEvents(e, i, d) =
              <<Event(search, <<d>>, FALSE)>> \o <<Event(failure, <<search>>, FALSE)>>
        BY <2>3 DEF TrainableEvents
      <4> QED
        BY <4>1, Tuples
    <3> QED
      BY <1>2, <2>1, <3>1, OfSubTwo
  <2>4. CASE subs[e][i] = "generate"
    <3>1. TrainableEvents(e, i, d) =
            <<Event(search, <<d>>, TRUE), Event(failure, <<search>>, FALSE)>>
      <4>1. TrainableEvents(e, i, d) =
              <<Event(search, <<d>>, TRUE)>> \o <<Event(failure, <<search>>, FALSE)>>
        BY <2>4 DEF TrainableEvents
      <4> QED
        BY <4>1, Tuples
    <3> QED
      BY <1>2, <2>1, <3>1, OfSubTwo
  <2>5. CASE subs[e][i] = "success"
    <3>1. TrainableEvents(e, i, d) =
            <<Event(search, <<d>>, TRUE), Event(model, <<search>>, TRUE)>>
      <4>1. TrainableEvents(e, i, d) =
              <<Event(search, <<d>>, TRUE)>> \o <<Event(model, <<search>>, TRUE)>>
        BY <2>5 DEF TrainableEvents
      <4> QED
        BY <4>1, Tuples
    <3> QED
      BY <1>2, <2>1, <3>1, OfSubTwo
  <2>6. CASE subs[e][i] = "decode"
    <3>1. TrainableEvents(e, i, d) =
            <<Event(search, <<d>>, TRUE), Event(model, <<search>>, FALSE),
              Event(failure, <<model>>, FALSE)>>
      <4>1. TrainableEvents(e, i, d) =
              <<Event(search, <<d>>, TRUE)>> \o
                (<<Event(model, <<search>>, FALSE)>> \o <<Event(failure, <<model>>, FALSE)>>)
        BY <2>6 DEF TrainableEvents
      <4> DEFINE x == Event(search, <<d>>, TRUE)
                 y == Event(model, <<search>>, FALSE)
                 z == Event(failure, <<model>>, FALSE)
      <4>2. TrainableEvents(e, i, d) = <<x>> \o (<<y>> \o <<z>>)
        BY <4>1
      <4> HIDE DEF x, y, z
      <4>3. <<y>> \o <<z>> = <<y, z>> /\ <<x>> \o <<y, z>> = <<x, y, z>>
        BY Tuples
      <4>4. TrainableEvents(e, i, d) = <<x, y, z>>
        BY <4>2, <4>3
      <4> QED
        BY <4>4 DEF x, y, z
    <3> QED
      BY <1>2, <2>1, <3>1, OfSubThree
  <2> QED
    BY <2>2, <2>3, <2>4, <2>5, <2>6
<1> QED
  BY <1>1, <1>2

\* What is told of a Sub names what was recorded of it.
LEMMA OutcomeNames ==
  ASSUME NEW e, NEW i, NEW d, NEW st, OfSub(i, d, st)
  PROVE  /\ Outcome(e, i, st) \in OutcomeRec
         /\ Outcome(e, i, st).search \cup Outcome(e, i, st).model \subseteq StepsOf(st)
<1>1. \A kind : StepIn(st, kind) \subseteq StepsOf(st)
  BY DEF StepIn, StepsOf, ToSet
<1>2. StepsOf(st) \subseteq Step
  <2> SUFFICES ASSUME NEW k \in DOMAIN st PROVE st[k].step \in Step
    BY DEF StepsOf
  <2>1. st[k] \in EventRec
    BY DEF OfSub
  <2> QED
    BY <2>1 DEF EventRec
<1> QED
  BY <1>1, <1>2 DEF Outcome, OutcomeRec

-----------------------------------------------------------------------------
(* Every episode leaves a sound stream                                       *)

PerEpisode ==
  /\ pc = [e \in Episodes |-> pc[e]]
  /\ attempt = [e \in Episodes |-> attempt[e]]
  /\ subs = [e \in Episodes |-> subs[e]]
  /\ events = [e \in Episodes |-> events[e]]
  /\ outcomes = [e \in Episodes |-> outcomes[e]]
  /\ heard = [e \in Episodes |-> heard[e]]

Sounds(e) == Sound(pc[e], attempt[e], subs[e], events[e], outcomes[e], heard[e])

\* A Sub ends in a way its orchestrator knows.
SubsKnown(e) ==
  \A i \in DOMAIN subs[e] :
    subs[e][i] \in {"queued", "searching", "generating", "refused"} \cup Ends

AloneWhenApi == runner = "api" => \A e \in Episodes \ {Alone} : pc[e] = "absent"

EInv ==
  /\ runner \in {"trainable", "api"}
  /\ PerEpisode
  /\ AloneWhenApi
  /\ \A e \in Episodes : Sounds(e) /\ SubsKnown(e)

\* The other episodes are as they were.
OnlyOf(e) ==
  \A f \in Episodes \ {e} :
    /\ pc'[f] = pc[f] /\ attempt'[f] = attempt[f] /\ subs'[f] = subs[f]
    /\ events'[f] = events[f] /\ outcomes'[f] = outcomes[f] /\ heard'[f] = heard[f]

LEMMA OneEpisode ==
  ASSUME EInv, NEW e \in Episodes, UNCHANGED runner, PerEpisode', OnlyOf(e),
         pc[e] # "absent", Sounds(e)', SubsKnown(e)'
  PROVE  EInv'
<1>1. Ends' = Ends
  BY DEF Ends
<1>2. ASSUME NEW f \in Episodes PROVE (Sounds(f) /\ SubsKnown(f))'
  <2>1. CASE f = e
    BY <2>1
  <2>2. CASE f # e
    BY <1>1, <2>2 DEF EInv, OnlyOf, Sounds, SubsKnown
  <2> QED
    BY <2>1, <2>2
<1>3. AloneWhenApi'
  BY DEF EInv, AloneWhenApi, OnlyOf
<1>4. (runner \in {"trainable", "api"})'
  BY DEF EInv
<1> QED
  BY <1>2, <1>3, <1>4 DEF EInv

\* An orchestrator begins with empty streams.
LEMMA StreamsInit == Init => EInv
<1> SUFFICES ASSUME Init PROVE EInv
  OBVIOUS
<1>1. runner \in {"trainable", "api"} /\ PerEpisode /\ AloneWhenApi
  BY DEF Init, PerEpisode, AloneWhenApi
<1>2. ASSUME NEW e \in Episodes PROVE Sounds(e) /\ SubsKnown(e)
  <2>1. /\ pc[e] \in {"absent", "initial"} /\ attempt[e] = 0 /\ subs[e] = <<>>
        /\ events[e] = <<>> /\ outcomes[e] = <<>> /\ heard[e] = <<>>
    BY DEF Init
  <2>2. Sound(pc[e], 0, <<>>, <<>>, <<>>, <<>>)
    BY <2>1, SpawnAssumption
       DEF Sound, Typed, OnceEach, CausedEarlier, AttemptsInOrder, HeardLast, OutcomesNamed,
           Generating, StepsOf, Range
  <2> QED
    BY <2>1, <2>2 DEF Sounds, SubsKnown
<1> QED
  BY <1>1, <1>2 DEF EInv

\* An episode that ended keeps what it has; of the order of Main's attempts nothing more is
\* said.
LEMMA SoundWhenOver ==
  ASSUME NEW p \in Generating, NEW q \in Over, NEW a, NEW sb, NEW evs, NEW outs, NEW hd,
         Sound(p, a, sb, evs, outs, hd)
  PROVE  Sound(q, a, sb, evs, outs, hd)
<1>1. q \notin {"absent", "initial", "subs", "final"}
  BY DEF Over, Traced
<1>2. AttemptsInOrder(q, a, sb, evs)
  BY <1>1 DEF AttemptsInOrder, Generating
<1>3. Len(outs) = Len(sb)
  BY DEF Sound, HeardLast, Generating
<1>4. HeardLast(q, sb, evs, outs, hd)
  BY <1>1, <1>3 DEF Sound, HeardLast
<1> QED
  BY <1>2, <1>4 DEF Sound

\* What a turn of Main records.
NewAttempt(e, ok) ==
  Append(events[e], Event(MainStep(pc[e], attempt[e]), CausesOfAttempt(e), ok))

Sequels(p, a, sb, new, outs, hd) ==
  /\ \A q \in Over : Sound(q, a, sb, new, outs, hd)
  /\ a < Repairs => Sound(p, a + 1, sb, new, outs, hd)
  /\ p = "initial" =>
       \A n \in 1 .. MaxSpawn :
         Sound("subs", a, [i \in 1 .. n |-> "queued"], new, outs, hd)

\* A recorded attempt and its sequel: the episode ends, repeats the attempt, or delegates.
LEMMA AttemptSequels ==
  ASSUME NEW p \in Generating, NEW a, NEW sb, NEW evs, NEW outs, NEW hd, NEW ok \in BOOLEAN,
         Sound(p, a, sb, evs, outs, hd),
         NEW cs, cs = hd \o (IF a = 0 THEN <<>> ELSE <<MainStep(p, a - 1)>>),
         NEW new, new = Append(evs, Event(MainStep(p, a), cs, ok))
  PROVE  Sequels(p, a, sb, new, outs, hd)
<1>0. WellRecorded(p, a, sb, evs, outs, hd, Event(MainStep(p, a), cs, ok), new)
  BY AttemptRecorded
<1>1. /\ new \in Seq(EventRec) /\ Len(new) = Len(evs) + 1 /\ Len(evs) \in Nat
      /\ \A k \in 1 .. Len(evs) : new[k] = evs[k]
      /\ new[Len(evs) + 1] = Event(MainStep(p, a), cs, ok)
      /\ OnceEach(new)
      /\ CausedEarlier(new)
      /\ OutcomesNamed(new, outs)
      /\ MainStep(p, a) \in StepsOf(new)
      /\ \A q : q \notin {"absent", "initial", "subs"} => HeardLast(q, sb, new, outs, hd)
      /\ p = "initial" => /\ outs = <<>> /\ hd = <<>>
                          /\ HeardLast("subs", sb, new, outs, hd)
                          /\ HeardLast("initial", sb, new, outs, hd)
  BY <1>0 DEF WellRecorded
<1>2. /\ a \in 0 .. Repairs /\ sb \in Seq(SubState) /\ Len(sb) <= MaxSpawn
      /\ evs \in Seq(EventRec) /\ outs \in Seq(OutcomeRec) /\ hd \in Seq(Step)
  BY DEF Sound, Typed
<1> DEFINE n == Len(evs)
<1>3. /\ DOMAIN new = 1 .. n + 1 /\ DOMAIN evs = 1 .. n /\ n \in Nat
      /\ new[n + 1].step = MainStep(p, a) /\ \A k \in 1 .. n : new[k] = evs[k]
  BY <1>1, <1>2 DEF Event
<1> HIDE DEF n
<1>4. ASSUME NEW k \in DOMAIN new, k # n + 1
      PROVE  k \in DOMAIN evs /\ new[k] = evs[k]
  BY <1>3, <1>4
<1>5. ASSUME NEW q \in Over PROVE Sound(q, a, sb, new, outs, hd)
  <2>1. q \notin {"absent", "initial", "subs", "final"}
    BY DEF Over, Traced
  <2>2. AttemptsInOrder(q, a, sb, new)
    BY <2>1 DEF AttemptsInOrder, Generating
  <2>3. Typed(a, sb, new, outs, hd)
    BY <1>1, <1>2 DEF Typed
  <2> QED
    BY <1>1, <2>1, <2>2, <2>3 DEF Sound
<1>6. ASSUME a < Repairs PROVE Sound(p, a + 1, sb, new, outs, hd)
  <2>1. a + 1 \in 0 .. Repairs /\ (a + 1) - 1 = a /\ a + 1 > 0 /\ a \in Nat
    BY <1>2, <1>6, SpawnAssumption
  <2>2. Typed(a + 1, sb, new, outs, hd)
    BY <1>1, <1>2, <2>1 DEF Typed
  <2>3. ASSUME NEW k \in DOMAIN new, new[k].step.agent = 0, new[k].step.kind = p
        PROVE  new[k].step.index < a + 1
    <3>1. CASE k = n + 1
      <4>1. new[k].step.index = a
        BY <1>3, <3>1 DEF MainStep
      <4> QED
        BY <2>1, <4>1
    <3>2. CASE k # n + 1
      <4>1. k \in DOMAIN evs /\ new[k] = evs[k]
        BY <1>4, <3>2
      <4>2. evs[k].step.index < a
        BY <2>3, <4>1 DEF Sound, AttemptsInOrder
      <4>3. evs[k].step.index \in Nat
        <5>1. evs[k] \in EventRec
          BY <1>2, <4>1
        <5> QED
          BY <5>1, SpawnAssumption DEF EventRec, Step
      <4> QED
        BY <2>1, <4>1, <4>2, <4>3
    <3> QED
      BY <3>1, <3>2
  <2>4. p = "initial" =>
          \A k \in DOMAIN new : new[k].step.agent = 0 /\ new[k].step.kind = "initial"
    BY <1>3, <1>4 DEF Sound, AttemptsInOrder, MainStep
  <2>5. p \in {"subs", "final"} => sb # <<>>
    BY DEF Sound, AttemptsInOrder
  <2>6. p \notin {"absent", "subs"}
    BY DEF Generating
  <2>7. MainStep(p, (a + 1) - 1) \in StepsOf(new)
    BY <1>1, <2>1
  <2>8. AttemptsInOrder(p, a + 1, sb, new)
    BY <2>3, <2>4, <2>5, <2>6, <2>7 DEF AttemptsInOrder
  <2>9. HeardLast(p, sb, new, outs, hd)
    <3>1. p = "initial" \/ p \notin {"absent", "initial", "subs"}
      BY <2>6
    <3> QED
      BY <1>1, <3>1
  <2> QED
    BY <1>1, <2>2, <2>8, <2>9 DEF Sound
<1>7. ASSUME p = "initial", NEW l \in 1 .. MaxSpawn
      PROVE  Sound("subs", a, [i \in 1 .. l |-> "queued"], new, outs, hd)
  <2> DEFINE sb2 == [i \in 1 .. l |-> "queued"]
  <2>1. sb2 \in Seq(SubState) /\ Len(sb2) = l /\ sb2 # <<>>
    <3>1. l \in Nat /\ sb2 \in [1 .. l -> SubState] /\ 1 \in DOMAIN sb2
      BY SpawnAssumption DEF SubState
    <3> HIDE DEF sb2
    <3>2. sb2 \in Seq(SubState) /\ Len(sb2) = l
      BY <3>1, FunctionIsSeq
    <3> QED
      BY <3>1, <3>2
  <2> HIDE DEF sb2
  <2>2. Typed(a, sb2, new, outs, hd)
    BY <1>1, <1>2, <2>1, SpawnAssumption DEF Typed
  <2>3. \A k \in DOMAIN new : new[k].step.agent = 0 /\ new[k].step.kind = "initial"
    BY <1>3, <1>4, <1>7 DEF Sound, AttemptsInOrder, MainStep
  <2>4. new # <<>>
    BY <1>1
  <2>5. AttemptsInOrder("subs", a, sb2, new)
    BY <2>1, <2>3, <2>4 DEF AttemptsInOrder, Generating
  <2>6. HeardLast("subs", sb2, new, outs, hd)
    BY <1>1, <1>7 DEF HeardLast
  <2> QED
    BY <1>1, <2>2, <2>5, <2>6 DEF Sound, sb2
<1> QED
  BY <1>5, <1>6, <1>7 DEF Sequels

\* A turn of Main.
LEMMA TurnSound ==
  ASSUME EInv, NEW e \in Episodes, MainTurn(e) \/ MainRaises(e)
  PROVE  EInv'
<1>1. /\ pc[e] \in Generating /\ UNCHANGED <<runner, outcomes, heard>> /\ Sounds(e)
      /\ SubsKnown(e)
  BY DEF MainTurn, MainRaises, EInv
<1>2. pc[e] # "absent" /\ Ends' = Ends
  BY <1>1 DEF Generating, Ends
<1> SUFFICES PerEpisode' /\ OnlyOf(e) /\ Sounds(e)' /\ SubsKnown(e)'
  BY <1>1, <1>2, OneEpisode
<1>3. CASE MainRaises(e)
  <2>1. pc' = [pc EXCEPT ![e] = "raised"] /\ UNCHANGED <<attempt, subs, events>>
    BY <1>3 DEF MainRaises
  <2>2. PerEpisode' /\ OnlyOf(e) /\ pc'[e] = "raised"
    BY <1>1, <2>1 DEF EInv, PerEpisode, OnlyOf
  <2>3. "raised" \in Over
    BY DEF Over
  <2>4. Sound("raised", attempt[e], subs[e], events[e], outcomes[e], heard[e])
    BY <1>1, <2>3, SoundWhenOver DEF Sounds
  <2> QED
    BY <1>1, <1>2, <2>1, <2>2, <2>4 DEF Sounds, SubsKnown
<1>4. CASE MainTurn(e)
  <2>1. PICK out \in Outputs : Answers(e, out) \/ Delegates(e, out) \/ Errs(e, out)
    BY <1>4 DEF MainTurn
  <2>2. PICK ok \in BOOLEAN : Recorded(e, ok)
    BY <2>1 DEF Answers, Delegates, Errs
  <2> DEFINE new == NewAttempt(e, ok)
             cs == CausesOfAttempt(e)
  <2>3. events' = [events EXCEPT ![e] = new]
    BY <2>2 DEF Recorded, NewAttempt
  <2>4. new = Append(events[e], Event(MainStep(pc[e], attempt[e]), cs, ok))
    BY DEF NewAttempt
  <2>5. cs = heard[e] \o (IF attempt[e] = 0 THEN <<>> ELSE <<MainStep(pc[e], attempt[e] - 1)>>)
    BY DEF CausesOfAttempt
  <2> HIDE DEF new, cs
  <2>6. /\ \A q \in Over : Sound(q, attempt[e], subs[e], new, outcomes[e], heard[e])
        /\ attempt[e] < Repairs =>
             Sound(pc[e], attempt[e] + 1, subs[e], new, outcomes[e], heard[e])
        /\ pc[e] = "initial" =>
             \A n \in 1 .. MaxSpawn :
               Sound("subs", attempt[e], [i \in 1 .. n |-> "queued"], new, outcomes[e], heard[e])
    <3>1. Sequels(pc[e], attempt[e], subs[e], new, outcomes[e], heard[e])
      BY <1>1, <2>4, <2>5, AttemptSequels DEF Sounds
    <3> QED
      BY <3>1 DEF Sequels
  <2>7. events'[e] = new /\ events' = [f \in Episodes |-> events'[f]]
        /\ \A f \in Episodes \ {e} : events'[f] = events[f]
    BY <2>3 DEF EInv, PerEpisode
  <2>8. ASSUME NEW q \in Over, pc' = [pc EXCEPT ![e] = q], UNCHANGED <<attempt, subs>>
        PROVE  PerEpisode' /\ OnlyOf(e) /\ Sounds(e)' /\ SubsKnown(e)'
    <3>1. PerEpisode' /\ OnlyOf(e) /\ pc'[e] = q
      BY <1>1, <2>7, <2>8 DEF EInv, PerEpisode, OnlyOf
    <3>2. Sounds(e)'
      BY <1>1, <2>6, <2>7, <2>8, <3>1 DEF Sounds
    <3> QED
      BY <1>1, <1>2, <2>8, <3>1, <3>2 DEF SubsKnown
  <2>9. CASE Answers(e, out)
    <3>1. "success" \in Over
      BY DEF Over, Traced
    <3> QED
      BY <2>8, <2>9, <3>1 DEF Answers
  <2>10. CASE Delegates(e, out)
    <3>1. pc[e] = "initial" /\ pc' = [pc EXCEPT ![e] = "subs"] /\ UNCHANGED attempt
      BY <2>10 DEF Delegates, Valid
    <3>2. PICK n \in 1 .. MaxSpawn : subs' = [subs EXCEPT ![e] = [i \in 1 .. n |-> "queued"]]
      <4>1. out.count \in 1 .. MaxSpawn
        BY <2>10, SpawnAssumption DEF Delegates, Outputs, Valid
      <4> QED
        BY <2>10, <4>1 DEF Delegates
    <3> DEFINE sb == [i \in 1 .. n |-> "queued"]
    <3>3. /\ subs'[e] = sb /\ pc'[e] = "subs"
          /\ subs' = [f \in Episodes |-> subs'[f]] /\ pc' = [f \in Episodes |-> pc'[f]]
          /\ \A f \in Episodes \ {e} : subs'[f] = subs[f] /\ pc'[f] = pc[f]
      BY <3>1, <3>2 DEF EInv, PerEpisode
    <3>4. Sound("subs", attempt[e], sb, new, outcomes[e], heard[e])
      BY <2>6, <3>1
    <3>5. \A i \in DOMAIN sb : sb[i] = "queued"
      OBVIOUS
    <3> HIDE DEF sb
    <3>6. PerEpisode' /\ OnlyOf(e)
      BY <1>1, <2>7, <3>1, <3>3 DEF EInv, PerEpisode, OnlyOf
    <3>7. Sounds(e)'
      BY <1>1, <2>7, <3>1, <3>3, <3>4 DEF Sounds
    <3> QED
      BY <3>3, <3>5, <3>6, <3>7 DEF SubsKnown
  <2>11. CASE Errs(e, out)
    <3>1. CASE attempt[e] < Repairs
      <4>1. /\ attempt' = [attempt EXCEPT ![e] = attempt[e] + 1] /\ UNCHANGED <<pc, subs>>
        BY <2>11, <3>1 DEF Errs
      <4>2. PerEpisode' /\ OnlyOf(e) /\ attempt'[e] = attempt[e] + 1
        BY <1>1, <2>7, <4>1 DEF EInv, PerEpisode, OnlyOf
      <4>3. Sounds(e)'
        BY <1>1, <2>6, <2>7, <3>1, <4>1, <4>2 DEF Sounds
      <4> QED
        BY <1>1, <1>2, <4>1, <4>2, <4>3 DEF SubsKnown
    <3>2. CASE ~(attempt[e] < Repairs)
      <4>1. PICK q \in Over : pc' = [pc EXCEPT ![e] = q]
        BY <2>11, <3>2 DEF Errs, GivesUp, Over, Traced
      <4>2. UNCHANGED <<attempt, subs>>
        BY <2>11, <3>2 DEF Errs
      <4> QED
        BY <2>8, <4>1, <4>2
    <3> QED
      BY <3>1, <3>2
  <2> QED
    BY <2>1, <2>9, <2>10, <2>11
<1> QED
  BY <1>3, <1>4

\* A Sub goes on: its stream is recorded at the merge.
LEMMA SubSound ==
  ASSUME LInv, EInv, NEW e \in Episodes, NEW i \in DOMAIN subs[e], SubStepOf(e, i)
  PROVE  EInv'
<1>1. PICK x \in {"searching", "generating"} \cup Ends : subs' = [subs EXCEPT ![e][i] = x]
  <2>1. CASE SubBegins(e, i)
    BY <2>1, NeverRefused DEF SubBegins
  <2>2. CASE Searched(e, i)
    BY <2>2 DEF Searched
  <2>3. CASE SubEnds(e, i)
    BY <2>3 DEF SubEnds
  <2> QED
    BY <2>1, <2>2, <2>3 DEF SubStepOf
<1>2. UNCHANGED <<runner, pc, attempt, events, outcomes, heard>> /\ subs[e][i] \notin Ended
  <2>1. CASE SubBegins(e, i)
    BY <2>1, NeverRefused DEF SubBegins, Ended, ApiEnds
  <2>2. CASE Searched(e, i)
    BY <2>2 DEF Searched, Ended, ApiEnds
  <2>3. CASE SubEnds(e, i)
    BY <2>3 DEF SubEnds, Ended, ApiEnds
  <2> QED
    BY <2>1, <2>2, <2>3 DEF SubStepOf
<1>3. pc[e] = "subs" /\ i \in Nat /\ subs[e] \in Seq(SubState)
  BY <1>2, SubIsAwaited
<1>4. /\ subs'[e] = [subs[e] EXCEPT ![i] = x]
      /\ subs' = [f \in Episodes |-> subs'[f]]
      /\ \A f \in Episodes \ {e} : subs'[f] = subs[f]
  BY <1>1 DEF EInv, PerEpisode
<1>5. /\ subs'[e] \in Seq(SubState) /\ Len(subs'[e]) = Len(subs[e])
      /\ DOMAIN subs'[e] = DOMAIN subs[e]
      /\ \A j \in DOMAIN subs[e] : subs'[e][j] = IF j = i THEN x ELSE subs[e][j]
  <2>1. x \in SubState
    BY DEF SubState, Ended, Ends, TrainableEnds, ApiEnds
  <2> QED
    BY <1>3, <1>4, <2>1
<1>6. Sounds(e)'
  <2>1. Sound("subs", attempt[e], subs[e], events[e], outcomes[e], heard[e])
    BY <1>3 DEF EInv, Sounds
  <2>2. subs[e] # <<>> /\ subs'[e] # <<>>
    BY <1>3, <1>5
  <2>3. Sound("subs", attempt[e], subs'[e], events[e], outcomes[e], heard[e])
    BY <1>5, <2>1, <2>2 DEF Sound, Typed, AttemptsInOrder, HeardLast
  <2> QED
    BY <1>2, <1>3, <2>3 DEF Sounds
<1>7. SubsKnown(e)'
  <2>1. Ends' = Ends
    BY <1>2 DEF Ends
  <2> QED
    BY <1>5, <2>1 DEF EInv, SubsKnown
<1>8. PerEpisode' /\ OnlyOf(e)
  BY <1>2, <1>4 DEF EInv, PerEpisode, OnlyOf
<1> QED
  BY <1>2, <1>3, <1>6, <1>7, <1>8, OneEpisode

\* The merge.
LEMMA MergedSound ==
  ASSUME EInv, NEW e \in Episodes, Merge(e)
  PROVE  EInv'
<1> DEFINE d == Last(events[e]).step
           ss == [i \in DOMAIN subs[e] |-> EventsOf(e, i, d)]
           outs2 == [i \in DOMAIN ss |-> Outcome(e, i, ss[i])]
           new == events[e] \o FlattenSeq(ss)
<1>1. /\ pc[e] = "subs"
      /\ \A i \in DOMAIN subs[e] : subs[e][i] \in Ends
      /\ events' = [events EXCEPT ![e] = new]
      /\ outcomes' = [outcomes EXCEPT ![e] = outs2]
      /\ heard' = [heard EXCEPT ![e] = Heard(e, ss)]
      /\ pc' = [pc EXCEPT ![e] = "final"]
      /\ attempt' = [attempt EXCEPT ![e] = 0]
      /\ UNCHANGED <<runner, subs>>
  BY DEF Merge
<1>2. /\ Sound("subs", attempt[e], subs[e], events[e], outcomes[e], heard[e])
      /\ SubsKnown(e)
  BY <1>1 DEF EInv, Sounds
<1>3. /\ subs[e] \in Seq(SubState) /\ DOMAIN subs[e] = 1 .. Len(subs[e])
      /\ Len(subs[e]) \in Nat /\ Len(subs[e]) <= MaxSpawn
      /\ events[e] \in Seq(EventRec) /\ events[e] # <<>>
  BY <1>2 DEF Sound, Typed, AttemptsInOrder
<1>4. d \in Step
  <2>1. Last(events[e]) \in EventRec
    BY <1>3 DEF Last
  <2> QED
    BY <2>1 DEF EventRec
<1> HIDE DEF d
<1>5. \A i \in DOMAIN subs[e] : OfSub(i, d, EventsOf(e, i, d))
  <2> SUFFICES ASSUME NEW i \in DOMAIN subs[e] PROVE OfSub(i, d, EventsOf(e, i, d))
    OBVIOUS
  <2>1. i \in 1 .. MaxSpawn
    BY <1>3, SpawnAssumption
  <2> QED
    BY <1>1, <1>4, <2>1, EventsOfSub DEF EInv
<1>6. /\ DOMAIN ss = DOMAIN subs[e] /\ \A i \in DOMAIN ss : OfSub(i, d, ss[i])
  BY <1>5
<1>7. outs2 = [i \in DOMAIN ss |-> Outcome(e, i, ss[i])]
  OBVIOUS
<1> HIDE DEF ss, outs2, new
<1>8. ss \in Seq(Seq(EventRec)) /\ Len(ss) = Len(subs[e])
  <2>1. ss \in [1 .. Len(subs[e]) -> Seq(EventRec)]
    <3>1. \A i \in DOMAIN ss : ss[i] \in Seq(EventRec)
      BY <1>6 DEF OfSub
    <3>2. ss = [i \in DOMAIN ss |-> ss[i]]
      BY DEF ss
    <3> QED
      BY <1>3, <1>6, <3>1, <3>2
  <2> QED
    BY <1>3, <2>1, FunctionIsSeq
<1>9. /\ outs2 \in Seq(OutcomeRec) /\ Len(outs2) = Len(ss)
      /\ \A i \in DOMAIN ss : outs2[i].search \cup outs2[i].model \subseteq StepsOf(ss[i])
  <2>1. \A i \in DOMAIN ss : /\ outs2[i] \in OutcomeRec
                             /\ outs2[i].search \cup outs2[i].model \subseteq StepsOf(ss[i])
    BY <1>6, <1>7, OutcomeNames
  <2>2. outs2 \in [1 .. Len(ss) -> OutcomeRec]
    <3>1. DOMAIN ss = 1 .. Len(ss)
      BY <1>3, <1>6, <1>8
    <3> QED
      BY <1>7, <2>1, <3>1
  <2>3. Len(ss) \in Nat
    BY <1>3, <1>8
  <2> QED
    BY <2>1, <2>2, <2>3, FunctionIsSeq
<1>10. Heard(e, ss) = [i \in 1 .. Len(ss) |-> Last(ss[i]).step]
  BY DEF Heard
<1> DEFINE hd2 == Heard(e, ss)
<1>11. Sound("final", 0, subs[e], new, outs2, hd2)
  <2> HIDE DEF hd2
  <2>1. hd2 = [i \in 1 .. Len(ss) |-> Last(ss[i]).step]
    BY <1>10 DEF hd2
  <2>2. \A i \in DOMAIN ss : OfSub(i, Last(events[e]).step, ss[i])
    BY <1>6 DEF d
  <2>3. new = events[e] \o FlattenSeq(ss)
    BY DEF new
  <2>4. Sound("final", 0, subs[e], events[e] \o FlattenSeq(ss), outs2, hd2)
    BY <1>2, <1>6, <1>8, <1>9, <2>1, <2>2, MergeSound
  <2> QED
    BY <2>3, <2>4
<1> HIDE DEF hd2
<1>12. heard' = [heard EXCEPT ![e] = hd2]
  BY <1>1 DEF hd2
<1>13. PerEpisode' /\ OnlyOf(e)
  BY <1>1, <1>12 DEF EInv, PerEpisode, OnlyOf
<1>14. Sounds(e)'
  <2>1. /\ pc'[e] = "final" /\ attempt'[e] = 0 /\ subs'[e] = subs[e] /\ events'[e] = new
        /\ outcomes'[e] = outs2 /\ heard'[e] = hd2
    BY <1>1, <1>12 DEF EInv, PerEpisode
  <2> QED
    BY <1>11, <2>1 DEF Sounds
<1>15. SubsKnown(e)'
  <2>1. Ends' = Ends
    BY <1>1 DEF Ends
  <2> QED
    BY <1>1, <1>2, <2>1 DEF SubsKnown
<1> QED
  BY <1>1, <1>13, <1>14, <1>15, OneEpisode

\* Every step of the orchestrators keeps both invariants.
LEMMA StreamsStep == LInv /\ EInv /\ [Next]_vars => EInv'
<1> SUFFICES ASSUME LInv, EInv, [Next]_vars PROVE EInv'
  OBVIOUS
<1>1. CASE UNCHANGED vars
  <2>1. /\ UNCHANGED runner /\ UNCHANGED pc /\ UNCHANGED attempt /\ UNCHANGED subs
        /\ UNCHANGED events /\ UNCHANGED outcomes /\ UNCHANGED heard
    BY <1>1 DEF vars, episode
  <2>2. Ends' = Ends
    BY <2>1 DEF Ends
  <2>3. PerEpisode' /\ AloneWhenApi'
    BY <2>1 DEF EInv, PerEpisode, AloneWhenApi
  <2> QED
    BY <2>1, <2>2, <2>3 DEF EInv, Sounds, SubsKnown
<1>2. CASE Next
  <2>1. PICK e \in Episodes :
          \/ MainTurn(e)
          \/ MainRaises(e)
          \/ \E i \in DOMAIN subs[e] : SubStepOf(e, i)
          \/ Merge(e)
    BY <1>2 DEF Next
  <2> QED
    BY <2>1, TurnSound, SubSound, MergedSound
<1> QED
  BY <1>1, <1>2

-----------------------------------------------------------------------------
(* What a trace owes its reader                                              *)

\* An injective sequence has as many elements as places.
LEMMA StepsCounted ==
  ASSUME NEW evs \in Seq(EventRec), OnceEach(evs)
  PROVE  Cardinality(StepsOf(evs)) = Len(evs)
<1> DEFINE n == Len(evs)
           f == [k \in 1 .. n |-> evs[k].step]
<1>1. n \in Nat /\ DOMAIN evs = 1 .. n
  OBVIOUS
<1> HIDE DEF n
<1>2. \A j, k \in 1 .. n : f[j] = f[k] => j = k
  BY <1>1 DEF OnceEach
<1>3. \A k \in 1 .. n : f[k] \in StepsOf(evs)
  BY <1>1 DEF StepsOf
<1>4. \A s \in StepsOf(evs) : \E k \in 1 .. n : f[k] = s
  BY <1>1 DEF StepsOf
<1>5. f \in [1 .. n -> StepsOf(evs)]
  BY <1>3
<1> HIDE DEF f
<1>6. f \in Bijection(1 .. n, StepsOf(evs))
  BY <1>2, <1>4, <1>5 DEF Bijection, Injection, Surjection, IsInjective
<1>7. ExistsBijection(1 .. n, StepsOf(evs))
  BY <1>6 DEF ExistsBijection
<1> QED
  BY <1>1, <1>7, FS_CountingElements DEF n

LEMMA SoundIsComplete ==
  ASSUME LInv, EInv
  PROVE  TraceComplete
<1> SUFFICES ASSUME NEW e \in Episodes PROVE Consistent(e) /\ AllHeard(e)
  BY DEF TraceComplete
<1> DEFINE evs == events[e]
<1>1. /\ evs \in Seq(EventRec) /\ OnceEach(evs) /\ CausedEarlier(evs)
      /\ OutcomesNamed(evs, outcomes[e])
      /\ HeardLast(pc[e], subs[e], evs, outcomes[e], heard[e])
      /\ subs[e] \in Seq(SubState) /\ outcomes[e] \in Seq(OutcomeRec) /\ heard[e] \in Seq(Step)
  BY DEF EInv, Sounds, Sound, Typed
<1>2. Cardinality(StepsOf(evs)) = Len(evs)
  BY <1>1, StepsCounted
<1> HIDE DEF evs
<1>3. DOMAIN evs = 1 .. Len(evs) /\ Len(evs) \in Nat
  BY <1>1
<1>4. ASSUME NEW k \in DOMAIN evs
      PROVE  Range(evs[k].causes) \subseteq StepsOf(SubSeq(evs, 1, k - 1))
  <2> SUFFICES ASSUME NEW c \in Range(evs[k].causes)
               PROVE  c \in StepsOf(SubSeq(evs, 1, k - 1))
    OBVIOUS
  <2>1. PICK j \in DOMAIN evs : j < k /\ evs[j].step = c
    BY <1>1 DEF CausedEarlier
  <2>2. k \in 1 .. Len(evs) /\ j \in 1 .. k - 1 /\ k - 1 \in 0 .. Len(evs)
    BY <1>3, <2>1
  <2>3. j \in DOMAIN SubSeq(evs, 1, k - 1) /\ SubSeq(evs, 1, k - 1)[j] = evs[j]
    BY <1>1, <1>3, <2>2
  <2> QED
    BY <2>1, <2>3 DEF StepsOf
<1>5. Consistent(e)
  BY <1>1, <1>2, <1>4 DEF Consistent, OutcomesNamed, evs
<1>6. ASSUME pc[e] \in Traced, subs[e] # <<>>
      PROVE  /\ Len(outcomes[e]) = Len(subs[e])
             /\ DOMAIN heard[e] = DOMAIN subs[e]
  <2>1. pc[e] # "subs"
    BY <1>6 DEF Traced
  <2>2. Len(heard[e]) = Len(outcomes[e]) /\ Len(outcomes[e]) = Len(subs[e])
    BY <1>1, <2>1 DEF HeardLast
  <2> QED
    BY <1>1, <2>2
<1>7. ASSUME pc[e] \in Traced, subs[e] # <<>>, NEW k \in DOMAIN evs,
             evs[k].step.kind = "final", NEW i \in DOMAIN subs[e]
      PROVE  \E cause \in Range(evs[k].causes) :
               /\ cause.agent = i
               /\ \A j \in DOMAIN evs : evs[j].step.agent = i =>
                    \E n \in DOMAIN evs : n >= j /\ evs[n].step = cause
  <2>1. i \in DOMAIN heard[e]
    BY <1>6, <1>7
  <2>2. heard[e][i] \in Range(evs[k].causes)
    BY <1>1, <1>7, <2>1 DEF HeardLast, Range
  <2> QED
    BY <1>1, <2>1, <2>2 DEF HeardLast
<1>8. AllHeard(e)
  BY <1>6, <1>7 DEF AllHeard, evs
<1> QED
  BY <1>5, <1>8

-----------------------------------------------------------------------------
(* A pilot                                                                   *)

\* The next episode of a pilot finds everything as the first one did: nothing is at work in
\* any other.
LEMMA NextEpisode ==
  ASSUME LInv, EInv, EpisodeDone
  PROVE  LInv' /\ EInv'
<1>1. runner = "api" /\ UNCHANGED runner /\ pc[Alone] \in Over /\ Alone \in Episodes
  BY SpawnAssumption DEF EpisodeDone
<1>2. CASE UNCHANGED <<pc, attempt, subs, events, outcomes, heard, budget>>
  <2>1. /\ UNCHANGED pc /\ UNCHANGED attempt /\ UNCHANGED subs
        /\ UNCHANGED events /\ UNCHANGED outcomes /\ UNCHANGED heard
        /\ UNCHANGED permits /\ UNCHANGED ledger
    BY <1>2 DEF budget
  <2> QED
    BY <1>1, <2>1, LedgerStep, StreamsStep DEF vars, episode, budget
<1>3. CASE ~ UNCHANGED <<pc, attempt, subs, events, outcomes, heard, budget>>
  <2>1. /\ pc' = [pc EXCEPT ![Alone] = "initial"]
        /\ attempt' = [attempt EXCEPT ![Alone] = 0]
        /\ subs' = [subs EXCEPT ![Alone] = <<>>]
        /\ events' = [events EXCEPT ![Alone] = <<>>]
        /\ outcomes' = [outcomes EXCEPT ![Alone] = <<>>]
        /\ heard' = [heard EXCEPT ![Alone] = <<>>]
        /\ permits' = Capacity
        /\ ledger' = {}
    BY <1>3 DEF EpisodeDone
  <2>2. \A e \in Episodes \ {Alone} : pc[e] = "absent" /\ subs[e] = <<>>
    BY <1>1 DEF EInv, AloneWhenApi, LInv, Awaited
  <2>3. /\ DOMAIN pc = Episodes /\ DOMAIN subs = Episodes
        /\ pc'[Alone] = "initial" /\ \A e \in Episodes : subs'[e] = <<>>
        /\ \A e \in Episodes \ {Alone} : pc'[e] = "absent"
    BY <1>1, <2>1, <2>2 DEF LInv, Control
  <2>4. Control'
    <3>1. <<>> \in Seq(SubState)
      OBVIOUS
    <3> QED
      BY <1>1, <2>1, <3>1, SpawnAssumption DEF LInv, Control, Generating
  <2>5. Awaited' /\ NoneRefused'
    BY <2>3 DEF Awaited, NoneRefused
  <2>6. Reserved'
    BY <2>1, <2>3 DEF Reserved
  <2>7. Counted'
    BY <2>1, FS_EmptySet, SpawnAssumption DEF Counted
  <2>8. PerEpisode' /\ OnlyOf(Alone)
    BY <1>1, <2>1 DEF EInv, PerEpisode, OnlyOf
  <2>9. /\ attempt'[Alone] = 0 /\ events'[Alone] = <<>> /\ outcomes'[Alone] = <<>>
        /\ heard'[Alone] = <<>>
    BY <1>1, <2>1 DEF EInv, PerEpisode
  <2>10. Sound("initial", 0, <<>>, <<>>, <<>>, <<>>)
    BY SpawnAssumption
       DEF Sound, Typed, OnceEach, CausedEarlier, AttemptsInOrder, HeardLast, OutcomesNamed,
           Generating, StepsOf, Range
  <2>11. Sounds(Alone)' /\ SubsKnown(Alone)'
    BY <1>1, <2>3, <2>9, <2>10 DEF Sounds, SubsKnown
  <2>12. pc[Alone] # "absent"
    BY <1>1 DEF Over, Traced
  <2>13. EInv'
    BY <1>1, <2>8, <2>11, <2>12, OneEpisode
  <2> QED
    BY <2>4, <2>5, <2>6, <2>7, <2>13 DEF LInv
<1> QED
  BY <1>2, <1>3

LEMMA EpisodesStep == LInv /\ EInv /\ [PilotNext]_pilotVars => LInv' /\ EInv'
<1> SUFFICES ASSUME LInv, EInv, [PilotNext]_pilotVars PROVE LInv' /\ EInv'
  OBVIOUS
<1>1. [Next]_vars \/ EpisodeDone
  BY DEF PilotNext, pilotVars, Compare, Judge
<1> QED
  BY <1>1, LedgerStep, StreamsStep, NextEpisode

-----------------------------------------------------------------------------
(* What an episode of the API orchestrator counts                            *)

Tries(evs) == {k \in DOMAIN evs : FromMain(evs[k])}

Invalid(evs) == {k \in DOMAIN evs : FromMain(evs[k]) /\ ~evs[k].ok}

\* The last event is Main's last invalid attempt.
UsedUp(evs) ==
  /\ evs # <<>>
  /\ Last(evs).step.agent = 0 /\ Last(evs).step.index = Repairs /\ ~Last(evs).ok

\* Each phase that is over has one valid attempt of Main.
PhasesOver(p, outs) ==
  LET phases == IF outs = <<>> THEN 1 ELSE 2 IN
  IF p \in {"subs", "success"} THEN phases ELSE phases - 1

Tally(p, a, evs, outs) ==
  /\ Len(evs) = Cardinality(Tries(evs)) + Len(outs)
  /\ Cardinality(Tries(evs)) - Cardinality(Invalid(evs)) = PhasesOver(p, outs)
  /\ Cardinality(Invalid(evs)) >= a
  /\ p \in Generating => ~UsedUp(evs)
  /\ p = "raised" /\ UsedUp(evs) => Cardinality(Invalid(evs)) > Repairs

CInv ==
  runner = "api" => Tally(pc[Alone], attempt[Alone], events[Alone], outcomes[Alone])

LEMMA CountOneMore ==
  ASSUME NEW n \in Nat, NEW T, T \subseteq 1 .. n
  PROVE  /\ Cardinality(T) \in Nat
         /\ Cardinality(T \cup {n + 1}) = Cardinality(T) + 1
<1>1. IsFiniteSet(T)
  <2>1. IsFiniteSet(1 .. n)
    BY FS_Interval
  <2> QED
    BY <2>1, FS_Subset
<1>2. n + 1 \notin T
  OBVIOUS
<1> QED
  BY <1>1, <1>2, FS_AddElement, FS_CardinalityType

LEMMA TallyTypes ==
  ASSUME NEW evs \in Seq(EventRec)
  PROVE  /\ Cardinality(Tries(evs)) \in Nat /\ Cardinality(Invalid(evs)) \in Nat
         /\ Len(evs) \in Nat
<1>1. Len(evs) \in Nat /\ DOMAIN evs = 1 .. Len(evs)
  OBVIOUS
<1>2. Tries(evs) \subseteq 1 .. Len(evs) /\ Invalid(evs) \subseteq 1 .. Len(evs)
  BY <1>1 DEF Tries, Invalid
<1> QED
  BY <1>1, <1>2, CountOneMore

\* Another attempt of Main.
LEMMA TallyOfAttempt ==
  ASSUME NEW evs \in Seq(EventRec), NEW ev \in EventRec, FromMain(ev),
         NEW new, new = Append(evs, ev)
  PROVE  /\ Len(new) = Len(evs) + 1
         /\ Cardinality(Tries(new)) = Cardinality(Tries(evs)) + 1
         /\ Cardinality(Invalid(new)) = Cardinality(Invalid(evs)) + (IF ev.ok THEN 0 ELSE 1)
         /\ UsedUp(new) <=> ev.step.index = Repairs /\ ~ev.ok
<1> DEFINE n == Len(evs)
<1>1. /\ new \in Seq(EventRec) /\ Len(new) = n + 1 /\ n \in Nat
      /\ \A k \in 1 .. n : new[k] = evs[k]
      /\ new[n + 1] = ev
  BY AppendIs
<1>2. DOMAIN new = 1 .. n + 1 /\ DOMAIN evs = 1 .. n
  BY <1>1
<1>3. new # <<>> /\ Last(new) = ev
  BY <1>1, <1>2 DEF Last
<1> HIDE DEF n
<1>4. Tries(new) = Tries(evs) \cup {n + 1}
  BY <1>1, <1>2 DEF Tries
<1>5. Invalid(new) = IF ev.ok THEN Invalid(evs) ELSE Invalid(evs) \cup {n + 1}
  <2>1. CASE ev.ok
    BY <1>1, <1>2, <2>1 DEF Invalid
  <2>2. CASE ~ev.ok
    BY <1>1, <1>2, <2>2 DEF Invalid
  <2> QED
    BY <2>1, <2>2
<1>6. Tries(evs) \subseteq 1 .. n /\ Invalid(evs) \subseteq 1 .. n
  BY <1>2 DEF Tries, Invalid
<1>7. UsedUp(new) <=> ev.step.index = Repairs /\ ~ev.ok
  BY <1>3 DEF UsedUp, FromMain
<1>8. /\ Cardinality(Tries(evs) \cup {n + 1}) = Cardinality(Tries(evs)) + 1
      /\ Cardinality(Invalid(evs) \cup {n + 1}) = Cardinality(Invalid(evs)) + 1
      /\ Cardinality(Invalid(evs)) \in Nat
  BY <1>1, <1>6, CountOneMore
<1> QED
  BY <1>1, <1>4, <1>5, <1>7, <1>8 DEF n

\* What follows a stream is of Subs: Main's attempts are what they were.
LEMMA TallyOfMerge ==
  ASSUME NEW evs \in Seq(EventRec), NEW more \in Seq(EventRec), more # <<>>,
         \A k \in DOMAIN more : more[k].step.agent # 0,
         NEW new, new = evs \o more
  PROVE  /\ Len(new) = Len(evs) + Len(more)
         /\ Tries(new) = Tries(evs) /\ Invalid(new) = Invalid(evs) /\ ~UsedUp(new)
<1> DEFINE n == Len(evs)
           m == Len(more)
<1>1. /\ new \in Seq(EventRec) /\ Len(new) = n + m /\ n \in Nat /\ m \in Nat \ {0}
      /\ DOMAIN new = 1 .. n + m /\ DOMAIN evs = 1 .. n /\ DOMAIN more = 1 .. m
      /\ \A k \in 1 .. n + m : new[k] = IF k <= n THEN evs[k] ELSE more[k - n]
  BY ConcatIs
<1>2. Last(new) = more[m]
  BY <1>1 DEF Last
<1> HIDE DEF n, m
<1>3. ASSUME NEW k \in 1 .. n + m, FromMain(new[k])
      PROVE  k \in 1 .. n
  <2>1. CASE k <= n
    BY <1>1, <2>1
  <2>2. CASE ~(k <= n)
    <3>1. k - n \in DOMAIN more /\ new[k] = more[k - n]
      BY <1>1, <2>2
    <3> QED
      BY <1>3, <3>1 DEF FromMain
  <2> QED
    BY <2>1, <2>2
<1>4. \A k \in 1 .. n : k \in 1 .. n + m /\ new[k] = evs[k]
  BY <1>1
<1>5. Tries(new) = Tries(evs) /\ Invalid(new) = Invalid(evs)
  BY <1>1, <1>3, <1>4 DEF Tries, Invalid
<1>6. ~UsedUp(new)
  BY <1>1, <1>2 DEF UsedUp
<1> QED
  BY <1>1, <1>5, <1>6 DEF n, m

\* Streams of one event each follow each other in their order.
LEMMA FlattenOnes ==
  ASSUME NEW S, NEW ss \in Seq(Seq(S)), \A i \in DOMAIN ss : Len(ss[i]) = 1
  PROVE  /\ FlattenSeq(ss) \in Seq(S) /\ Len(FlattenSeq(ss)) = Len(ss)
         /\ \A i \in DOMAIN ss : FlattenSeq(ss)[i] = ss[i][1]
<1> DEFINE n == Len(ss)
           s == FlattenSeq(ss)
<1>0. n \in Nat /\ DOMAIN ss = 1 .. n
  OBVIOUS
<1>1. PICK at : /\ Lies(at, ss) /\ Len(s) = at[n] /\ Holds(s, at, ss, n)
  BY FlattenLayout
<1>2. s \in Seq(S)
  BY FlattenLayout
<1> HIDE DEF n, s
<1>3. /\ at[0] = 0
      /\ \A i \in 1 .. n : at[i] = at[i - 1] + 1
  BY <1>0, <1>1 DEF Lies, n
<1>4. \A m \in Nat : m \in 0 .. n => at[m] = m
  <2> DEFINE T == {m \in Nat : m \in 0 .. n => at[m] = m}
  <2>1. 0 \in T
    BY <1>3
  <2>2. ASSUME NEW m \in T PROVE m + 1 \in T
    <3>1. CASE m + 1 \in 1 .. n
      <4>1. at[m] = m /\ at[m + 1] = at[(m + 1) - 1] + 1 /\ (m + 1) - 1 = m
        BY <1>0, <1>3, <3>1
      <4> QED
        BY <4>1
    <3>2. CASE m + 1 \notin 1 .. n
      BY <1>0, <3>2
    <3> QED
      BY <3>1, <3>2
  <2> HIDE DEF T
  <2>3. \A m \in Nat : m \in T
    BY <2>1, <2>2, Induction DEF T
  <2> QED
    BY <2>3 DEF T
<1>5. Len(s) = n
  BY <1>0, <1>1, <1>4
<1>6. ASSUME NEW i \in 1 .. n PROVE s[i] = ss[i][1]
  <2>1. at[i - 1] = i - 1 /\ 1 \in 1 .. Len(ss[i])
    <3>1. Len(ss[i]) = 1
      BY <1>0
    <3>2. i - 1 \in Nat /\ i - 1 \in 0 .. n
      BY <1>0
    <3> QED
      BY <1>4, <3>1, <3>2
  <2>2. s[at[i - 1] + 1] = ss[i][1]
    BY <1>1, <2>1 DEF Holds
  <2> QED
    BY <1>0, <2>1, <2>2
<1> QED
  BY <1>0, <1>2, <1>5, <1>6 DEF n, s

\* A turn of Main.
LEMMA TurnTallied ==
  ASSUME EInv, CInv, runner = "api", MainTurn(Alone) \/ MainRaises(Alone)
  PROVE  CInv'
<1> DEFINE e == Alone
           p == pc[e]
           a == attempt[e]
           evs == events[e]
           outs == outcomes[e]
<1>1. e \in Episodes /\ p \in Generating /\ UNCHANGED outcomes
  BY SpawnAssumption DEF MainTurn, MainRaises
<1>2. /\ a \in 0 .. Repairs /\ evs \in Seq(EventRec) /\ heard[e] \in Seq(Step)
      /\ DOMAIN pc = Episodes /\ DOMAIN attempt = Episodes /\ DOMAIN events = Episodes
      /\ p \in {"initial", "final"}
      /\ p = "initial" => outs = <<>>
      /\ Sound(p, a, subs[e], evs, outs, heard[e])
  BY <1>1 DEF EInv, PerEpisode, Sounds, Sound, Typed, HeardLast, Generating
<1>3. Tally(p, a, evs, outs)
  BY DEF CInv
<1>4. CASE MainRaises(e)
  <2>1. pc'[e] = "raised" /\ attempt'[e] = a /\ events'[e] = evs /\ outcomes'[e] = outs
    BY <1>1, <1>2, <1>4 DEF MainRaises
  <2>2. Tally("raised", a, evs, outs)
    BY <1>1, <1>2, <1>3 DEF Tally, PhasesOver, Generating
  <2> QED
    BY <2>1, <2>2 DEF CInv
<1>5. CASE MainTurn(e)
  <2>1. PICK out \in Outputs : Answers(e, out) \/ Delegates(e, out) \/ Errs(e, out)
    BY <1>5 DEF MainTurn
  <2>2. PICK ok \in BOOLEAN : /\ Recorded(e, ok)
                              /\ Answers(e, out) \/ Delegates(e, out) => ok
                              /\ Errs(e, out) => ~ok
    <3>1. CASE Errs(e, out)
      BY <3>1 DEF Errs, Answers, Delegates, Valid
    <3>2. CASE ~Errs(e, out)
      BY <2>1, <3>2 DEF Answers, Delegates
    <3> QED
      BY <3>1, <3>2
  <2> DEFINE ev == Event(MainStep(p, a), CausesOfAttempt(e), ok)
             new == Append(evs, ev)
  <2>3. events'[e] = new /\ outcomes'[e] = outs
    BY <1>1, <1>2, <2>2 DEF Recorded
  <2>4. ev \in EventRec /\ FromMain(ev) /\ ev.step.index = a /\ ev.ok = ok
    <3>1. MainStep(p, a) \in Step /\ MainStep(p, a).agent = 0 /\ MainStep(p, a).index = a
      BY <1>2, SpawnAssumption DEF Step, MainStep
    <3>2. CausesOfAttempt(e) \in Seq(Step)
      <4>1. CASE a = 0
        BY <1>2, <4>1 DEF CausesOfAttempt
      <4>2. CASE a # 0
        <5>1. MainStep(p, a - 1) \in Step
          BY <1>2, <4>2, SpawnAssumption DEF Step, MainStep
        <5> QED
          BY <1>2, <4>2, <5>1 DEF CausesOfAttempt
      <4> QED
        BY <4>1, <4>2
    <3> QED
      BY <3>1, <3>2 DEF EventRec, Event, FromMain
  <2> HIDE DEF ev
  <2>5. /\ Len(new) = Len(evs) + 1
        /\ Cardinality(Tries(new)) = Cardinality(Tries(evs)) + 1
        /\ Cardinality(Invalid(new)) = Cardinality(Invalid(evs)) + (IF ok THEN 0 ELSE 1)
        /\ UsedUp(new) <=> a = Repairs /\ ~ok
    BY <1>2, <2>4, TallyOfAttempt
  <2>6. /\ Cardinality(Tries(evs)) \in Nat /\ Cardinality(Invalid(evs)) \in Nat
        /\ Len(evs) \in Nat /\ Len(outs) \in Nat /\ Repairs \in Nat
    <3>1. outs \in Seq(OutcomeRec)
      BY <1>2 DEF Sound, Typed
    <3> QED
      BY <1>2, <3>1, TallyTypes, SpawnAssumption
  <2> HIDE DEF new, evs, outs
  <2>7. /\ Len(evs) = Cardinality(Tries(evs)) + Len(outs)
        /\ Cardinality(Tries(evs)) - Cardinality(Invalid(evs)) =
             (IF outs = <<>> THEN 1 ELSE 2) - 1
        /\ Cardinality(Invalid(evs)) >= a
    BY <1>2, <1>3 DEF Tally, PhasesOver
  <2>8. Len(new) = Cardinality(Tries(new)) + Len(outs)
    BY <2>5, <2>6, <2>7
  <2>9. CASE Answers(e, out)
    <3>1. ok /\ pc'[e] = "success" /\ attempt'[e] = a
      BY <1>1, <1>2, <2>2, <2>9 DEF Answers
    <3>2. Tally("success", a, new, outs)
      BY <1>2, <2>5, <2>6, <2>7, <2>8, <3>1 DEF Tally, PhasesOver, Generating
    <3> QED
      BY <2>3, <3>1, <3>2 DEF CInv
  <2>10. CASE Delegates(e, out)
    <3>1. ok /\ pc'[e] = "subs" /\ attempt'[e] = a /\ p = "initial"
      BY <1>1, <1>2, <2>2, <2>10 DEF Delegates, Valid
    <3>2. Cardinality(Tries(new)) - Cardinality(Invalid(new)) = PhasesOver("subs", outs)
      BY <2>5, <2>6, <2>7, <3>1 DEF PhasesOver
    <3>3. Cardinality(Invalid(new)) >= a
      BY <2>5, <2>6, <2>7, <3>1
    <3>4. Tally("subs", a, new, outs)
      BY <2>8, <3>2, <3>3 DEF Tally, Generating
    <3> QED
      BY <2>3, <3>1, <3>4 DEF CInv
  <2>11. CASE Errs(e, out)
    <3>1. CASE a < Repairs
      <4>1. ~ok /\ pc'[e] = p /\ attempt'[e] = a + 1
        BY <1>1, <1>2, <2>2, <2>11, <3>1 DEF Errs
      <4> DEFINE x == Cardinality(Tries(evs))
                 y == Cardinality(Invalid(evs))
                 z == IF outs = <<>> THEN 1 ELSE 2
      <4>6. /\ Cardinality(Tries(new)) = x + 1 /\ Cardinality(Invalid(new)) = y + 1
            /\ x \in Nat /\ y \in Nat /\ z \in Nat /\ a \in Nat
            /\ x - y = z - 1 /\ y >= a
        <5>1. Cardinality(Invalid(new)) = y + 1
          BY <2>5, <4>1
        <5>2. z \in Nat /\ a \in Nat
          BY <1>2, SpawnAssumption
        <5> QED
          BY <2>5, <2>6, <2>7, <5>1, <5>2
      <4>7. PhasesOver(p, outs) = z - 1
        BY <1>2 DEF PhasesOver
      <4> HIDE DEF x, y, z
      <4>2. Cardinality(Tries(new)) - Cardinality(Invalid(new)) = PhasesOver(p, outs)
        BY <4>6, <4>7
      <4>3. Cardinality(Invalid(new)) >= a + 1
        BY <4>6
      <4>4. ~UsedUp(new)
        BY <1>2, <2>5, <2>6, <3>1
      <4>5. Tally(p, a + 1, new, outs)
        BY <1>2, <2>8, <4>2, <4>3, <4>4 DEF Tally
      <4> QED
        BY <2>3, <4>1, <4>5 DEF CInv
    <3>2. CASE ~(a < Repairs)
      <4>1. ~ok /\ pc'[e] = "raised" /\ attempt'[e] = a /\ a = Repairs
        <5>1. pc' = [pc EXCEPT ![e] = "raised"] /\ UNCHANGED attempt
          BY <2>11, <3>2 DEF Errs, GivesUp
        <5>2. a = Repairs
          BY <1>2, <2>6, <3>2
        <5> QED
          BY <1>1, <1>2, <2>2, <2>11, <5>1, <5>2
      <4>2. Tally("raised", a, new, outs)
        BY <1>2, <2>5, <2>6, <2>7, <2>8, <3>2, <4>1 DEF Tally, PhasesOver, Generating
      <4> QED
        BY <2>3, <4>1, <4>2 DEF CInv
    <3> QED
      BY <3>1, <3>2
  <2> QED
    BY <2>1, <2>9, <2>10, <2>11
<1> QED
  BY <1>4, <1>5

\* The merge: one event of each Sub.
LEMMA MergeTallied ==
  ASSUME EInv, CInv, runner = "api", Merge(Alone)
  PROVE  CInv'
<1> DEFINE e == Alone
           d == Last(events[e]).step
           ss == [i \in DOMAIN subs[e] |-> EventsOf(e, i, d)]
           outs2 == [i \in DOMAIN ss |-> Outcome(e, i, ss[i])]
           evs == events[e]
           more == FlattenSeq(ss)
           n == Len(subs[e])
<1>1. /\ e \in Episodes /\ pc[e] = "subs"
      /\ events' = [events EXCEPT ![e] = evs \o more]
      /\ outcomes' = [outcomes EXCEPT ![e] = outs2]
      /\ pc' = [pc EXCEPT ![e] = "final"]
      /\ attempt' = [attempt EXCEPT ![e] = 0]
  BY SpawnAssumption DEF Merge
<1>2. /\ DOMAIN subs[e] = 1 .. n /\ n \in Nat \ {0} /\ n <= MaxSpawn
      /\ evs \in Seq(EventRec) /\ evs # <<>>
      /\ outcomes[e] = <<>>
      /\ DOMAIN pc = Episodes /\ DOMAIN attempt = Episodes
      /\ DOMAIN events = Episodes /\ DOMAIN outcomes = Episodes
  BY <1>1 DEF EInv, PerEpisode, Sounds, Sound, Typed, HeardLast, AttemptsInOrder
<1>3. d \in Step
  <2>1. Last(evs) \in EventRec
    BY <1>2 DEF Last
  <2> QED
    BY <2>1 DEF EventRec
<1>4. ASSUME NEW i \in 1 .. n
      PROVE  /\ ss[i] \in Seq(EventRec) /\ Len(ss[i]) = 1
             /\ ss[i][1].step.agent # 0
  <2> DEFINE ev == Event(SubStep(i, "model"), <<d>>, subs[e][i] = "success")
  <2>1. ss[i] = <<ev>>
    BY <1>2 DEF EventsOf, ApiEvents
  <2>2. ev \in EventRec /\ ev.step.agent = i
    BY <1>2, <1>3, SpawnAssumption DEF Event, EventRec, Step, SubStep
  <2> HIDE DEF ev, ss
  <2>3. <<ev>> \in Seq(EventRec) /\ Len(<<ev>>) = 1 /\ <<ev>>[1] = ev
    BY <2>2
  <2>4. i # 0
    BY <1>2
  <2> QED
    BY <2>1, <2>2, <2>3, <2>4
<1>5. ss \in Seq(Seq(EventRec)) /\ Len(ss) = n /\ DOMAIN ss = 1 .. n
  <2>1. ss \in [1 .. n -> Seq(EventRec)]
    BY <1>2, <1>4
  <2> HIDE DEF ss
  <2> QED
    BY <1>2, <2>1, FunctionIsSeq
<1> HIDE DEF ss
<1>6. more \in Seq(EventRec) /\ Len(more) = n /\ \A i \in 1 .. n : more[i] = ss[i][1]
  BY <1>4, <1>5, FlattenOnes
<1>7. more # <<>> /\ \A k \in DOMAIN more : more[k].step.agent # 0
  BY <1>2, <1>4, <1>6
<1>8. DOMAIN outs2 = 1 .. n /\ Len(outs2) = n /\ outs2 # <<>>
  <2>1. outs2 \in [1 .. n -> {outs2[i] : i \in 1 .. n}]
    BY <1>5
  <2> HIDE DEF outs2
  <2>2. Len(outs2) = n /\ DOMAIN outs2 = 1 .. n
    BY <1>2, <2>1, FunctionIsSeq
  <2> QED
    BY <1>2, <2>2
<1> DEFINE new == evs \o more
<1> HIDE DEF outs2, more, n
<1>9. /\ Len(new) = Len(evs) + n
      /\ Tries(new) = Tries(evs) /\ Invalid(new) = Invalid(evs) /\ ~UsedUp(new)
  BY <1>2, <1>6, <1>7, TallyOfMerge
<1>10. /\ events'[e] = new /\ outcomes'[e] = outs2 /\ pc'[e] = "final" /\ attempt'[e] = 0
  BY <1>1, <1>2
<1>11. /\ Cardinality(Tries(evs)) \in Nat /\ Cardinality(Invalid(evs)) \in Nat
       /\ Len(evs) \in Nat
  BY <1>2, TallyTypes
<1>12. /\ Len(evs) = Cardinality(Tries(evs))
       /\ Cardinality(Tries(evs)) - Cardinality(Invalid(evs)) = 1
  <2>1. Tally("subs", attempt[e], evs, <<>>)
    BY <1>1, <1>2 DEF CInv
  <2> QED
    BY <1>11, <2>1 DEF Tally, PhasesOver
<1> HIDE DEF new, evs
<1>13. Tally("final", 0, new, outs2)
  BY <1>2, <1>8, <1>9, <1>11, <1>12 DEF Tally, PhasesOver
<1> QED
  BY <1>10, <1>13 DEF CInv

LEMMA TallyInit == Init => CInv
<1> SUFFICES ASSUME Init, runner = "api" PROVE CInv
  BY DEF CInv
<1>1. pc[Alone] = "initial" /\ attempt[Alone] = 0 /\ events[Alone] = <<>> /\ outcomes[Alone] = <<>>
  BY SpawnAssumption DEF Init
<1>2. Tries(<<>>) = {} /\ Invalid(<<>>) = {}
  BY DEF Tries, Invalid
<1>3. Tally("initial", 0, <<>>, <<>>)
  <2>1. Cardinality(Tries(<<>>)) = 0 /\ Cardinality(Invalid(<<>>)) = 0
    BY <1>2, FS_EmptySet
  <2>2. Len(<<>>) = 0 /\ ~UsedUp(<<>>) /\ PhasesOver("initial", <<>>) = 0
    BY DEF UsedUp, PhasesOver
  <2> QED
    BY <2>1, <2>2 DEF Tally
<1> QED
  BY <1>1, <1>3 DEF CInv

LEMMA TallyStep == LInv /\ EInv /\ CInv /\ [Next]_vars => CInv'
<1> SUFFICES ASSUME LInv, EInv, CInv, [Next]_vars, runner' = "api" PROVE CInv'
  BY DEF CInv
<1>1. CASE UNCHANGED vars
  BY <1>1 DEF vars, episode, CInv
<1>2. CASE Next
  <2>1. PICK e \in Episodes :
          \/ MainTurn(e) \/ MainRaises(e)
          \/ \E i \in DOMAIN subs[e] : SubStepOf(e, i)
          \/ Merge(e)
    BY <1>2 DEF Next
  <2>2. CASE MainTurn(e) \/ MainRaises(e)
    <3>1. pc[e] # "absent" /\ runner = "api"
      BY <2>2 DEF MainTurn, MainRaises, Generating
    <3>2. e = Alone
      BY <3>1 DEF EInv, AloneWhenApi
    <3> QED
      BY <2>2, <3>1, <3>2, TurnTallied
  <2>3. CASE Merge(e)
    <3>1. pc[e] # "absent" /\ runner = "api"
      BY <2>3 DEF Merge
    <3>2. e = Alone
      BY <3>1 DEF EInv, AloneWhenApi
    <3> QED
      BY <2>3, <3>1, <3>2, MergeTallied
  <2>4. CASE \E i \in DOMAIN subs[e] : SubStepOf(e, i)
    <3>1. PICK i \in DOMAIN subs[e] : SubStepOf(e, i)
      BY <2>4
    <3>2. UNCHANGED <<runner, pc, attempt, events, outcomes>>
      <4>1. CASE SubBegins(e, i)
        BY <4>1, NeverRefused DEF SubBegins
      <4>2. CASE ~SubBegins(e, i)
        BY <3>1, <4>2 DEF SubStepOf, Searched, SubEnds
      <4> QED
        BY <4>1, <4>2
    <3> QED
      BY <3>2 DEF CInv
  <2> QED
    BY <2>1, <2>2, <2>3, <2>4
<1> QED
  BY <1>1, <1>2

-----------------------------------------------------------------------------
(* What a pilot reports                                                      *)

Answer == {"exact", "other", "none"}

Summary ==
  [status : {"completed", "refused", "gaveUp", "raised"}, spawned : Nat, succeeded : Nat,
   failed : Nat, attempts : Nat, invalid : Nat, events : Nat]

ScoreKind == Right \cup {"none", "wrong", "judgedWrong", "judgeFailed"}

Reported ==
  /\ pilot \in Pilots
  /\ summaries \in Seq(Summary)
  /\ predictions \in [1 .. pilot.tasks -> Seq(Answer)]
  /\ score \in Seq(ScoreKind)
  /\ asked \in [verdict : 0 .. JudgeRepairs, response : 1 .. MaxAttempts,
                post : 1 .. MaxAttempts]
  /\ Len(summaries) <= Total
  /\ Len(score) <= Len(summaries)
  /\ score # <<>> => Len(summaries) = Total

\* The tasks before the one at hand have all their predictions, those after it have none.
Filled ==
  LET k == Len(summaries) + 1 IN
  \A t \in 1 .. pilot.tasks :
    Len(predictions[t]) = IF t < TaskOf(k) THEN pilot.repeats
                          ELSE IF t = TaskOf(k) THEN RepeatOf(k) - 1 ELSE 0

\* The prediction of the k-th episode is at its place, and says what its summary does.
Placed ==
  \A k \in 1 .. Len(summaries) :
    /\ TaskOf(k) \in 1 .. pilot.tasks
    /\ RepeatOf(k) \in 1 .. Len(predictions[TaskOf(k)])
    /\ SummaryAddsUp(summaries[k])
    /\ (predictions[TaskOf(k)][RepeatOf(k)] = "none") <=> (summaries[k].status # "completed")

OneEach ==
  \A t \in 1 .. pilot.tasks :
    Len(predictions[t]) = Cardinality({k \in 1 .. Len(summaries) : TaskOf(k) = t})

Passed ==
  \A k \in 1 .. Len(score) :
    /\ (score[k] = "none") <=> (summaries[k].status # "completed")
    /\ score[k] \in {"judgedRight", "judgedWrong", "judgeFailed"} => pilot.judge

RInv == Reported /\ Filled /\ Placed /\ OneEach /\ Passed

-----------------------------------------------------------------------------
LEMMA PilotSize ==
  ASSUME pilot \in Pilots
  PROVE  /\ pilot.tasks \in Nat \ {0} /\ pilot.repeats \in Nat \ {0} /\ pilot.judge \in BOOLEAN
         /\ Total \in Nat /\ Total = pilot.tasks * pilot.repeats
BY PilotAssumption DEF Total

LEMMA DivisionWithRest ==
  ASSUME NEW m \in Nat, NEW r \in Nat \ {0}
  PROVE  /\ m \div r \in Nat /\ m % r \in 0 .. r - 1
         /\ IF m % r = r - 1
            THEN (m + 1) \div r = (m \div r) + 1 /\ (m + 1) % r = 0
            ELSE (m + 1) \div r = m \div r /\ (m + 1) % r = (m % r) + 1
         /\ \A t \in Nat : m < t * r => m \div r < t
<1>1. m \div r \in Nat /\ m % r \in 0 .. r - 1
  OBVIOUS
<1>2. IF m % r = r - 1
      THEN (m + 1) \div r = (m \div r) + 1 /\ (m + 1) % r = 0
      ELSE (m + 1) \div r = m \div r /\ (m + 1) % r = (m % r) + 1
  OBVIOUS
<1>3. ASSUME NEW t \in Nat, m < t * r PROVE m \div r < t
  BY <1>3
<1> QED
  BY <1>1, <1>2, <1>3

\* The place of an episode, and of the one after it.
LEMMA Places ==
  ASSUME pilot \in Pilots, NEW k \in Nat \ {0}
  PROVE  /\ TaskOf(k) \in Nat \ {0} /\ RepeatOf(k) \in 1 .. pilot.repeats
         /\ IF RepeatOf(k) = pilot.repeats
            THEN TaskOf(k + 1) = TaskOf(k) + 1 /\ RepeatOf(k + 1) = 1
            ELSE TaskOf(k + 1) = TaskOf(k) /\ RepeatOf(k + 1) = RepeatOf(k) + 1
         /\ k <= Total => TaskOf(k) \in 1 .. pilot.tasks
<1> DEFINE m == k - 1
           r == pilot.repeats
           d == m \div r
           q == m % r
<1>1. m \in Nat /\ r \in Nat \ {0} /\ m + 1 = k /\ (k + 1) - 1 = m + 1
  BY PilotSize
<1>2. /\ d \in Nat /\ q \in 0 .. r - 1
      /\ IF q = r - 1
         THEN (m + 1) \div r = d + 1 /\ (m + 1) % r = 0
         ELSE (m + 1) \div r = d /\ (m + 1) % r = q + 1
      /\ \A t \in Nat : m < t * r => d < t
  BY <1>1, DivisionWithRest
<1>3. /\ TaskOf(k) = d + 1 /\ RepeatOf(k) = q + 1
      /\ TaskOf(k + 1) = ((m + 1) \div r) + 1
      /\ RepeatOf(k + 1) = ((m + 1) % r) + 1
  BY <1>1 DEF TaskOf, RepeatOf
<1>4. k <= Total => m < pilot.tasks * r /\ pilot.tasks \in Nat
  BY <1>1, PilotSize
<1> HIDE DEF m, d, q
<1>5. k <= Total => d < pilot.tasks
  BY <1>2, <1>4
<1>6. TaskOf(k) \in Nat \ {0} /\ RepeatOf(k) \in 1 .. r
  <2>1. d + 1 \in Nat \ {0} /\ q + 1 \in 1 .. r
    BY <1>1, <1>2
  <2> QED
    BY <1>3, <2>1
<1>7. CASE q = r - 1
  <2>1. TaskOf(k + 1) = TaskOf(k) + 1 /\ RepeatOf(k + 1) = 1 /\ RepeatOf(k) = r
    BY <1>1, <1>2, <1>3, <1>7
  <2> QED
    BY <1>1, <1>2, <1>3, <1>5, <1>6, <2>1, PilotSize
<1>8. CASE q # r - 1
  <2>1. TaskOf(k + 1) = TaskOf(k) /\ RepeatOf(k + 1) = RepeatOf(k) + 1 /\ RepeatOf(k) # r
    BY <1>1, <1>2, <1>3, <1>8
  <2> QED
    BY <1>1, <1>2, <1>3, <1>5, <1>6, <2>1, PilotSize
<1> QED
  BY <1>7, <1>8

LEMMA NothingTallied == Tally("initial", 0, <<>>, <<>>)
<1>1. Tries(<<>>) = {} /\ Invalid(<<>>) = {}
  BY DEF Tries, Invalid
<1>2. Cardinality(Tries(<<>>)) = 0 /\ Cardinality(Invalid(<<>>)) = 0
  BY <1>1, FS_EmptySet
<1>3. Len(<<>>) = 0 /\ ~UsedUp(<<>>) /\ PhasesOver("initial", <<>>) = 0
  BY DEF UsedUp, PhasesOver
<1> QED
  BY <1>2, <1>3 DEF Tally

\* The outcomes that are well and those that are not are all of them.
LEMMA OutcomesSplit ==
  ASSUME NEW outs \in Seq(OutcomeRec)
  PROVE  /\ HowMany(outs, LAMBDA o : o.ok) \in Nat /\ HowMany(outs, LAMBDA o : ~o.ok) \in Nat
         /\ Len(outs) = HowMany(outs, LAMBDA o : o.ok) + HowMany(outs, LAMBDA o : ~o.ok)
<1> DEFINE n == Len(outs)
           W == {k \in DOMAIN outs : outs[k].ok}
           B == {k \in DOMAIN outs : ~outs[k].ok}
<1>1. n \in Nat /\ DOMAIN outs = 1 .. n
  OBVIOUS
<1>2. IsFiniteSet(1 .. n) /\ Cardinality(1 .. n) = n
  BY <1>1, FS_Interval
<1>3. W \subseteq 1 .. n /\ B \subseteq 1 .. n /\ W \cup B = 1 .. n /\ W \cap B = {}
  BY <1>1
<1>4. IsFiniteSet(W) /\ IsFiniteSet(B) /\ Cardinality(W) \in Nat /\ Cardinality(B) \in Nat
  BY <1>2, <1>3, FS_Subset, FS_CardinalityType
<1>5. HowMany(outs, LAMBDA o : o.ok) = Cardinality(W)
  BY DEF HowMany
<1>6. HowMany(outs, LAMBDA o : ~o.ok) = Cardinality(B)
  BY DEF HowMany
<1> HIDE DEF W, B, n
<1>7. Cardinality(W \cup B) = Cardinality(W) + Cardinality(B) - Cardinality(W \cap B)
  BY <1>4, FS_Union
<1>8. Cardinality(W \cap B) = 0
  BY <1>3, FS_EmptySet
<1>9. n = Cardinality(W) + Cardinality(B)
  <2>1. Cardinality(W \cup B) = n
    BY <1>2, <1>3
  <2> QED
    BY <1>4, <1>7, <1>8, <2>1
<1> QED
  BY <1>4, <1>5, <1>6, <1>9 DEF n

\* What is told of an episode that ended.
LEMMA EndingTells ==
  ASSUME EInv, CInv, runner = "api", pc[Alone] \in Over, NEW ending \in Endings
  PROVE  /\ ending.summary \in Summary /\ ending.predicts \in Answer
         /\ SummaryAddsUp(ending.summary)
         /\ ending.predicts = "none" <=> ending.summary.status # "completed"
<1> DEFINE evs == events[Alone]
           outs == outcomes[Alone]
           p == pc[Alone]
<1>1. /\ evs \in Seq(EventRec) /\ outs \in Seq(OutcomeRec)
      /\ Tally(p, attempt[Alone], evs, outs)
  BY SpawnAssumption DEF EInv, Sounds, Sound, Typed, CInv
<1> DEFINE w == HowMany(outs, LAMBDA o : o.ok)
           b == HowMany(outs, LAMBDA o : ~o.ok)
           x == Cardinality(Tries(evs))
           y == Cardinality(Invalid(evs))
           l == Len(outs)
           m == Len(evs)
<1>2. /\ w \in Nat /\ b \in Nat /\ l = w + b /\ x \in Nat /\ y \in Nat /\ m \in Nat
      /\ l \in Nat /\ (outs = <<>> <=> l = 0)
  BY <1>1, OutcomesSplit, TallyTypes
<1>3. /\ m = x + l
      /\ p = "success" => x - y = (IF l = 0 THEN 1 ELSE 2)
      /\ p = "raised" /\ UsedUp(evs) =>
           x - y = (IF l = 0 THEN 1 ELSE 2) - 1 /\ y > Repairs
  BY <1>1, <1>2 DEF Tally, PhasesOver
<1>4. ASSUME NEW s
      PROVE  Facts(s) = [status |-> s, spawned |-> l, succeeded |-> w, failed |-> b,
                         attempts |-> x, invalid |-> y, events |-> m]
  <2>1. HowMany(evs, FromMain) = x
    BY DEF HowMany, Tries
  <2>2. HowMany(evs, LAMBDA ev : FromMain(ev) /\ ~ev.ok) = y
    BY DEF HowMany, Invalid
  <2> QED
    BY <2>1, <2>2 DEF Facts
<1> HIDE DEF w, b, x, y, l, m
<1> DEFINE sum == ending.summary
<1> SUFFICES /\ sum \in Summary /\ SummaryAddsUp(sum)
             /\ ending.predicts \in Answer
             /\ ending.predicts = "none" <=> sum.status # "completed"
  OBVIOUS
<1>5. CASE sum = Facts("completed") /\ p = "success" /\ ending.predicts \in {"exact", "other"}
  <2>3. sum = [status |-> "completed", spawned |-> l, succeeded |-> w, failed |-> b,
               attempts |-> x, invalid |-> y, events |-> m]
    BY <1>4, <1>5
  <2> HIDE DEF sum
  <2>1. /\ sum \in Summary /\ sum.status = "completed" /\ sum.spawned = l /\ sum.succeeded = w
        /\ sum.failed = b /\ sum.attempts = x /\ sum.invalid = y /\ sum.events = m
    BY <1>2, <2>3 DEF Summary
  <2>2. SummaryAddsUp(sum)
    BY <1>2, <1>3, <1>5, <2>1 DEF SummaryAddsUp
  <2> QED
    BY <1>5, <2>1, <2>2 DEF Answer
<1>6. CASE sum = Facts("gaveUp") /\ p = "raised" /\ UsedUp(evs) /\ ending.predicts = "none"
  <2>3. sum = [status |-> "gaveUp", spawned |-> l, succeeded |-> w, failed |-> b,
               attempts |-> x, invalid |-> y, events |-> m]
    BY <1>4, <1>6
  <2> HIDE DEF sum
  <2>1. /\ sum \in Summary /\ sum.status = "gaveUp" /\ sum.spawned = l /\ sum.succeeded = w
        /\ sum.failed = b /\ sum.attempts = x /\ sum.invalid = y /\ sum.events = m
    BY <1>2, <2>3 DEF Summary
  <2>2. SummaryAddsUp(sum)
    BY <1>2, <1>3, <1>6, <2>1 DEF SummaryAddsUp
  <2> QED
    BY <1>6, <2>1, <2>2 DEF Answer
<1>7. CASE sum \in {NoFacts("refused"), NoFacts("raised")} /\ ending.predicts = "none"
  <2>3. PICK s \in {"refused", "raised"} : sum = NoFacts(s)
    BY <1>7
  <2> HIDE DEF sum
  <2>1. /\ sum \in Summary /\ sum.status = s /\ sum.spawned = 0
        /\ sum.succeeded = 0 /\ sum.failed = 0 /\ sum.attempts = 0 /\ sum.invalid = 0
        /\ sum.events = 0
    BY <2>3 DEF NoFacts, Summary
  <2>2. SummaryAddsUp(sum)
    <3>1. sum.status # "completed" /\ sum.status # "gaveUp"
      BY <2>1
    <3>2. /\ sum.spawned = sum.succeeded + sum.failed
          /\ sum.events = sum.attempts + sum.spawned
      BY <2>1
    <3> QED
      BY <2>1, <3>1, <3>2, Zenon DEF SummaryAddsUp
  <2> QED
    BY <1>7, <2>1, <2>2 DEF Answer
<1>8. CASE p = "success"
  <2>1. ending \in {[predicts |-> q, summary |-> Facts("completed")] : q \in {"exact", "other"}}
        \/ ending = [predicts |-> "none", summary |-> NoFacts("refused")]
    BY <1>8 DEF Endings
  <2> QED
    BY <1>5, <1>7, <1>8, <2>1
<1>9. CASE p # "success"
  <2>1. ending = [predicts |-> "none",
                  summary |-> IF GaveUp THEN Facts("gaveUp") ELSE NoFacts("raised")]
    BY <1>9 DEF Endings
  <2>2. GaveUp => p = "raised" /\ UsedUp(evs)
    BY DEF GaveUp, UsedUp
  <2> QED
    BY <1>6, <1>7, <2>1, <2>2
<1> QED
  BY <1>8, <1>9

LEMMA ReportInit == PilotInit => RInv
<1> SUFFICES ASSUME PilotInit PROVE RInv
  OBVIOUS
<1>1. /\ pilot \in Pilots /\ summaries = <<>> /\ score = <<>> /\ asked = FirstPost
      /\ predictions = [t \in 1 .. pilot.tasks |-> <<>>]
  BY DEF PilotInit
<1>2. Reported
  <2>1. asked \in [verdict : 0 .. JudgeRepairs, response : 1 .. MaxAttempts,
                   post : 1 .. MaxAttempts]
    BY <1>1, PilotAssumption DEF FirstPost
  <2> QED
    BY <1>1, <2>1, PilotSize DEF Reported
<1>3. Filled
  <2>1. TaskOf(1) = 1 /\ RepeatOf(1) = 1
    BY <1>1, PilotSize DEF TaskOf, RepeatOf
  <2> QED
    BY <1>1, <2>1 DEF Filled
<1>4. Placed /\ Passed
  BY <1>1 DEF Placed, Passed
<1>5. OneEach
  <2>1. \A t \in 1 .. pilot.tasks : {k \in 1 .. Len(summaries) : TaskOf(k) = t} = {}
    BY <1>1
  <2> QED
    BY <1>1, <2>1, FS_EmptySet DEF OneEach
<1> QED
  BY <1>2, <1>3, <1>4, <1>5 DEF RInv

\* An episode ended: its summary and its prediction come behind those there are.
LEMMA EpisodeReported ==
  ASSUME EInv, CInv, RInv, EpisodeDone
  PROVE  RInv'
<1> DEFINE n == Len(summaries)
           k == n + 1
           t0 == TaskOf(k)
<1>1. /\ pilot \in Pilots /\ summaries \in Seq(Summary)
      /\ predictions \in [1 .. pilot.tasks -> Seq(Answer)]
      /\ n \in Nat /\ k \in Nat \ {0} /\ k <= Total
      /\ UNCHANGED <<pilot, score, asked>>
      /\ runner = "api" /\ pc[Alone] \in Over
  <2>1. n < Total /\ n \in Nat /\ Total \in Nat
    BY PilotSize DEF EpisodeDone, RInv, Reported
  <2> QED
    BY <2>1 DEF EpisodeDone, RInv, Reported
<1>2. PICK ending \in Endings :
        /\ summaries' = Append(summaries, ending.summary)
        /\ predictions' = [predictions EXCEPT ![t0] = @ \o <<ending.predicts>>]
  BY DEF EpisodeDone, Predicted
<1> DEFINE sum == ending.summary
           ans == ending.predicts
<1>3. /\ sum \in Summary /\ ans \in Answer /\ SummaryAddsUp(sum)
      /\ ans = "none" <=> sum.status # "completed"
  BY <1>1, EndingTells
<1> HIDE DEF sum, ans
<1>4. /\ summaries' \in Seq(Summary) /\ Len(summaries') = k
      /\ \A j \in 1 .. n : summaries'[j] = summaries[j]
      /\ summaries'[k] = sum
  BY <1>1, <1>2, <1>3, AppendIs DEF sum
<1>5. /\ t0 \in 1 .. pilot.tasks /\ RepeatOf(k) \in 1 .. pilot.repeats
      /\ pilot.tasks \in Nat /\ pilot.repeats \in Nat \ {0}
  BY <1>1, Places, PilotSize
<1>6. Len(predictions[t0]) = RepeatOf(k) - 1
  BY <1>5 DEF RInv, Filled
<1> DEFINE old == predictions[t0]
           new == Append(old, ans)
           r == RepeatOf(k)
<1>7. old \in Seq(Answer) /\ Len(old) = r - 1 /\ r \in Nat \ {0}
  BY <1>1, <1>5, <1>6
<1>8. /\ new \in Seq(Answer) /\ Len(new) = r
      /\ \A j \in 1 .. r - 1 : new[j] = old[j]
      /\ new[r] = ans
  <2> HIDE DEF old, r
  <2>1. /\ new \in Seq(Answer) /\ Len(new) = Len(old) + 1
        /\ \A j \in 1 .. Len(old) : new[j] = old[j]
        /\ new[Len(old) + 1] = ans
    BY <1>3, <1>7, AppendIs
  <2> QED
    BY <1>7, <2>1
<1>9. /\ predictions' \in [1 .. pilot.tasks -> Seq(Answer)]
      /\ predictions'[t0] = new
      /\ \A t \in 1 .. pilot.tasks : t # t0 => predictions'[t] = predictions[t]
  <2>1. old \o <<ans>> = new
    BY <1>3, <1>7
  <2>2. predictions' = [predictions EXCEPT ![t0] = new]
    BY <1>2, <2>1 DEF ans
  <2> HIDE DEF new
  <2> QED
    BY <1>1, <1>5, <1>8, <2>2
<1> HIDE DEF n, t0, old, new, r
<1>10. \A j : TaskOf(j)' = TaskOf(j) /\ RepeatOf(j)' = RepeatOf(j)
  BY <1>1 DEF TaskOf, RepeatOf
<1>11. Reported'
  <2>1. Total' = Total
    BY <1>1 DEF Total
  <2>2. score # <<>> => n = Total
    BY DEF RInv, Reported, n
  <2>3. score = <<>>
    BY <1>1, <2>2, PilotSize
  <2>4. Len(score) = 0
    BY <2>3
  <2> QED
    BY <1>1, <1>4, <1>9, <2>1, <2>3, <2>4 DEF RInv, Reported
<1>12. Filled'
  <2> SUFFICES ASSUME NEW t \in 1 .. pilot.tasks
               PROVE  Len(predictions'[t]) =
                        IF t < TaskOf(k + 1) THEN pilot.repeats
                        ELSE IF t = TaskOf(k + 1) THEN RepeatOf(k + 1) - 1 ELSE 0
    BY <1>1, <1>4, <1>10 DEF Filled
  <2>1. Len(predictions[t]) = IF t < t0 THEN pilot.repeats ELSE IF t = t0 THEN r - 1 ELSE 0
    BY DEF RInv, Filled, n, t0, r
  <2>2. IF r = pilot.repeats
        THEN TaskOf(k + 1) = t0 + 1 /\ RepeatOf(k + 1) = 1
        ELSE TaskOf(k + 1) = t0 /\ RepeatOf(k + 1) = r + 1
    BY <1>1, Places DEF t0, r
  <2>3. t0 \in Nat
    BY <1>5
  <2>4. CASE t = t0
    BY <1>5, <1>7, <1>8, <1>9, <2>2, <2>3, <2>4
  <2>5. CASE t # t0
    BY <1>5, <1>7, <1>9, <2>1, <2>2, <2>3, <2>5
  <2> QED
    BY <2>4, <2>5
<1>13. Placed'
  <2> SUFFICES ASSUME NEW j \in 1 .. k
               PROVE  /\ TaskOf(j) \in 1 .. pilot.tasks
                      /\ RepeatOf(j) \in 1 .. Len(predictions'[TaskOf(j)])
                      /\ SummaryAddsUp(summaries'[j])
                      /\ (predictions'[TaskOf(j)][RepeatOf(j)] = "none")
                           <=> (summaries'[j].status # "completed")
    BY <1>1, <1>4, <1>10 DEF Placed
  <2>1. CASE j = k
    <3>1. TaskOf(j) = t0 /\ RepeatOf(j) = r
      BY <2>1 DEF t0, r
    <3>2. r \in 1 .. r
      BY <1>7
    <3> QED
      BY <1>3, <1>4, <1>5, <1>8, <1>9, <2>1, <3>1, <3>2
  <2>2. CASE j # k
    <3>1. j \in 1 .. n
      BY <1>1, <2>2
    <3>2. /\ TaskOf(j) \in 1 .. pilot.tasks
          /\ RepeatOf(j) \in 1 .. Len(predictions[TaskOf(j)])
          /\ SummaryAddsUp(summaries[j])
          /\ (predictions[TaskOf(j)][RepeatOf(j)] = "none")
               <=> (summaries[j].status # "completed")
      BY <3>1 DEF RInv, Placed, n
    <3>3. /\ RepeatOf(j) \in 1 .. Len(predictions'[TaskOf(j)])
          /\ predictions'[TaskOf(j)][RepeatOf(j)] = predictions[TaskOf(j)][RepeatOf(j)]
      <4>1. CASE TaskOf(j) = t0
        <5>1. RepeatOf(j) \in 1 .. r - 1
          BY <1>7, <3>2, <4>1 DEF old
        <5>2. RepeatOf(j) \in 1 .. r /\ new[RepeatOf(j)] = old[RepeatOf(j)]
          BY <1>7, <1>8, <5>1
        <5> QED
          BY <1>8, <1>9, <4>1, <5>2 DEF old
      <4>2. CASE TaskOf(j) # t0
        BY <1>9, <3>2, <4>2
      <4> QED
        BY <4>1, <4>2
    <3>4. summaries'[j] = summaries[j]
      BY <1>4, <3>1
    <3> QED
      BY <3>2, <3>3, <3>4
  <2> QED
    BY <2>1, <2>2
<1>14. OneEach'
  <2> SUFFICES ASSUME NEW t \in 1 .. pilot.tasks
               PROVE  Len(predictions'[t]) = Cardinality({j \in 1 .. k : TaskOf(j) = t})
    BY <1>1, <1>4, <1>10 DEF OneEach
  <2> DEFINE T == {j \in 1 .. n : TaskOf(j) = t}
  <2>1. Len(predictions[t]) = Cardinality(T)
    BY DEF RInv, OneEach, n
  <2>2. T \subseteq 1 .. n
    OBVIOUS
  <2>3. CASE t = t0
    <3>1. {j \in 1 .. k : TaskOf(j) = t} = T \cup {n + 1}
      BY <1>1, <2>3 DEF t0
    <3> HIDE DEF T
    <3>2. Cardinality(T \cup {n + 1}) = Cardinality(T) + 1
      BY <1>1, <2>2, CountOneMore
    <3>3. Cardinality(T) = r - 1
      BY <1>7, <2>1, <2>3 DEF old
    <3>4. Len(predictions'[t]) = r
      BY <1>8, <1>9, <2>3
    <3>5. Cardinality(T \cup {n + 1}) = r
      BY <1>7, <3>2, <3>3
    <3> QED
      BY <3>1, <3>4, <3>5
  <2>4. CASE t # t0
    <3>1. {j \in 1 .. k : TaskOf(j) = t} = T
      BY <1>1, <2>4 DEF t0
    <3> QED
      BY <1>9, <2>1, <2>4, <3>1
  <2> QED
    BY <2>3, <2>4
<1>15. Passed'
  <2>1. Len(score) <= n /\ Len(score) \in Nat
    BY DEF RInv, Reported, n
  <2>2. \A j \in 1 .. Len(score) : j \in 1 .. n
    BY <1>1, <2>1
  <2>3. \A j \in 1 .. Len(score) : summaries'[j] = summaries[j]
    BY <1>4, <2>2
  <2> QED
    BY <1>1, <2>3 DEF RInv, Passed
<1> QED
  BY <1>11, <1>12, <1>13, <1>14, <1>15 DEF RInv

\* Another prediction is scored.
LEMMA OneMoreScore ==
  ASSUME RInv, Scores, UNCHANGED <<pilot, summaries, predictions>>,
         NEW how \in ScoreKind, Scored(how),
         how = "none" <=> AtHand = "none",
         how \in {"judgedRight", "judgedWrong", "judgeFailed"} => pilot.judge = TRUE
  PROVE  RInv'
<1> DEFINE n == Len(score)
           k == n + 1
<1>1. /\ pilot \in Pilots /\ score \in Seq(ScoreKind) /\ n \in Nat /\ n < Total /\ Total \in Nat
      /\ Len(summaries) = Total
  BY PilotSize DEF RInv, Reported, Scores
<1>2. /\ score' = Append(score, how) /\ asked' = FirstPost
      /\ pilot' = pilot /\ summaries' = summaries /\ predictions' = predictions
  BY DEF Scored
<1>3. /\ score' \in Seq(ScoreKind) /\ Len(score') = k
      /\ \A j \in 1 .. n : score'[j] = score[j]
      /\ score'[k] = how
  BY <1>1, <1>2, AppendIs
<1> HIDE DEF n
<1>4. k \in 1 .. Len(summaries) /\ k <= Total
  BY <1>1
<1>5. (AtHand = "none") <=> (summaries[k].status # "completed")
  BY <1>4 DEF RInv, Placed, AtHand, n
<1>6. \A j : TaskOf(j)' = TaskOf(j) /\ RepeatOf(j)' = RepeatOf(j)
  BY <1>2 DEF TaskOf, RepeatOf
<1>7. Reported'
  <2>1. Total' = Total
    BY <1>2 DEF Total
  <2>2. FirstPost \in [verdict : 0 .. JudgeRepairs, response : 1 .. MaxAttempts,
                       post : 1 .. MaxAttempts]
    BY PilotAssumption DEF FirstPost
  <2> QED
    BY <1>1, <1>2, <1>3, <1>4, <2>1, <2>2 DEF RInv, Reported
<1>8. Filled' /\ Placed' /\ OneEach'
  BY <1>2, <1>6 DEF RInv, Filled, Placed, OneEach
<1>9. Passed'
  <2> SUFFICES ASSUME NEW j \in 1 .. k
               PROVE  /\ (score'[j] = "none") <=> (summaries[j].status # "completed")
                      /\ score'[j] \in {"judgedRight", "judgedWrong", "judgeFailed"} =>
                           pilot.judge
    BY <1>2, <1>3 DEF Passed
  <2>1. CASE j = k
    BY <1>3, <1>5, <2>1
  <2>2. CASE j # k
    <3>1. j \in 1 .. n
      BY <1>1, <2>2
    <3> QED
      BY <1>3, <3>1 DEF RInv, Passed, n
  <2> QED
    BY <2>1, <2>2
<1> QED
  BY <1>7, <1>8, <1>9 DEF RInv

\* The judge is asked once more about the prediction at hand.
LEMMA AskedOnceMore ==
  ASSUME RInv, UNCHANGED <<pilot, summaries, predictions, score>>,
         asked' \in [verdict : 0 .. JudgeRepairs, response : 1 .. MaxAttempts,
                     post : 1 .. MaxAttempts]
  PROVE  RInv'
<1>1. \A j : TaskOf(j)' = TaskOf(j) /\ RepeatOf(j)' = RepeatOf(j)
  BY DEF TaskOf, RepeatOf
<1>2. Reported'
  BY DEF RInv, Reported, Total
<1>3. Filled' /\ Placed' /\ OneEach' /\ Passed'
  BY <1>1 DEF RInv, Filled, Placed, OneEach, Passed
<1> QED
  BY <1>2, <1>3 DEF RInv

LEMMA CompareReported ==
  ASSUME RInv, Compare
  PROVE  RInv'
<1>1. /\ Scores /\ UNCHANGED <<pilot, summaries, predictions>>
      /\ Scored(IF AtHand = "other" THEN "wrong" ELSE AtHand)
      /\ AtHand \in {"none", "exact"} \/ ~pilot.judge
  BY DEF Compare
<1>2. AtHand \in Answer
  <2> DEFINE k == Len(score) + 1
  <2>1. k \in 1 .. Len(summaries) /\ predictions \in [1 .. pilot.tasks -> Seq(Answer)]
    BY <1>1, PilotSize DEF RInv, Reported, Scores
  <2>2. /\ TaskOf(k) \in 1 .. pilot.tasks
        /\ RepeatOf(k) \in 1 .. Len(predictions[TaskOf(k)])
    BY <2>1 DEF RInv, Placed
  <2>3. predictions[TaskOf(k)] \in Seq(Answer)
    BY <2>1, <2>2
  <2>4. AtHand = predictions[TaskOf(k)][RepeatOf(k)]
    BY DEF AtHand
  <2> HIDE DEF k
  <2> QED
    BY <2>2, <2>3, <2>4
<1>3. CASE AtHand = "other"
  BY <1>1, <1>3, OneMoreScore DEF ScoreKind
<1>4. CASE AtHand # "other"
  <2>1. AtHand \in {"none", "exact"}
    BY <1>2, <1>4 DEF Answer
  <2>2. AtHand \in ScoreKind
    BY <2>1 DEF ScoreKind, Right
  <2>3. Scored(AtHand)
    BY <1>1, <1>4
  <2> QED
    BY <1>1, <2>1, <2>2, <2>3, OneMoreScore
<1> QED
  BY <1>3, <1>4

LEMMA JudgeReported ==
  ASSUME RInv, Judge
  PROVE  RInv'
<1> DEFINE Times == [verdict : 0 .. JudgeRepairs, response : 1 .. MaxAttempts,
                     post : 1 .. MaxAttempts]
<1>1. /\ Scores /\ AtHand = "other" /\ pilot.judge
      /\ UNCHANGED <<pilot, summaries, predictions>>
  BY DEF Judge
<1>2. asked \in Times /\ JudgeRepairs \in Nat /\ MaxAttempts \in Nat \ {0}
  BY PilotAssumption DEF RInv, Reported
<1>3. ASSUME NEW how \in {"judgedRight", "judgedWrong", "judgeFailed"}, Scored(how)
      PROVE  RInv'
  <2>1. how \in ScoreKind /\ how # "none"
    BY DEF ScoreKind, Right
  <2> QED
    BY <1>1, <1>3, <2>1, OneMoreScore
<1>4. ASSUME asked' \in Times, UNCHANGED score PROVE RInv'
  BY <1>1, <1>4, AskedOnceMore
<1>5. CASE PostFails
  <2>1. CASE asked.post < MaxAttempts
    <3>1. asked' = [asked EXCEPT !.post = asked.post + 1] /\ UNCHANGED score
      BY <1>5, <2>1 DEF PostFails, Again
    <3> QED
      BY <1>2, <1>4, <2>1, <3>1
  <2>2. CASE ~(asked.post < MaxAttempts)
    BY <1>3, <1>5, <2>2 DEF PostFails, Again
  <2> QED
    BY <2>1, <2>2
<1>6. CASE ResponseMalformed
  <2>1. CASE asked.response < MaxAttempts
    <3>1. /\ asked' = [asked EXCEPT !.response = asked.response + 1, !.post = 1]
          /\ UNCHANGED score
      BY <1>6, <2>1 DEF ResponseMalformed, Again
    <3>2. asked' \in Times
      <4>1. asked.response + 1 \in 1 .. MaxAttempts /\ 1 \in 1 .. MaxAttempts
        BY <1>2, <2>1
      <4>2. asked' = [verdict |-> asked.verdict, response |-> asked.response + 1, post |-> 1]
        BY <1>2, <3>1
      <4> QED
        BY <1>2, <4>1, <4>2
    <3> QED
      BY <1>4, <3>1, <3>2
  <2>2. CASE ~(asked.response < MaxAttempts)
    BY <1>3, <1>6, <2>2 DEF ResponseMalformed, Again
  <2> QED
    BY <2>1, <2>2
<1>7. CASE VerdictUnclear
  <2>1. CASE MayRepairVerdict
    <3>1. /\ asked' = [FirstPost EXCEPT !.verdict = asked.verdict + 1]
          /\ UNCHANGED score
      BY <1>7, <2>1 DEF VerdictUnclear, Again
    <3>2. asked.verdict + 1 \in 0 .. JudgeRepairs
      BY <1>2, <2>1 DEF MayRepairVerdict
    <3>3. asked' = [verdict |-> asked.verdict + 1, response |-> 1, post |-> 1]
      BY <3>1 DEF FirstPost
    <3>4. asked' \in Times
      BY <1>2, <3>2, <3>3
    <3> QED
      BY <1>4, <3>1, <3>4
  <2>2. CASE ~MayRepairVerdict
    BY <1>3, <1>7, <2>2 DEF VerdictUnclear, Again
  <2> QED
    BY <2>1, <2>2
<1>8. CASE Scored("judgeFailed")
  BY <1>3, <1>8
<1>9. CASE \E verdict \in {"judgedRight", "judgedWrong"} : Scored(verdict)
  BY <1>3, <1>9
<1> QED
  BY <1>5, <1>6, <1>7, <1>8, <1>9 DEF Judge

-----------------------------------------------------------------------------
(* The pilot as a whole                                                      *)

PInv == LInv /\ EInv /\ CInv /\ RInv

\* The next episode has counted nothing yet.
LEMMA NextTallied ==
  ASSUME EInv, CInv, EpisodeDone
  PROVE  CInv'
<1>1. Alone \in Episodes
  BY SpawnAssumption
<1>2. CASE UNCHANGED <<pc, attempt, subs, events, outcomes, heard, budget>>
  BY <1>2 DEF CInv, EpisodeDone
<1>3. CASE ~ UNCHANGED <<pc, attempt, subs, events, outcomes, heard, budget>>
  <2>1. /\ pc' = [pc EXCEPT ![Alone] = "initial"]
        /\ attempt' = [attempt EXCEPT ![Alone] = 0]
        /\ events' = [events EXCEPT ![Alone] = <<>>]
        /\ outcomes' = [outcomes EXCEPT ![Alone] = <<>>]
    BY <1>3 DEF EpisodeDone
  <2>2. /\ DOMAIN pc = Episodes /\ DOMAIN attempt = Episodes /\ DOMAIN events = Episodes
        /\ DOMAIN outcomes = Episodes
    BY DEF EInv, PerEpisode
  <2>3. /\ pc'[Alone] = "initial" /\ attempt'[Alone] = 0 /\ events'[Alone] = <<>>
        /\ outcomes'[Alone] = <<>>
    BY <1>1, <2>1, <2>2
  <2> QED
    BY <2>3, NothingTallied DEF CInv
<1> QED
  BY <1>2, <1>3

LEMMA PilotBegins == PilotInit => PInv
BY LedgerInit, StreamsInit, TallyInit, ReportInit DEF PilotInit, PInv

LEMMA PilotSteps == PInv /\ [PilotNext]_pilotVars => PInv'
<1> SUFFICES ASSUME PInv, [PilotNext]_pilotVars PROVE PInv'
  OBVIOUS
<1>1. LInv' /\ EInv'
  BY EpisodesStep DEF PInv
<1>2. CInv'
  <2>1. [Next]_vars \/ EpisodeDone
    BY DEF PilotNext, pilotVars, Compare, Judge
  <2> QED
    BY <2>1, TallyStep, NextTallied DEF PInv
<1>3. RInv'
  <2>1. CASE UNCHANGED report
    BY <2>1, AskedOnceMore DEF report, PInv, RInv, Reported
  <2>2. CASE EpisodeDone \/ Compare \/ Judge
    BY <2>2, EpisodeReported, CompareReported, JudgeReported DEF PInv
  <2> QED
    BY <2>1, <2>2 DEF PilotNext, pilotVars
<1> QED
  BY <1>1, <1>2, <1>3 DEF PInv

LEMMA PilotInvariant == PilotSpec => []PInv
BY PilotBegins, PilotSteps, PTL DEF PilotSpec

-----------------------------------------------------------------------------
(* What holds of every run                                                   *)

LEMMA LedgerKept ==
  ASSUME LInv
  PROVE  LedgerHolds
<1>1. Cardinality(ledger) = Capacity - permits
  BY DEF LInv, Counted
<1>2. ASSUME NEW e \in Episodes, NEW i \in DOMAIN subs[e]
      PROVE  /\ subs[e][i] # "refused"
             /\ subs[e][i] = "queued" => <<e, i>> \notin ledger
  <2>1. i \in Nat
    BY DEF LInv, Control
  <2> QED
    BY <2>1 DEF LInv, NoneRefused, Reserved, Serving
<1>3. ASSUME \A e \in Episodes : pc[e] # "subs"
      PROVE  ledger = {}
  <2>1. ASSUME NEW e \in Episodes, NEW i \in Nat, <<e, i>> \in ledger
        PROVE  FALSE
    <3>1. i \in DOMAIN subs[e] /\ subs[e][i] \in Serving
      BY <2>1 DEF LInv, Reserved
    <3>2. subs[e][i] \in Ended
      BY <1>3, <3>1 DEF LInv, Awaited
    <3> QED
      BY <3>1, <3>2 DEF Serving, Ended, ApiEnds
  <2> QED
    BY <2>1 DEF LInv, Reserved
<1> QED
  BY <1>1, <1>2, <1>3 DEF LedgerHolds

LEMMA EpisodesTyped ==
  ASSUME LInv, EInv
  PROVE  TypeOK
<1>1. runner \in {"trainable", "api"}
  BY DEF EInv
<1>2. pc \in [Episodes -> {"absent", "subs"} \cup Generating \cup Over]
  BY DEF LInv, Control
<1>3. attempt \in [Episodes -> 0 .. Repairs]
  <2>1. \A e \in Episodes : attempt[e] \in 0 .. Repairs
    BY DEF EInv, Sounds, Sound, Typed
  <2> QED
    BY <2>1 DEF EInv, PerEpisode
<1>4. ASSUME NEW e \in Episodes
      PROVE  /\ Len(subs[e]) <= MaxSpawn
             /\ \A i \in DOMAIN subs[e] :
                  subs[e][i] \in {"queued", "searching", "generating", "refused"} \cup Ends
             /\ \A k \in DOMAIN events[e] : events[e][k].step \in Step
             /\ \A k \in DOMAIN heard[e] : heard[e][k] \in Step
  <2>1. /\ Len(subs[e]) <= MaxSpawn /\ events[e] \in Seq(EventRec) /\ heard[e] \in Seq(Step)
        /\ SubsKnown(e)
    BY DEF EInv, Sounds, Sound, Typed
  <2>2. \A k \in DOMAIN events[e] : events[e][k] \in EventRec
    BY <2>1
  <2>3. \A k \in DOMAIN events[e] : events[e][k].step \in Step
    BY <2>2 DEF EventRec
  <2> QED
    BY <2>1, <2>3 DEF SubsKnown
<1>5. permits \in 0 .. Capacity
  <2>1. Cardinality(ledger) \in Nat
    BY FS_CardinalityType DEF LInv, Counted
  <2> QED
    BY <2>1, SpawnAssumption DEF LInv, Control, Counted
<1>6. ledger \subseteq Episodes \X (1 .. MaxSpawn)
  <2>1. ledger \subseteq Episodes \X Nat
    BY DEF LInv, Reserved
  <2>2. ASSUME NEW e \in Episodes, NEW i \in Nat, <<e, i>> \in ledger
        PROVE  i \in 1 .. MaxSpawn
    <3>1. i \in DOMAIN subs[e]
      BY <2>2 DEF LInv, Reserved
    <3>2. subs[e] \in Seq(SubState) /\ Len(subs[e]) <= MaxSpawn
      BY DEF EInv, Sounds, Sound, Typed
    <3> QED
      BY <3>1, <3>2, SpawnAssumption
  <2> QED
    BY <2>1, <2>2
<1> QED
  BY <1>1, <1>2, <1>3, <1>4, <1>5, <1>6 DEF TypeOK

LEMMA ReportTyped ==
  ASSUME PInv
  PROVE  PilotTypes
<1>1. /\ pilot \in Pilots /\ summaries \in Seq(Summary) /\ score \in Seq(ScoreKind)
      /\ predictions \in [1 .. pilot.tasks -> Seq({"exact", "other", "none"})]
      /\ asked \in [verdict : 0 .. JudgeRepairs, response : 1 .. MaxAttempts,
                    post : 1 .. MaxAttempts]
  BY DEF PInv, RInv, Reported, Answer
<1>2. \A k \in DOMAIN summaries : summaries[k] \in Summary
  BY <1>1
<1>3. \A k \in DOMAIN summaries :
        summaries[k].status \in {"completed", "refused", "gaveUp", "raised"}
  BY <1>2 DEF Summary
<1>4. \A k \in DOMAIN score :
        score[k] \in Right \cup {"none", "wrong", "judgedWrong", "judgeFailed"}
  BY <1>1 DEF ScoreKind
<1> QED
  BY <1>1, <1>3, <1>4, EpisodesTyped DEF PilotTypes, PInv

LEMMA ReportAddsUp ==
  ASSUME RInv
  PROVE  PilotAccounts
<1>1. /\ DOMAIN summaries = 1 .. Len(summaries) /\ DOMAIN score = 1 .. Len(score)
      /\ DOMAIN predictions = 1 .. pilot.tasks
  BY DEF RInv, Reported
<1> QED
  BY <1>1 DEF RInv, OneEach, Placed, Passed, PilotAccounts

-----------------------------------------------------------------------------
\* The ledger refuses no Sub the semaphore let through, and no slot is lost, for any number
\* of rollouts over one orchestrator (trainable_episode.py, _run_sub; api_episode.py, run).
THEOREM LedgerNeverRefuses == Spec => []LedgerHolds
BY LedgerInit, LedgerStep, LedgerKept, PTL DEF Spec

\* The same under a pilot, whose episodes follow each other, each with a ledger of its own.
THEOREM PilotLedger == PilotSpec => []LedgerHolds
BY PilotInvariant, LedgerKept, PTL DEF PInv

\* A trace is one its validator accepts, and no Sub is missing from it, in whatever order the
\* Subs ended and whatever failed (trainable_episode.py, run; trainable_models.py).
THEOREM TracesComplete == Spec => []TraceComplete
<1>1. Init => LInv /\ EInv
  BY LedgerInit, StreamsInit
<1>2. LInv /\ EInv /\ [Next]_vars => (LInv /\ EInv)'
  BY LedgerStep, StreamsStep
<1>3. LInv /\ EInv => TraceComplete
  BY SoundIsComplete
<1> QED
  BY <1>1, <1>2, <1>3, PTL DEF Spec

\* The same for the episodes of a pilot (api_episode.py, run).
THEOREM PilotTracesComplete == PilotSpec => []TraceComplete
<1>1. PInv => TraceComplete
  BY SoundIsComplete DEF PInv
<1> QED
  BY <1>1, PilotInvariant, PTL

\* Every part of the state of a pilot and of its episodes has its type, and the judge's three
\* loops keep to their bounds (api_pilot.py, run; semantic_judge.py).
THEOREM PilotTypesHold == PilotSpec => []PilotTypes
<1>1. PInv => PilotTypes
  BY ReportTyped
<1> QED
  BY <1>1, PilotInvariant, PTL

\* Whatever became of each episode, it leaves one summary that adds up and one prediction, at
\* its place, and the score passes over exactly the episodes that did not complete
\* (api_pilot.py, run; xbench.py, evaluate_repeat_exact).
THEOREM PilotAccountsHold == PilotSpec => []PilotAccounts
<1>1. PInv => PilotAccounts
  BY ReportAddsUp DEF PInv
<1> QED
  BY <1>1, PilotInvariant, PTL

=============================================================================
