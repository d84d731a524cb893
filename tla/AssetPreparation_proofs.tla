---------------------- MODULE AssetPreparation_proofs ----------------------
(***************************************************************************)
(* Proofs about the preparation of pinned files, for every number and size *)
(* of files, every set of endpoint plans and every number of faults; and   *)
(* about the warm start that reads one of them, for all tasks, schedules   *)
(* and requests of at most four workers.                                   *)
(***************************************************************************)
EXTENDS WarmStart, SequenceTheorems, FiniteSetTheorems, WellFoundedInduction, TLAPS

-----------------------------------------------------------------------------
(* The inductive invariant                                                   *)

\* Where the command stands.
Place ==
  /\ pc \in {"fetch", "resolve", "body", "verify"} \cup Over
  /\ endpoint \in 0 .. Len(plan)
  /\ pc \in {"fetch", "resolve", "body"} => endpoint > 0
  /\ pc \in Over => endpoint = 0
  /\ attempt \in 1 .. AttemptsPerEndpoint
  /\ file \in Files

Control ==
  /\ Place
  /\ DOMAIN final \subseteq Files
  /\ quarantine \subseteq Files
  /\ plan \in Plans
  /\ tainted \in BOOLEAN
  /\ faults \in 0 .. MaxFaults

\* Blocks of file f, or others, and at most one more than it has.
Held(f, s) == s \in Seq(0 .. Size[f]) /\ Len(s) <= Size[f] + 1

\* What is on disk, and what is about to be, never grows beyond that.
Bytes ==
  /\ \A f \in DOMAIN final : Held(f, final[f])
  /\ partial = [f \in Files |-> partial[f]]
  /\ \A f \in Files : Held(f, partial[f])
  /\ body \in Seq(0 .. Size[file])
  /\ pc = "body" => Held(file, partial[file] \o body)
  /\ pc # "body" => body = <<>>

\* s is a beginning of file f.
Begins(f, s) == Len(s) <= Size[f] /\ \A i \in DOMAIN s : s[i] = i

\* While the bytes that arrive are the pinned ones, so are those that are kept, and those
\* that the response at hand will add.
Clean ==
  ~tainted =>
    /\ \A f \in DOMAIN final : final[f] = Trusted(f)
    /\ \A f \in Files : Begins(f, partial[f])
    /\ quarantine = {}
    /\ pc = "body" => Begins(file, partial[file] \o body)

AInv == Control /\ Bytes /\ Clean /\ ReportsVerified

-----------------------------------------------------------------------------
(* Sequences of blocks                                                       *)

\* The size of a file is a positive number.
LEMMA Sizes == \A f \in Files : Size[f] \in Nat /\ Size[f] > 0
BY AssetAssumption DEF Files

\* The pinned file, and as many blocks that are not of it, have the file's size.
LEMMA WholeFiles ==
  ASSUME NEW f \in Files
  PROVE  /\ Held(f, Trusted(f)) /\ Begins(f, Trusted(f)) /\ Len(Trusted(f)) = Size[f]
         /\ \A n \in 0 .. Size[f] + 1 : Held(f, Junk(n)) /\ Len(Junk(n)) = n
<1>1. Size[f] \in Nat
  BY Sizes
<1>2. Trusted(f) \in Seq(0 .. Size[f]) /\ Len(Trusted(f)) = Size[f]
  BY <1>1 DEF Trusted
<1>3. \A n \in 0 .. Size[f] + 1 : Junk(n) \in Seq(0 .. Size[f]) /\ Len(Junk(n)) = n
  BY <1>1 DEF Junk
<1> QED
  BY <1>1, <1>2, <1>3 DEF Held, Begins, Trusted

\* A beginning of the file that is as long as the file is the file.
LEMMA WholeBeginning ==
  ASSUME NEW f \in Files, NEW s \in Seq(0 .. Size[f]), Begins(f, s), Len(s) = Size[f]
  PROVE  s = Trusted(f)
<1>1. DOMAIN s = 1 .. Size[f] /\ s = [i \in 1 .. Size[f] |-> s[i]]
  OBVIOUS
<1> QED
  BY <1>1 DEF Begins, Trusted

\* The rest of a file after k blocks.
LEMMA RestTyped ==
  ASSUME NEW f \in Files, NEW k \in 0 .. Size[f]
  PROVE  /\ Rest(f, k) \in Seq(0 .. Size[f]) /\ Len(Rest(f, k)) = Size[f] - k
         /\ \A i \in 1 .. Size[f] - k : Rest(f, k)[i] = k + i
<1> DEFINE r == Rest(f, k)
           t == Trusted(f)
<1>1. /\ Size[f] \in Nat /\ k \in Nat /\ k <= Size[f]
      /\ \A i \in 1 .. Size[f] : t[i] = i
  BY Sizes DEF Trusted
<1>2. r = SubSeq(t, k + 1, Size[f]) /\ k + 1 \in Int /\ Size[f] \in Int
      /\ \A i \in k + 1 .. Size[f] : t[i] \in 0 .. Size[f]
  BY <1>1 DEF Rest
<1> HIDE DEF r, t
<1>3. /\ r \in Seq(0 .. Size[f])
      /\ Len(r) = IF k + 1 <= Size[f] THEN Size[f] - (k + 1) + 1 ELSE 0
      /\ \A i \in 1 .. Size[f] - (k + 1) + 1 : r[i] = t[k + 1 + i - 1]
  BY <1>2, SubSeqProperties
<1>4. Len(r) = Size[f] - k
  BY <1>1, <1>3
<1>5. ASSUME NEW i \in 1 .. Size[f] - k PROVE r[i] = k + i
  <2>1. i \in 1 .. Size[f] - (k + 1) + 1 /\ k + 1 + i - 1 = k + i /\ k + i \in 1 .. Size[f]
    BY <1>1
  <2> QED
    BY <1>1, <1>3, <2>1
<1> QED
  BY <1>3, <1>4, <1>5 DEF r

\* From the rest of the file after what is there, any number of blocks prolong it.
LEMMA Prolongs ==
  ASSUME NEW f \in Files, NEW s \in Seq(0 .. Size[f]), Len(s) <= Size[f],
         NEW n \in 0 .. Size[f] - Len(s)
  PROVE  LET u == SubSeq(Rest(f, Len(s)), 1, n) IN
         /\ u \in Seq(0 .. Size[f])
         /\ Held(f, s \o u)
         /\ Begins(f, s) => Begins(f, s \o u)
<1> DEFINE k == Len(s)
           r == Rest(f, k)
           u == SubSeq(r, 1, n)
<1>1. /\ Size[f] \in Nat /\ k \in 0 .. Size[f] /\ n \in Nat /\ n <= Size[f] - k
      /\ r \in Seq(0 .. Size[f]) /\ Len(r) = Size[f] - k
      /\ \A i \in 1 .. Size[f] - k : r[i] = k + i
  BY Sizes, RestTyped
<1>2. u \in Seq(0 .. Size[f]) /\ Len(u) = n /\ \A i \in 1 .. n : u[i] = k + i
  <2>1. u = SubSeq(r, 1, n) /\ n \in Int /\ \A i \in 1 .. n : r[i] \in 0 .. Size[f]
    BY <1>1
  <2> HIDE DEF u, r, k
  <2>2. /\ u \in Seq(0 .. Size[f]) /\ Len(u) = IF 1 <= n THEN n - 1 + 1 ELSE 0
        /\ \A i \in 1 .. n - 1 + 1 : u[i] = r[1 + i - 1]
    BY <2>1, SubSeqProperties
  <2> QED
    BY <1>1, <2>2
<1> HIDE DEF u, r
<1>3. /\ s \o u \in Seq(0 .. Size[f]) /\ Len(s \o u) = k + n
      /\ \A i \in 1 .. k : (s \o u)[i] = s[i]
      /\ \A i \in k + 1 .. k + n : (s \o u)[i] = u[i - k]
  <2>1. /\ s \o u \in Seq(0 .. Size[f]) /\ Len(s \o u) = Len(s) + Len(u)
        /\ \A i \in 1 .. Len(s) + Len(u) :
             (s \o u)[i] = IF i <= Len(s) THEN s[i] ELSE u[i - Len(s)]
    BY <1>2, ConcatProperties
  <2> QED
    BY <1>1, <1>2, <2>1
<1>4. \A i \in k + 1 .. k + n : u[i - k] = i
  BY <1>1, <1>2
<1>5. Held(f, s \o u)
  BY <1>1, <1>3 DEF Held
<1>6. Begins(f, s) => Begins(f, s \o u)
  BY <1>1, <1>3, <1>4 DEF Begins
<1> QED
  BY <1>2, <1>5, <1>6 DEF u, r

\* The same for the whole rest, and for the beginning of the file.
LEMMA ProlongsWhole ==
  ASSUME NEW f \in Files
  PROVE  /\ Rest(f, 0) = Trusted(f)
         /\ \A k \in 0 .. Size[f] : SubSeq(Rest(f, k), 1, Size[f] - k) = Rest(f, k)
         /\ \A n \in 0 .. Size[f] :
              LET u == SubSeq(Trusted(f), 1, n) IN
              u \in Seq(0 .. Size[f]) /\ Held(f, u) /\ Begins(f, u)
<1>1. Size[f] \in Nat /\ Trusted(f) \in Seq(0 .. Size[f]) /\ Len(Trusted(f)) = Size[f]
  BY Sizes, WholeFiles DEF Held
<1>2. Rest(f, 0) = Trusted(f)
  <2>1. SubSeq(Trusted(f), 1, Len(Trusted(f))) = Trusted(f)
    BY <1>1, SubSeqFull
  <2> QED
    BY <1>1, <2>1 DEF Rest
<1>3. \A k \in 0 .. Size[f] : SubSeq(Rest(f, k), 1, Size[f] - k) = Rest(f, k)
  BY RestTyped, SubSeqFull
<1>4. ASSUME NEW n \in 0 .. Size[f]
      PROVE  LET u == SubSeq(Trusted(f), 1, n) IN
             u \in Seq(0 .. Size[f]) /\ Held(f, u) /\ Begins(f, u)
  <2> DEFINE s == SubSeq(Trusted(f), 1, n)
  <2>1. /\ <<>> \in Seq(0 .. Size[f]) /\ Len(<<>>) <= Size[f] /\ Begins(f, <<>>)
        /\ n \in 0 .. Size[f] - Len(<<>>) /\ Rest(f, Len(<<>>)) = Trusted(f)
    BY <1>1, <1>2 DEF Begins
  <2> HIDE DEF s
  <2>2. LET u == SubSeq(Rest(f, Len(<<>>)), 1, n) IN
        /\ u \in Seq(0 .. Size[f])
        /\ Held(f, <<>> \o u)
        /\ Begins(f, <<>>) => Begins(f, <<>> \o u)
    BY <2>1, Prolongs, Zenon
  <2>3. s \in Seq(0 .. Size[f]) /\ Held(f, <<>> \o s) /\ Begins(f, <<>> \o s)
    BY <2>1, <2>2 DEF s
  <2>4. <<>> \o s = s
    BY <2>3, ConcatEmptySeq
  <2> QED
    BY <2>3, <2>4 DEF s
<1> QED
  BY <1>2, <1>3, <1>4

-----------------------------------------------------------------------------
(* Responses                                                                 *)

\* Blocks that are joined to others.
LEMMA Joined ==
  ASSUME NEW S, NEW a \in Seq(S), NEW b \in Seq(S)
  PROVE  a \o b \in Seq(S) /\ Len(a \o b) = Len(a) + Len(b)
BY ConcatProperties

\* After a response, kept stays of s and c is to follow: it fits behind it, and continues
\* the file unless it is forged.
Fits(f, s, kept, c, forged) ==
  /\ c \in Seq(0 .. Size[f])
  /\ Held(f, kept \o c)
  /\ Begins(f, s) /\ ~forged => Begins(f, kept \o c)

\* What stays of s when a response comes.
Stays(s, r) == IF r.status = 206 /\ s # <<>> THEN s ELSE <<>>

\* What is written from the first byte.
LEMMA FreshFits ==
  ASSUME NEW f \in Files, NEW s, NEW c \in Seq(0 .. Size[f]), NEW forged \in BOOLEAN,
         Held(f, c), forged \/ Begins(f, c)
  PROVE  Fits(f, s, <<>>, c, forged)
<1>1. <<>> \o c = c
  BY ConcatEmptySeq
<1> QED
  BY <1>1 DEF Fits

\* What continues s with blocks of the rest.
LEMMA RestFits ==
  ASSUME NEW f \in Files, NEW s \in Seq(0 .. Size[f]), Len(s) <= Size[f],
         NEW n \in 0 .. Size[f] - Len(s), NEW forged
  PROVE  Fits(f, s, s, SubSeq(Rest(f, Len(s)), 1, n), forged)
BY Prolongs DEF Fits

\* What continues s with as many other blocks as are missing.
LEMMA JunkFits ==
  ASSUME NEW f \in Files, NEW s \in Seq(0 .. Size[f]), Len(s) < Size[f], NEW forged, forged
  PROVE  Fits(f, s, s, Junk(Size[f] - Len(s)), forged)
<1> DEFINE c == Junk(Size[f] - Len(s))
<1>1. Size[f] \in Nat /\ Len(s) \in Nat /\ Size[f] - Len(s) \in 0 .. Size[f] + 1
  BY Sizes
<1>2. c \in Seq(0 .. Size[f]) /\ Len(c) = Size[f] - Len(s)
  BY <1>1, WholeFiles DEF Held
<1> HIDE DEF c
<1>3. s \o c \in Seq(0 .. Size[f]) /\ Len(s \o c) = Len(s) + Len(c)
  BY <1>2, Joined
<1>4. Held(f, s \o c)
  BY <1>1, <1>2, <1>3 DEF Held
<1> QED
  BY <1>2, <1>4 DEF Fits, c

\* A response to a request for what follows s that is neither refused nor an error of the
\* server: what it delivers fits.
LEMMA Delivered ==
  ASSUME NEW f \in Files, NEW s \in Seq(0 .. Size[f]),
         NEW r \in Expected(f, Len(s)) \cup Unexpected(f, Len(s)) \cup Forged(f, Len(s)),
         r.status \in {200, 206}, r.pinned,
         r.status = 206 /\ s # <<>> => r.from = Len(s)
  PROVE  Fits(f, s, Stays(s, r), r.content, r \in Forged(f, Len(s)) \ Expected(f, Len(s)))
<1> DEFINE k == Len(s)
           forged == r \in Forged(f, k) \ Expected(f, k)
<1>1. /\ Size[f] \in Nat /\ Size[f] > 0 /\ k \in Nat
      /\ Trusted(f) \in Seq(0 .. Size[f]) /\ Held(f, Trusted(f)) /\ Begins(f, Trusted(f))
      /\ s = <<>> <=> k = 0
  BY Sizes, WholeFiles DEF Held
<1>2. forged \in BOOLEAN
  OBVIOUS
<1> HIDE DEF forged
<1>3. ASSUME NEW c \in Seq(0 .. Size[f]), r = Response(200, 0, c), Held(f, c),
             forged \/ Begins(f, c)
      PROVE  Fits(f, s, Stays(s, r), r.content, forged)
  <2>1. Fits(f, s, <<>>, c, forged)
    BY <1>2, <1>3, FreshFits
  <2>2. Stays(s, r) = <<>> /\ r.content = c
    BY <1>3 DEF Stays, Response
  <2> QED
    BY <2>1, <2>2
<1>4. ASSUME NEW n \in 0 .. Size[f] - k, k <= Size[f], s # <<>>,
             r = Response(206, k, SubSeq(Rest(f, k), 1, n))
      PROVE  Fits(f, s, Stays(s, r), r.content, forged)
  <2>1. Fits(f, s, s, SubSeq(Rest(f, k), 1, n), forged)
    BY <1>4, RestFits
  <2>2. Stays(s, r) = s /\ r.content = SubSeq(Rest(f, k), 1, n)
    BY <1>4 DEF Stays, Response
  <2> QED
    BY <2>1, <2>2
<1>5. ASSUME NEW j \in 0 .. Size[f], NEW c \in Seq(0 .. Size[f]), s = <<>>,
             r = Response(206, j, c), Held(f, c), forged \/ Begins(f, c)
      PROVE  Fits(f, s, Stays(s, r), r.content, forged)
  <2>1. Fits(f, s, <<>>, c, forged)
    BY <1>2, <1>5, FreshFits
  <2>2. Stays(s, r) = <<>> /\ r.content = c
    BY <1>5 DEF Stays, Response
  <2> QED
    BY <2>1, <2>2
<1>6. ASSUME r \in Expected(f, k)
      PROVE  Fits(f, s, Stays(s, r), r.content, forged)
  <2>1. CASE r = Response(200, 0, Trusted(f))
    BY <1>1, <1>3, <2>1
  <2>2. CASE 0 < k /\ k < Size[f] /\ r = Response(206, k, Rest(f, k))
    <3>1. SubSeq(Rest(f, k), 1, Size[f] - k) = Rest(f, k) /\ Size[f] - k \in 0 .. Size[f] - k
      BY <1>1, <2>2, ProlongsWhole
    <3>2. s # <<>> /\ k <= Size[f]
      BY <1>1, <2>2
    <3>3. r = Response(206, k, SubSeq(Rest(f, k), 1, Size[f] - k))
      BY <2>2, <3>1
    <3> QED
      BY <1>4, <3>1, <3>2, <3>3
  <2> QED
    BY <1>6, <2>1, <2>2 DEF Expected, Response
<1>7. ASSUME r \in Unexpected(f, k)
      PROVE  Fits(f, s, Stays(s, r), r.content, forged)
  <2>1. CASE \E n \in 0 .. Size[f] : r = Response(200, 0, SubSeq(Trusted(f), 1, n))
    <3>1. PICK n \in 0 .. Size[f] : r = Response(200, 0, SubSeq(Trusted(f), 1, n))
      BY <2>1
    <3> DEFINE c == SubSeq(Trusted(f), 1, n)
    <3>2. c \in Seq(0 .. Size[f]) /\ Held(f, c) /\ Begins(f, c)
      BY ProlongsWhole
    <3> HIDE DEF c
    <3>3. r = Response(200, 0, c)
      BY <3>1 DEF c
    <3> QED
      BY <1>3, <3>2, <3>3
  <2>2. CASE \E n \in 0 .. Size[f] - k : r = Response(206, k, SubSeq(Rest(f, k), 1, n))
    <3>1. PICK n \in 0 .. Size[f] - k : r = Response(206, k, SubSeq(Rest(f, k), 1, n))
      BY <2>2
    <3>2. k <= Size[f]
      BY <1>1
    <3>3. CASE s # <<>>
      BY <1>4, <3>1, <3>2, <3>3
    <3>4. CASE s = <<>>
      <4> DEFINE c == SubSeq(Trusted(f), 1, n)
      <4>1. k = 0 /\ n \in 0 .. Size[f] /\ 0 \in 0 .. Size[f] /\ Rest(f, 0) = Trusted(f)
        BY <1>1, <3>4, ProlongsWhole
      <4>2. c \in Seq(0 .. Size[f]) /\ Held(f, c) /\ Begins(f, c)
        BY <4>1, ProlongsWhole
      <4>3. r = Response(206, 0, c)
        BY <3>1, <4>1
      <4> HIDE DEF c
      <4> QED
        BY <1>5, <3>4, <4>1, <4>2, <4>3
    <3> QED
      BY <3>3, <3>4
  <2>3. CASE \E j \in (0 .. Size[f]) \ {k} : k > 0 /\ r = Response(206, j, Rest(f, j))
    <3>1. PICK j \in (0 .. Size[f]) \ {k} : k > 0 /\ r = Response(206, j, Rest(f, j))
      BY <2>3
    <3>2. r.status = 206 /\ r.from = j /\ j # k /\ s # <<>>
      BY <1>1, <3>1 DEF Response
    <3> QED
      BY <3>2
  <2> QED
    BY <1>7, <2>1, <2>2, <2>3 DEF Unexpected, Response
<1>8. ASSUME r \in Forged(f, k), r \notin Expected(f, k)
      PROVE  Fits(f, s, Stays(s, r), r.content, forged)
  <2> forged
    BY <1>8 DEF forged
  <2>1. CASE \E n \in 1 .. Size[f] + 1 : r = Response(200, 0, Junk(n))
    <3>1. PICK n \in 1 .. Size[f] + 1 : r = Response(200, 0, Junk(n))
      BY <2>1
    <3>2. Held(f, Junk(n)) /\ Junk(n) \in Seq(0 .. Size[f])
      BY <1>1, WholeFiles DEF Held
    <3> QED
      BY <1>3, <1>8, <3>1, <3>2
  <2>2. CASE 0 < k /\ k < Size[f] /\ r = Response(206, k, Junk(Size[f] - k))
    <3>1. Fits(f, s, s, Junk(Size[f] - k), forged)
      BY <1>8, <2>2, JunkFits
    <3>2. Stays(s, r) = s /\ r.content = Junk(Size[f] - k)
      BY <1>1, <2>2 DEF Stays, Response
    <3> QED
      BY <3>1, <3>2
  <2>3. CASE k = 0 /\ \E j \in 1 .. Size[f] : r = Response(206, j, Rest(f, j))
    <3>1. PICK j \in 1 .. Size[f] : r = Response(206, j, Rest(f, j))
      BY <2>3
    <3>2. j \in 0 .. Size[f] /\ s = <<>>
      BY <1>1, <2>3
    <3>3. Rest(f, j) \in Seq(0 .. Size[f]) /\ Held(f, Rest(f, j))
      BY <1>1, <3>2, RestTyped DEF Held
    <3> QED
      BY <1>5, <1>8, <3>1, <3>2, <3>3
  <2> QED
    BY <1>8, <2>1, <2>2, <2>3 DEF Forged
<1>9. Fits(f, s, Stays(s, r), r.content, forged)
  BY <1>6, <1>7, <1>8
<1> QED
  BY <1>9 DEF forged

-----------------------------------------------------------------------------
(* Where a step leaves the command                                           *)

\* There are files and attempts, and a plan is a sequence.
LEMMA Bounds ==
  ASSUME plan \in Plans
  PROVE  /\ NumFiles \in Nat /\ NumFiles > 0 /\ 1 \in Files /\ Files = 1 .. NumFiles
         /\ AttemptsPerEndpoint \in Nat /\ 1 \in 1 .. AttemptsPerEndpoint
         /\ Len(plan) \in Nat /\ (plan # <<>> => Len(plan) > 0) /\ MaxFaults \in Nat
<1>1. \/ plan = <<>> \/ plan = <<"official">>
      \/ plan = <<"mirror">> \/ plan = <<"official", "mirror">>
  BY AssetAssumption, Zenon
<1> QED
  BY <1>1, AssetAssumption DEF Files

\* The command is over.
LEMMA EndsPlaced ==
  ASSUME plan \in Plans, plan' = plan, NEW how \in Over, Ends(how)
  PROVE  Place' /\ pc' = how
BY Bounds DEF Place, Ends, Over

\* After a retryable error it fetches again, or it has failed.
LEMMA RetryPlaced ==
  ASSUME plan \in Plans, plan' = plan, Place, pc \in {"fetch", "resolve", "body"}, Retry
  PROVE  Place' /\ pc' \in {"fetch", "failed"}
<1>1. CASE Ends("failed")
  BY <1>1, EndsPlaced DEF Over
<1>2. CASE MoreAttempts /\ Again(endpoint, attempt + 1)
  BY <1>2, Bounds DEF Place, MoreAttempts, Again, Over
<1>3. CASE endpoint < Len(plan) /\ Again(endpoint + 1, 1)
  BY <1>3, Bounds DEF Place, Again, Over
<1> QED
  BY <1>1, <1>2, <1>3 DEF Retry

\* After a file comes the next one, or the verification.
LEMMA NextPlaced ==
  ASSUME plan \in Plans, plan' = plan, Place, pc \in {"fetch", "resolve", "body"}, NextFile
  PROVE  Place' /\ pc' \in {"fetch", "verify"}
BY Bounds DEF Place, NextFile, Over

\* One fault more, or none.
LEMMA FaultsCounted ==
  ASSUME faults \in 0 .. MaxFaults, Faulty \/ UNCHANGED faults
  PROVE  faults' \in 0 .. MaxFaults
BY AssetAssumption DEF Faulty

-----------------------------------------------------------------------------
(* What a step does to the files                                             *)

\* A file that comes into place.
LEMMA Placing ==
  ASSUME DOMAIN final \subseteq Files, \A g \in DOMAIN final : Held(g, final[g]),
         NEW f \in Files, NEW content, Held(f, content), final' = InPlace(f, content)
  PROVE  /\ DOMAIN final' = DOMAIN final \cup {f}
         /\ \A g \in DOMAIN final' : Held(g, final'[g])
         /\ \A g \in DOMAIN final' : final'[g] = IF g = f THEN content ELSE final[g]
BY DEF InPlace

\* A file that leaves its place.
LEMMA Leaving ==
  ASSUME DOMAIN final \subseteq Files, \A g \in DOMAIN final : Held(g, final[g]),
         NEW f, final' = Without(f)
  PROVE  /\ DOMAIN final' = DOMAIN final \ {f}
         /\ \A g \in DOMAIN final' : final'[g] = final[g] /\ Held(g, final'[g])
BY DEF Without

\* A partial file that is replaced.
LEMMA Writing ==
  ASSUME partial = [g \in Files |-> partial[g]], \A g \in Files : Held(g, partial[g]),
         NEW f \in Files, NEW content, Held(f, content),
         partial' = [partial EXCEPT ![f] = content]
  PROVE  /\ partial' = [g \in Files |-> partial'[g]]
         /\ \A g \in Files : partial'[g] = IF g = f THEN content ELSE partial[g]
         /\ \A g \in Files : Held(g, partial'[g])
BY DEF Held

\* A set of numbers that is not empty has a least one.
LEMMA LeastOf ==
  ASSUME NEW T \in SUBSET Nat, T # {}
  PROVE  \E h \in T : \A g \in T : h <= g
<1> DEFINE R == OpToRel(<, Nat)
<1>1. \A x, y \in Nat : y < x => <<y, x>> \in R
  BY DEF OpToRel
<1>2. IsWellFoundedOn(R, Nat)
  BY NatLessThanWellFounded
<1> HIDE DEF R
<1>3. PICK x \in T : \A y \in T : ~ (<<y, x>> \in R)
  BY <1>2, WFMin
<1>4. ASSUME NEW y \in T PROVE x <= y
  <2>1. ~(y < x)
    BY <1>1, <1>3, Zenon
  <2> QED
    BY <2>1
<1> QED
  BY <1>4

\* Nothing is a beginning of every file.
LEMMA Nothing ==
  ASSUME NEW f \in Files
  PROVE  Held(f, <<>>) /\ Begins(f, <<>>)
BY Sizes DEF Held, Begins

\* No response is at hand afterwards.
LEMMA Idle ==
  ASSUME Place', pc' # "body", body' = <<>>,
         \A f \in DOMAIN final' : Held(f, final'[f]),
         partial' = [f \in Files |-> partial'[f]],
         \A f \in Files : Held(f, partial'[f])
  PROVE  Bytes'
BY DEF Bytes, Place

-----------------------------------------------------------------------------
(* The invariant holds initially and every step preserves it                 *)

\* An empty directory, no command.
LEMMA Initially == Init => AInv
<1> SUFFICES ASSUME Init PROVE AInv
  OBVIOUS
<1>1. /\ final = <<>> /\ DOMAIN final = {}
      /\ partial = [f \in Files |-> <<>>] /\ quarantine = {}
      /\ plan \in Plans /\ pc = "none" /\ endpoint = 0 /\ attempt = 1 /\ file = 1
      /\ body = <<>> /\ tainted = FALSE /\ faults = 0
  BY DEF Init
<1>2. Control
  <2>1. Place
    BY <1>1, Bounds DEF Place, Over
  <2>2. 0 \in 0 .. MaxFaults /\ DOMAIN final \subseteq Files /\ quarantine \subseteq Files
    BY <1>1, Bounds
  <2>3. faults \in 0 .. MaxFaults /\ tainted \in BOOLEAN /\ plan \in Plans
    BY <1>1, <2>2
  <2> QED
    BY <2>1, <2>2, <2>3 DEF Control
<1>3. Bytes
  <2>1. /\ partial = [f \in Files |-> partial[f]]
        /\ \A f \in Files : Held(f, partial[f])
    BY <1>1, Nothing
  <2>2. <<>> \in Seq(0 .. Size[file]) /\ pc # "body"
    BY <1>1
  <2> QED
    BY <1>1, <2>1, <2>2 DEF Bytes
<1>4. Clean
  BY <1>1, Nothing DEF Clean
<1>5. ReportsVerified
  BY <1>1 DEF ReportsVerified
<1> QED
  BY <1>2, <1>3, <1>4, <1>5 DEF AInv

\* Steps that touch no file.
LEMMA TouchNothing ==
  ASSUME AInv, Place', UNCHANGED <<disk, plan, body, tainted>>, faults' \in 0 .. MaxFaults,
         pc # "body", pc' \notin {"body", "reported"}
  PROVE  AInv'
<1>1. /\ final' = final /\ partial' = partial /\ quarantine' = quarantine /\ plan' = plan
      /\ body' = <<>> /\ body = <<>> /\ tainted' = tainted
      /\ Control /\ Bytes /\ Clean
  BY DEF AInv, Bytes, disk
<1>2. Control'
  BY <1>1 DEF Control
<1>3. Bytes'
  BY <1>1, Idle DEF Bytes
<1>4. Clean'
  BY <1>1 DEF Clean
<1>5. ReportsVerified'
  BY DEF ReportsVerified
<1> QED
  BY <1>2, <1>3, <1>4, <1>5 DEF AInv

\* The command starts, or is refused: no file is touched.
LEMMA PrepareStep == AInv /\ Prepare => AInv'
<1> SUFFICES ASSUME AInv, Prepare PROVE AInv'
  OBVIOUS
<1>1. /\ UNCHANGED <<disk, plan, body, tainted>> /\ plan' = plan /\ pc \in Over
      /\ pc # "body" /\ Control /\ Place /\ plan \in Plans
  BY DEF Prepare, AInv, Control, Over
<1>2. faults' \in 0 .. MaxFaults
  BY <1>1 DEF Prepare, Control
<1>3. Place' /\ pc' \notin {"body", "reported"}
  <2>1. CASE Ends("failed")
    BY <1>1, <2>1, EndsPlaced DEF Over
  <2>2. CASE ~Ends("failed")
    BY <1>1, <2>2, Bounds DEF Prepare, Place, Over
  <2> QED
    BY <2>1, <2>2
<1> QED
  BY <1>1, <1>2, <1>3, TouchNothing

\* A verification starts: no file is touched.
LEMMA VerifyCopyStep == AInv /\ VerifyCopy => AInv'
<1> SUFFICES ASSUME AInv, VerifyCopy PROVE AInv'
  OBVIOUS
<1>1. /\ UNCHANGED <<disk, plan, body, tainted>> /\ pc # "body"
      /\ pc' \notin {"body", "reported"}
  BY DEF VerifyCopy, Over
<1>2. Place' /\ faults' \in 0 .. MaxFaults
  BY DEF VerifyCopy, AInv, Control, Place, Over
<1> QED
  BY <1>1, <1>2, TouchNothing

\* An error of the hub: no file is touched.
LEMMA HubRaisesStep == AInv /\ HubRaises => AInv'
<1> SUFFICES ASSUME AInv, HubRaises PROVE AInv'
  OBVIOUS
<1>1. /\ UNCHANGED <<disk, plan, body, tainted>> /\ plan' = plan /\ pc = "fetch"
      /\ Control /\ Place /\ plan \in Plans /\ (Faulty \/ UNCHANGED faults)
  BY DEF HubRaises, AInv, Control
<1>2. Place' /\ pc' \notin {"body", "reported"}
  <2>1. CASE Retry
    BY <1>1, <2>1, RetryPlaced
  <2>2. CASE Terminal
    BY <1>1, <2>2, EndsPlaced DEF Terminal, Over
  <2> QED
    BY <2>1, <2>2 DEF HubRaises
<1>3. faults' \in 0 .. MaxFaults
  BY <1>1, FaultsCounted DEF Control
<1> QED
  BY <1>1, <1>2, <1>3, TouchNothing

\* On to the resolve route: no file is touched.
LEMMA HubLacksMetadataStep == AInv /\ HubLacksMetadata => AInv'
<1> SUFFICES ASSUME AInv, HubLacksMetadata PROVE AInv'
  OBVIOUS
<1>1. /\ UNCHANGED <<disk, plan, body, tainted>> /\ pc # "body"
      /\ pc' \notin {"body", "reported"}
  BY DEF HubLacksMetadata
<1>2. Place' /\ faults' \in 0 .. MaxFaults
  BY DEF HubLacksMetadata, AInv, Control, Place, Over
<1> QED
  BY <1>1, <1>2, TouchNothing

\* What matches is the pinned file; the verification reports nothing else, and moves away
\* only what does not match.
LEMMA VerifyStep == AInv /\ Verify => AInv'
<1> SUFFICES ASSUME AInv, Verify PROVE AInv'
  OBVIOUS
<1> DEFINE wrong == {f \in Files : f \notin DOMAIN final \/ ~Matches(f)}
           f == CHOOSE f \in wrong : \A g \in wrong : f <= g
<1>1. /\ pc = "verify" /\ Control /\ Bytes /\ Clean /\ Place
      /\ partial' = partial /\ plan' = plan /\ body' = body /\ tainted' = tainted
      /\ faults' = faults /\ body = <<>> /\ plan \in Plans
  BY DEF Verify, AInv, Control, Bytes
<1>2. CASE wrong = {}
  <2>1. Ends("reported") /\ final' = final /\ quarantine' = quarantine
    BY <1>2 DEF Verify
  <2>2. Place' /\ pc' = "reported"
    BY <1>1, <2>1, EndsPlaced DEF Over
  <2>3. Control'
    BY <1>1, <2>1, <2>2 DEF Control
  <2>4. Bytes'
    BY <1>1, <2>1, <2>2, Idle DEF Bytes
  <2>5. Clean'
    BY <1>1, <2>1, <2>2 DEF Clean
  <2>6. ReportsVerified'
    BY <1>1, <1>2, <2>1 DEF ReportsVerified, Matches, Control
  <2> QED
    BY <2>3, <2>4, <2>5, <2>6 DEF AInv
<1>3. CASE wrong # {}
  <2>1. f \in wrong
    <3>1. \E h \in wrong : \A g \in wrong : h <= g
      <4>1. wrong \subseteq Nat /\ wrong # {}
        BY <1>1, <1>3, Bounds
      <4> HIDE DEF wrong
      <4> QED
        BY <4>1, LeastOf
    <3> HIDE DEF wrong
    <3> QED
      BY <3>1
  <2> HIDE DEF f
  <2>2. /\ Ends("failed")
        /\ IF f \in DOMAIN final
           THEN final' = Without(f) /\ quarantine' = quarantine \cup {f}
           ELSE final' = final /\ quarantine' = quarantine
    BY <1>3 DEF Verify, f
  <2>3. Place' /\ pc' = "failed"
    BY <1>1, <2>2, EndsPlaced DEF Over
  <2>4. /\ DOMAIN final' \subseteq DOMAIN final
        /\ \A g \in DOMAIN final' : final'[g] = final[g] /\ Held(g, final'[g])
    BY <1>1, <2>2, Leaving DEF Control, Bytes
  <2>5. Control'
    BY <1>1, <2>1, <2>2, <2>3, <2>4 DEF Control
  <2>6. Bytes'
    BY <1>1, <2>3, <2>4, Idle DEF Bytes
  <2>7. Clean'
    <3>1. SUFFICES ASSUME ~tainted PROVE f \notin DOMAIN final
      BY <1>1, <2>2, <2>3, <2>4 DEF Clean
    <3> QED
      BY <1>1, <2>1, <3>1 DEF Clean, Matches
  <2>8. ReportsVerified'
    BY <2>3 DEF ReportsVerified
  <2> QED
    BY <2>5, <2>6, <2>7, <2>8 DEF AInv
<1> QED
  BY <1>2, <1>3

\* A whole file comes into place, or none, and nothing else is at hand.
LEMMA FilePlaced ==
  ASSUME AInv, Place', plan' = plan, quarantine' = quarantine, body' = <<>>,
         faults' \in 0 .. MaxFaults, tainted' \in BOOLEAN, tainted => tainted',
         pc' \notin {"body", "reported"},
         NEW f \in Files, NEW content, Held(f, content),
         ~tainted' => content = Trusted(f),
         final' = final \/ final' = InPlace(f, content),
         partial' = partial \/ partial' = [partial EXCEPT ![f] = <<>>]
  PROVE  AInv'
<1>1. Control /\ Bytes /\ Clean
  BY DEF AInv
<1>2. /\ DOMAIN final' \subseteq Files
      /\ \A g \in DOMAIN final' : Held(g, final'[g])
      /\ \A g \in DOMAIN final' :
           (g \in DOMAIN final /\ final'[g] = final[g]) \/ (g = f /\ final'[g] = content)
  <2>1. CASE final' = final
    BY <1>1, <2>1 DEF Control, Bytes
  <2>2. CASE final' = InPlace(f, content)
    <3>1. DOMAIN final \subseteq Files /\ \A g \in DOMAIN final : Held(g, final[g])
      BY <1>1 DEF Control, Bytes
    <3>2. /\ DOMAIN final' = DOMAIN final \cup {f}
          /\ \A g \in DOMAIN final' : Held(g, final'[g])
          /\ \A g \in DOMAIN final' : final'[g] = IF g = f THEN content ELSE final[g]
      BY <2>2, <3>1, Placing
    <3> QED
      BY <3>1, <3>2
  <2> QED
    BY <2>1, <2>2
<1>3. /\ partial' = [g \in Files |-> partial'[g]]
      /\ \A g \in Files : Held(g, partial'[g])
      /\ \A g \in Files : partial'[g] = partial[g] \/ partial'[g] = <<>>
  <2>1. CASE partial' = partial
    BY <1>1, <2>1 DEF Bytes
  <2>2. CASE partial' = [partial EXCEPT ![f] = <<>>]
    <3>1. /\ partial = [g \in Files |-> partial[g]]
          /\ \A g \in Files : Held(g, partial[g])
          /\ Held(f, <<>>)
      BY <1>1, Nothing DEF Bytes
    <3> QED
      BY <2>2, <3>1, Writing
  <2> QED
    BY <2>1, <2>2
<1>4. Control'
  BY <1>1, <1>2 DEF Control
<1>5. Bytes'
  BY <1>2, <1>3, Idle
<1>6. Clean'
  <2>1. SUFFICES ASSUME ~tainted'
                 PROVE  /\ \A g \in DOMAIN final' : final'[g] = Trusted(g)
                        /\ \A g \in Files : Begins(g, partial'[g])
                        /\ quarantine' = {}
    BY DEF Clean
  <2>2. /\ \A g \in DOMAIN final : final[g] = Trusted(g)
        /\ \A g \in Files : Begins(g, partial[g])
        /\ quarantine = {} /\ content = Trusted(f)
    BY <1>1, <2>1 DEF Clean
  <2> QED
    BY <1>2, <1>3, <2>2, Nothing
<1>7. ReportsVerified'
  BY DEF ReportsVerified
<1> QED
  BY <1>4, <1>5, <1>6, <1>7 DEF AInv

\* The file the hub client leaves is the pinned one, or the bytes are tainted.
LEMMA HubReturnsStep == AInv /\ HubReturns => AInv'
<1> SUFFICES ASSUME AInv, HubReturns PROVE AInv'
  OBVIOUS
<1>1. /\ Control /\ Bytes /\ Place /\ plan \in Plans /\ plan' = plan /\ pc = "fetch"
      /\ quarantine' = quarantine /\ partial' = partial /\ body' = <<>> /\ file \in Files
      /\ NextFile
  BY DEF HubReturns, AInv, Control, Bytes, Place
<1>2. Place' /\ pc' \notin {"body", "reported"}
  BY <1>1, NextPlaced
<1>3. Size[file] \in 0 .. Size[file] + 1
  BY <1>1, Sizes
<1>4. /\ Held(file, Trusted(file)) /\ Held(file, Junk(Size[file]))
  BY <1>1, <1>3, WholeFiles
<1>5. faults' \in 0 .. MaxFaults /\ tainted \in BOOLEAN
  BY <1>1, FaultsCounted DEF HubReturns, Control
<1>6. CASE final' = InPlace(file, Trusted(file)) /\ UNCHANGED <<tainted, faults>>
  BY <1>1, <1>2, <1>4, <1>5, <1>6, FilePlaced
<1>7. CASE UNCHANGED <<final, tainted, faults>>
  BY <1>1, <1>2, <1>4, <1>5, <1>7, FilePlaced
<1>8. CASE final' = InPlace(file, Junk(Size[file])) /\ tainted' = TRUE
  BY <1>1, <1>2, <1>4, <1>5, <1>8, FilePlaced
<1> QED
  BY <1>6, <1>7, <1>8 DEF HubReturns

\* A copied file is the pinned one, and no report names it yet.
LEMMA CopiedInStep == ASSUME NEW f \in Files PROVE AInv /\ CopiedIn(f) => AInv'
<1> SUFFICES ASSUME AInv, CopiedIn(f) PROVE AInv'
  OBVIOUS
<1>1. /\ Control /\ Bytes /\ Clean /\ ReportsVerified /\ pc \in Over /\ f \notin DOMAIN final
      /\ final' = InPlace(f, Trusted(f)) /\ partial' = partial /\ quarantine' = quarantine
      /\ plan' = plan /\ pc' = pc /\ endpoint' = endpoint /\ attempt' = attempt
      /\ file' = file /\ body' = body /\ tainted' = tainted /\ faults' = faults
  BY DEF CopiedIn, AInv, job
<1>2. pc # "reported"
  BY <1>1 DEF ReportsVerified
<1>3. Place' /\ pc' \notin {"body", "reported"} /\ body' = <<>>
  BY <1>1, <1>2 DEF Place, Control, Bytes, Over
<1>4. Held(f, Trusted(f)) /\ faults' \in 0 .. MaxFaults /\ tainted' \in BOOLEAN
  BY <1>1, WholeFiles DEF Control
<1> QED
  BY <1>1, <1>3, <1>4, FilePlaced

\* Damage taints, and withdraws the report.
LEMMA DamageStep == ASSUME NEW f \in Files PROVE AInv /\ Damage(f) => AInv'
<1> SUFFICES ASSUME AInv, Damage(f) PROVE AInv'
  OBVIOUS
<1>1. /\ Control /\ Bytes /\ Clean /\ pc \in Over /\ Faulty /\ tainted' = TRUE /\ pc' = "none"
      /\ final' = InPlace(f, Junk(Size[f])) \/ final' = Without(f)
      /\ partial' = partial /\ quarantine' = quarantine /\ plan' = plan
      /\ endpoint' = endpoint /\ attempt' = attempt /\ file' = file /\ body' = body
  BY DEF Damage, AInv
<1>2. /\ Place' /\ body' = <<>> /\ faults' \in 0 .. MaxFaults /\ tainted' \in BOOLEAN
  BY <1>1, FaultsCounted DEF Place, Control, Bytes, Over
<1>3. Held(f, Junk(Size[f]))
  BY Sizes, WholeFiles
<1>4. CASE final' = InPlace(f, Junk(Size[f]))
  BY <1>1, <1>2, <1>3, <1>4, FilePlaced
<1>5. CASE final' = Without(f)
  <2>1. /\ DOMAIN final' \subseteq DOMAIN final
        /\ \A g \in DOMAIN final' : Held(g, final'[g])
    BY <1>1, <1>5, Leaving DEF Control, Bytes
  <2>2. Control'
    BY <1>1, <1>2, <2>1 DEF Control
  <2>3. Bytes'
    BY <1>1, <1>2, <2>1, Idle DEF Bytes
  <2>4. Clean' /\ ReportsVerified'
    BY <1>1 DEF Clean, ReportsVerified
  <2> QED
    BY <2>2, <2>3, <2>4 DEF AInv
<1> QED
  BY <1>1, <1>4, <1>5

\* The answer to a request.
LEMMA RequestStep == AInv /\ Request => AInv'
<1> SUFFICES ASSUME AInv, Request PROVE AInv'
  OBVIOUS
<1> DEFINE k == Len(partial[file])
<1>1. /\ Control /\ Bytes /\ Clean /\ Place /\ plan \in Plans /\ plan' = plan
      /\ pc = "resolve" /\ body = <<>> /\ quarantine' = quarantine /\ file \in Files
      /\ Held(file, partial[file]) /\ partial[file] \in Seq(0 .. Size[file])
  BY DEF Request, AInv, Control, Place, Bytes, Held
<1>2. PICK r \in Expected(file, k) \cup Unexpected(file, k) \cup Forged(file, k) :
       /\ IF r \in Expected(file, k) THEN UNCHANGED faults ELSE Faulty
       /\ tainted' = (tainted \/ r \in Forged(file, k) \ Expected(file, k))
       /\ CASE Refused(r) -> Terminal /\ UNCHANGED <<final, partial, body>>
            [] r.status = 503 -> Retry /\ UNCHANGED <<final, partial, body>>
            [] Complete(r) ->
                 /\ final' = InPlace(file, partial[file])
                 /\ partial' = [partial EXCEPT ![file] = <<>>]
                 /\ NextFile
                 /\ UNCHANGED body
            [] OTHER ->
                 /\ partial' = IF Appends(r) THEN partial ELSE [partial EXCEPT ![file] = <<>>]
                 /\ body' = r.content
                 /\ pc' = "body"
                 /\ UNCHANGED <<final, endpoint, attempt, file>>
  BY DEF Request
<1> DEFINE refused == Terminal /\ UNCHANGED <<final, partial, body>>
           later == Retry /\ UNCHANGED <<final, partial, body>>
           complete == /\ final' = InPlace(file, partial[file])
                       /\ partial' = [partial EXCEPT ![file] = <<>>]
                       /\ NextFile
                       /\ UNCHANGED body
           delivers ==
             /\ partial' = IF Appends(r) THEN partial ELSE [partial EXCEPT ![file] = <<>>]
             /\ body' = r.content
             /\ pc' = "body"
             /\ UNCHANGED <<final, endpoint, attempt, file>>
<1>3. /\ faults' \in 0 .. MaxFaults /\ tainted \in BOOLEAN /\ tainted' \in BOOLEAN
      /\ tainted => tainted'
  <2>1. Faulty \/ UNCHANGED faults
    BY <1>2
  <2>2. tainted \in BOOLEAN /\ faults' \in 0 .. MaxFaults
    BY <1>1, <2>1, FaultsCounted DEF Control
  <2>3. tainted' = (tainted \/ r \in Forged(file, k) \ Expected(file, k))
    BY <1>2
  <2> QED
    BY <2>2, <2>3, Zenon
<1>4. \/ refused
      \/ later
      \/ Complete(r) /\ complete
      \/ ~Refused(r) /\ r.status # 503 /\ ~Complete(r) /\ delivers
  <2>1. CASE Refused(r)
    BY <1>2, <2>1
  <2>2. CASE ~Refused(r) /\ r.status = 503
    BY <1>2, <2>2
  <2>3. CASE ~Refused(r) /\ r.status # 503 /\ Complete(r)
    BY <1>2, <2>3
  <2>4. CASE ~Refused(r) /\ r.status # 503 /\ ~Complete(r)
    BY <1>2, <2>4
  <2> QED
    BY <2>1, <2>2, <2>3, <2>4
<1>5. ASSUME NEW content, Held(file, content), ~tainted' => content = Trusted(file),
             final' = final \/ final' = InPlace(file, content),
             partial' = partial \/ partial' = [partial EXCEPT ![file] = <<>>],
             body' = <<>>, Place', pc' \notin {"body", "reported"}
      PROVE  AInv'
  BY <1>1, <1>3, <1>5, FilePlaced
<1>6. Held(file, Trusted(file))
  BY <1>1, WholeFiles
<1>7. CASE refused
  <2>1. Place' /\ pc' \notin {"body", "reported"}
    BY <1>1, <1>7, EndsPlaced DEF Terminal, Over
  <2> QED
    BY <1>1, <1>5, <1>6, <1>7, <2>1
<1>8. CASE later
  <2>1. Place' /\ pc' \notin {"body", "reported"}
    BY <1>1, <1>8, RetryPlaced
  <2> QED
    BY <1>1, <1>5, <1>6, <1>8, <2>1
<1>9. CASE Complete(r) /\ complete
  <2>1. Place' /\ pc' \notin {"body", "reported"}
    BY <1>1, <1>9, NextPlaced
  <2>2. ASSUME ~tainted' PROVE partial[file] = Trusted(file)
    <3>1. Begins(file, partial[file])
      BY <1>1, <1>3, <2>2 DEF Clean
    <3>2. Len(partial[file]) = Size[file]
      BY <1>9 DEF Complete
    <3> QED
      BY <1>1, <3>1, <3>2, WholeBeginning
  <2> QED
    BY <1>1, <1>5, <1>9, <2>1, <2>2
<1>10. CASE ~Refused(r) /\ r.status # 503 /\ ~Complete(r) /\ delivers
  <2> DEFINE s == partial[file]
             kept == Stays(s, r)
             forged == r \in Forged(file, k) \ Expected(file, k)
  <2>1. /\ r.status \in {200, 206} /\ r.pinned
        /\ (r.status = 206 /\ s # <<>> => r.from = Len(s))
    BY <1>10 DEF Refused, RangeAsked
  <2>2. Fits(file, s, kept, r.content, forged)
    BY <1>1, <2>1, Delivered
  <2>3. /\ kept = s \/ kept = <<>>
        /\ partial' = [partial EXCEPT ![file] = kept]
    <3>1. CASE Appends(r)
      <4>1. kept = s /\ partial' = partial
        BY <1>10, <3>1 DEF Appends, Stays
      <4>2. partial = [partial EXCEPT ![file] = s]
        BY <1>1 DEF Bytes
      <4> QED
        BY <4>1, <4>2
    <3>2. CASE ~Appends(r)
      BY <1>10, <3>2 DEF Appends, Stays
    <3> QED
      BY <3>1, <3>2
  <2> HIDE DEF kept, forged
  <2>4. Held(file, kept)
    BY <1>1, <2>3, Nothing
  <2>5. /\ partial' = [g \in Files |-> partial'[g]]
        /\ \A g \in Files : partial'[g] = IF g = file THEN kept ELSE partial[g]
        /\ \A g \in Files : Held(g, partial'[g])
    <3>1. partial = [g \in Files |-> partial[g]] /\ \A g \in Files : Held(g, partial[g])
      BY <1>1 DEF Bytes
    <3> QED
      BY <1>1, <2>3, <2>4, <3>1, Writing
  <2>6. /\ body' = r.content /\ pc' = "body" /\ final' = final /\ endpoint' = endpoint
        /\ attempt' = attempt /\ file' = file
    BY <1>10
  <2>7. Control'
    BY <1>1, <1>3, <2>6 DEF Control, Place, Over
  <2>8. Bytes'
    <3>1. body' \in Seq(0 .. Size[file']) /\ Held(file', partial'[file'] \o body')
      BY <1>1, <2>2, <2>5, <2>6 DEF Fits
    <3>2. \A g \in DOMAIN final' : Held(g, final'[g])
      BY <1>1, <2>6 DEF Bytes
    <3> QED
      BY <2>5, <2>6, <3>1, <3>2 DEF Bytes
  <2>9. Clean'
    <3>1. SUFFICES ASSUME ~tainted'
                   PROVE  /\ \A g \in DOMAIN final' : final'[g] = Trusted(g)
                          /\ \A g \in Files : Begins(g, partial'[g])
                          /\ quarantine' = {}
                          /\ Begins(file', partial'[file'] \o body')
      BY DEF Clean
    <3>2. /\ \A g \in DOMAIN final : final[g] = Trusted(g)
          /\ \A g \in Files : Begins(g, partial[g])
          /\ quarantine = {}
      BY <1>1, <1>3, <3>1 DEF Clean
    <3>3. ~forged
      BY <1>2, <3>1 DEF forged
    <3>4. Begins(file, kept \o r.content)
      BY <1>1, <2>2, <3>2, <3>3 DEF Fits
    <3>5. \A g \in Files : Begins(g, partial'[g])
      BY <1>1, <2>3, <2>5, <3>2, Nothing
    <3> QED
      BY <1>1, <2>5, <2>6, <3>2, <3>4, <3>5
  <2>10. ReportsVerified'
    BY <2>6 DEF ReportsVerified
  <2> QED
    BY <2>7, <2>8, <2>9, <2>10 DEF AInv
<1> QED
  BY <1>4, <1>7, <1>8, <1>9, <1>10

\* The partial file keeps a part of what was to come, and nothing more is at hand.
LEMMA PartKept ==
  ASSUME AInv, pc = "body", Place', plan' = plan, quarantine' = quarantine, final' = final,
         tainted' = tainted, faults' \in 0 .. MaxFaults, body' = <<>>,
         pc' \notin {"body", "reported"},
         NEW content, Held(file, content),
         Begins(file, partial[file] \o body) => Begins(file, content),
         partial' = [partial EXCEPT ![file] = content]
  PROVE  AInv'
<1>1. /\ Control /\ Bytes /\ Clean /\ file \in Files
      /\ partial = [g \in Files |-> partial[g]]
      /\ \A g \in Files : Held(g, partial[g])
  BY DEF AInv, Control, Place, Bytes
<1>2. /\ partial' = [g \in Files |-> partial'[g]]
      /\ \A g \in Files : partial'[g] = IF g = file THEN content ELSE partial[g]
      /\ \A g \in Files : Held(g, partial'[g])
  BY <1>1, Writing
<1>3. Control'
  BY <1>1 DEF Control
<1>4. Bytes'
  BY <1>1, <1>2, Idle DEF Bytes
<1>5. Clean'
  BY <1>1, <1>2 DEF Clean
<1>6. ReportsVerified'
  BY DEF ReportsVerified
<1> QED
  BY <1>3, <1>4, <1>5, <1>6 DEF AInv

\* Of what fits, a part fits.
LEMMA Truncated ==
  ASSUME NEW f \in Files, NEW p \in Seq(0 .. Size[f]), NEW b \in Seq(0 .. Size[f]),
         NEW n \in 0 .. Len(b), Held(f, p \o b)
  PROVE  LET u == SubSeq(b, 1, n) IN
         Held(f, p \o u) /\ (Begins(f, p \o b) => Begins(f, p \o u))
<1> DEFINE u == SubSeq(b, 1, n)
           long == p \o b
           short == p \o u
<1>1. u \in Seq(0 .. Size[f]) /\ Len(u) = n /\ \A i \in 1 .. n : u[i] = b[i]
  <2>1. n \in Int /\ \A i \in 1 .. n : b[i] \in 0 .. Size[f]
    <3>1. Len(b) \in Nat /\ \A i \in 1 .. Len(b) : b[i] \in 0 .. Size[f]
      BY ElementOfSeq, LenProperties
    <3> QED
      BY <3>1
  <2>2. /\ u \in Seq(0 .. Size[f]) /\ Len(u) = IF 1 <= n THEN n - 1 + 1 ELSE 0
        /\ \A i \in 1 .. n - 1 + 1 : u[i] = b[1 + i - 1]
    BY <2>1, SubSeqProperties
  <2> QED
    BY <2>2
<1> HIDE DEF u
<1>2. /\ long \in Seq(0 .. Size[f]) /\ Len(long) = Len(p) + Len(b)
      /\ \A i \in 1 .. Len(p) + Len(b) : long[i] = IF i <= Len(p) THEN p[i] ELSE b[i - Len(p)]
  BY ConcatProperties
<1>3. /\ short \in Seq(0 .. Size[f]) /\ Len(short) = Len(p) + Len(u)
      /\ \A i \in 1 .. Len(p) + Len(u) :
           short[i] = IF i <= Len(p) THEN p[i] ELSE u[i - Len(p)]
  BY <1>1, ConcatProperties
<1> HIDE DEF long, short
<1>4. Len(p) \in Nat /\ Len(b) \in Nat /\ n <= Len(b) /\ Size[f] \in Nat
  BY Sizes
<1>5. Len(short) <= Len(long) /\ \A i \in 1 .. Len(short) : short[i] = long[i]
  <2>1. Len(short) = Len(p) + n /\ Len(long) = Len(p) + Len(b)
    BY <1>1, <1>2, <1>3
  <2>2. ASSUME NEW i \in 1 .. Len(short) PROVE short[i] = long[i]
    <3>1. i \in 1 .. Len(p) + Len(u) /\ i \in 1 .. Len(p) + Len(b)
      BY <1>1, <1>4, <2>1
    <3>2. short[i] = IF i <= Len(p) THEN p[i] ELSE u[i - Len(p)]
      BY <1>3, <3>1
    <3>3. long[i] = IF i <= Len(p) THEN p[i] ELSE b[i - Len(p)]
      BY <1>2, <3>1
    <3>4. ~(i <= Len(p)) => i - Len(p) \in 1 .. n
      BY <1>1, <1>4, <3>1
    <3> QED
      BY <1>1, <3>2, <3>3, <3>4
  <2> QED
    BY <1>4, <2>1, <2>2
<1>6. Held(f, short)
  BY <1>2, <1>3, <1>4, <1>5 DEF Held, long
<1>7. Begins(f, long) => Begins(f, short)
  BY <1>2, <1>3, <1>4, <1>5 DEF Begins
<1> QED
  BY <1>6, <1>7 DEF long, short, u

\* A transfer that broke after n blocks.
LEMMA KeptPart ==
  ASSUME AInv, pc = "body", Place', plan' = plan, quarantine' = quarantine, final' = final,
         tainted' = tainted, faults' \in 0 .. MaxFaults, body' = <<>>,
         pc' \notin {"body", "reported"}, NEW n \in 0 .. Len(body), Kept(n)
  PROVE  AInv'
<1>1. /\ file \in Files /\ Held(file, partial[file]) /\ body \in Seq(0 .. Size[file])
      /\ Held(file, partial[file] \o body) /\ partial[file] \in Seq(0 .. Size[file])
  BY DEF AInv, Control, Place, Bytes, Held
<1> DEFINE content == partial[file] \o SubSeq(body, 1, n)
<1>2. /\ Held(file, content)
      /\ Begins(file, partial[file] \o body) => Begins(file, content)
  BY <1>1, Truncated
<1>3. partial' = [partial EXCEPT ![file] = content]
  BY DEF Kept
<1> HIDE DEF content
<1> QED
  BY <1>2, <1>3, PartKept

\* What was received in full is placed, or is kept to be continued.
LEMMA ReceivedStep == AInv /\ Received => AInv'
<1> SUFFICES ASSUME AInv, Received PROVE AInv'
  OBVIOUS
<1> DEFINE got == partial[file] \o body
<1>1. /\ Control /\ Bytes /\ Clean /\ Place /\ plan \in Plans /\ plan' = plan
      /\ pc = "body" /\ body' = <<>> /\ quarantine' = quarantine /\ tainted' = tainted
      /\ file \in Files /\ Held(file, got) /\ tainted' \in BOOLEAN
      /\ faults' \in 0 .. MaxFaults
  BY DEF Received, AInv, Control, Place, Bytes
<1>2. CASE Len(got) = Size[file]
  <2>1. /\ final' = InPlace(file, got) /\ partial' = [partial EXCEPT ![file] = <<>>]
        /\ NextFile
    BY <1>2 DEF Received
  <2>2. Place' /\ pc' \notin {"body", "reported"}
    BY <1>1, <2>1, NextPlaced
  <2>3. ASSUME ~tainted' PROVE got = Trusted(file)
    <3>1. Begins(file, got) /\ got \in Seq(0 .. Size[file])
      BY <1>1, <2>3 DEF Clean, Held
    <3> QED
      BY <1>1, <1>2, <3>1, WholeBeginning
  <2> HIDE DEF got
  <2> QED
    BY <1>1, <2>1, <2>2, <2>3, FilePlaced
<1>3. CASE Len(got) # Size[file]
  <2>1. /\ partial' = [partial EXCEPT ![file] = got] /\ final' = final
        /\ Retry \/ Terminal
    BY <1>3 DEF Received
  <2>2. Place' /\ pc' \notin {"body", "reported"}
    BY <1>1, <2>1, RetryPlaced, EndsPlaced DEF Terminal, Over
  <2> QED
    BY <1>1, <2>1, <2>2, PartKept
<1> QED
  BY <1>2, <1>3

\* A broken transfer keeps a part of what was to come.
LEMMA BreaksStep == AInv /\ Breaks => AInv'
<1> SUFFICES ASSUME AInv, Breaks PROVE AInv'
  OBVIOUS
<1>1. /\ Control /\ Place /\ plan \in Plans /\ plan' = plan /\ final' = final
      /\ pc = "body" /\ body' = <<>> /\ quarantine' = quarantine /\ tainted' = tainted
      /\ Retry \/ Terminal
  BY DEF Breaks, AInv, Control
<1>2. Place' /\ pc' \notin {"body", "reported"}
  BY <1>1, RetryPlaced, EndsPlaced DEF Terminal, Over
<1>3. faults' \in 0 .. MaxFaults
  BY <1>1, FaultsCounted DEF Breaks, Control
<1>4. PICK n \in 0 .. Len(body) : Kept(n)
  BY DEF Breaks
<1> QED
  BY <1>1, <1>2, <1>3, <1>4, KeptPart

\* So does a process that dies in the middle of one.
LEMMA CrashStep == AInv /\ Crash => AInv'
<1> SUFFICES ASSUME AInv, Crash PROVE AInv'
  OBVIOUS
<1>1. /\ Control /\ Bytes /\ Place /\ plan \in Plans /\ plan' = plan /\ final' = final
      /\ body' = <<>> /\ quarantine' = quarantine /\ tainted' = tainted /\ Ends("none")
  BY DEF Crash, AInv, Control
<1>2. Place' /\ pc' \notin {"body", "reported"}
  BY <1>1, EndsPlaced DEF Over
<1>3. faults' \in 0 .. MaxFaults
  BY <1>1, FaultsCounted DEF Crash, Control
<1>4. CASE pc = "body"
  <2>1. PICK n \in 0 .. Len(body) : Kept(n)
    BY <1>4 DEF Crash
  <2> QED
    BY <1>1, <1>2, <1>3, <1>4, <2>1, KeptPart
<1>5. CASE pc # "body"
  <2>1. UNCHANGED <<disk, plan, body, tainted>>
    BY <1>1, <1>5 DEF Crash, Bytes, disk
  <2> QED
    BY <1>2, <1>3, <1>5, <2>1, TouchNothing
<1> QED
  BY <1>4, <1>5

\* Nothing happens.
LEMMA StutterStep == AInv /\ UNCHANGED vars => AInv'
BY DEF AInv, Control, Place, Bytes, Clean, ReportsVerified, vars, disk, job, Over,
       Held, Begins

-----------------------------------------------------------------------------
(* Theorems                                                                  *)

\* The invariant is inductive.
LEMMA PreparationStep == AInv /\ [Next]_vars => AInv'
<1> SUFFICES ASSUME AInv, [Next]_vars PROVE AInv'
  OBVIOUS
<1>1. CASE Prepare
  BY <1>1, PrepareStep
<1>2. CASE VerifyCopy
  BY <1>2, VerifyCopyStep
<1>3. CASE Work
  BY <1>3, VerifyStep, HubReturnsStep, HubRaisesStep, HubLacksMetadataStep, RequestStep,
     ReceivedStep, BreaksStep DEF Work
<1>4. CASE Crash
  BY <1>4, CrashStep
<1>5. ASSUME NEW f \in Files, Damage(f) \/ CopiedIn(f) PROVE AInv'
  BY <1>5, DamageStep, CopiedInStep
<1>6. CASE UNCHANGED vars
  BY <1>6, StutterStep
<1> QED
  BY <1>1, <1>2, <1>3, <1>4, <1>5, <1>6 DEF Next

LEMMA Invariant == Spec => []AInv
BY Initially, PreparationStep, PTL DEF Spec

\* The invariant is stronger than the types.
LEMMA Typed == AInv => TypeOK
<1> SUFFICES ASSUME AInv PROVE TypeOK
  OBVIOUS
<1>1. ASSUME NEW f \in Files, NEW s \in Seq(0 .. Size[f]), Len(s) <= Size[f] + 1
      PROVE  s \in Contents(f)
  <2>1. Len(s) \in 0 .. 2 * Size[f] + 1 /\ s \in [1 .. Len(s) -> 0 .. Size[f]]
    BY <1>1, Sizes
  <2> QED
    BY <2>1 DEF Contents
<1>2. /\ \A f \in DOMAIN final : final[f] \in Contents(f)
      /\ \A f \in Files : partial[f] \in Contents(f)
  BY <1>1 DEF AInv, Control, Bytes, Held
<1>3. body \in Contents(file)
  <2>1. file \in Files /\ body \in Seq(0 .. Size[file]) /\ Size[file] \in Nat
    BY Sizes DEF AInv, Control, Place, Bytes
  <2>2. CASE pc = "body"
    <3>1. partial[file] \in Seq(0 .. Size[file]) /\ Held(file, partial[file] \o body)
      BY <2>1, <2>2 DEF AInv, Bytes, Held
    <3>2. Len(partial[file] \o body) = Len(partial[file]) + Len(body)
      BY <2>1, <3>1, Joined
    <3>3. Len(body) <= Size[file] + 1
      BY <2>1, <3>1, <3>2 DEF Held
    <3> QED
      BY <1>1, <2>1, <3>3
  <2>3. CASE pc # "body"
    <3>1. body = <<>>
      BY <2>3 DEF AInv, Bytes
    <3>2. Len(body) <= Size[file] + 1
      BY <2>1, <3>1
    <3> QED
      BY <1>1, <2>1, <3>2
  <2> QED
    BY <2>2, <2>3
<1> QED
  BY <1>2, <1>3 DEF AInv, Control, Place, TypeOK

\* Every part of the state has its type; no file, in place or partial, ever holds more than
\* one block more than it should.
THEOREM TypeCorrect == Spec => []TypeOK
BY Invariant, Typed, PTL

\* Whatever servers, crashes and earlier runs do, a report names verified files.
THEOREM AlwaysVerified == Spec => []ReportsVerified
<1>1. AInv => ReportsVerified
  BY DEF AInv
<1> QED
  BY Invariant, <1>1, PTL

\* Resuming over any number of breaks, crashes and retries never spoils a file, as long as
\* the bytes that are served are the file's.
THEOREM AlwaysCleanResume == Spec => []CleanResume
<1>1. AInv => CleanResume
  BY DEF AInv, Clean, CleanResume, Begins
<1> QED
  BY Invariant, <1>1, PTL

-----------------------------------------------------------------------------
(* Concatenations: where each part lies                                      *)

\* Induction, for the numbers with a property.
LEMMA Induction ==
  ASSUME NEW T, T \subseteq Nat, 0 \in T, \A n \in T : n + 1 \in T
  PROVE  \A n \in Nat : n \in T
<1> SUFFICES ASSUME Nat \ T # {} PROVE FALSE
  OBVIOUS
<1>1. PICK n \in Nat \ T : \A m \in Nat \ T : n <= m
  BY LeastOf
<1>2. n # 0 /\ n - 1 \in Nat /\ ~(n <= n - 1) /\ (n - 1) + 1 = n
  BY <1>1
<1>3. n - 1 \in T
  BY <1>1, <1>2
<1> QED
  BY <1>1, <1>2, <1>3

\* The partial concatenations that FlattenSeq is defined by.
Concatenates(f, ss, n) ==
  f = [i \in 1 .. n |-> IF i = 1 THEN ss[i] ELSE f[i - 1] \o ss[i]]

LEMMA ConcatenatesExists ==
  ASSUME NEW ss, NEW n \in Nat
  PROVE  \E f : Concatenates(f, ss, n)
<1> DEFINE T == {m \in Nat : \E f : Concatenates(f, ss, m)}
<1>1. 0 \in T
  <2>1. Concatenates([i \in 1 .. 0 |-> ss[i]], ss, 0)
    BY DEF Concatenates
  <2> QED
    BY <2>1
<1>2. ASSUME NEW m \in T PROVE m + 1 \in T
  <2>1. PICK f : Concatenates(f, ss, m)
    OBVIOUS
  <2> DEFINE g == [i \in 1 .. m + 1 |->
                     IF i \in 1 .. m THEN f[i] ELSE IF i = 1 THEN ss[i] ELSE f[i - 1] \o ss[i]]
  <2>2. ASSUME NEW i \in 1 .. m + 1
        PROVE  g[i] = IF i = 1 THEN ss[i] ELSE g[i - 1] \o ss[i]
    <3>1. CASE i \in 1 .. m
      <4>1. g[i] = f[i] /\ (i # 1 => i - 1 \in 1 .. m /\ g[i - 1] = f[i - 1])
        BY <3>1
      <4>2. f[i] = IF i = 1 THEN ss[i] ELSE f[i - 1] \o ss[i]
        BY <2>1, <3>1 DEF Concatenates
      <4> QED
        BY <4>1, <4>2
    <3>2. CASE i \notin 1 .. m
      <4>1. i # 1 => i - 1 \in 1 .. m /\ g[i - 1] = f[i - 1]
        BY <3>2
      <4> QED
        BY <3>2, <4>1
    <3> QED
      BY <3>1, <3>2
  <2>3. Concatenates(g, ss, m + 1)
    BY <2>2 DEF Concatenates
  <2> QED
    BY <2>3
<1> HIDE DEF T
<1>3. n \in T
  BY <1>1, <1>2, Induction DEF T
<1> QED
  BY <1>3 DEF T

LEMMA FlattenIs ==
  ASSUME NEW ss, Len(ss) \in Nat \ {0}
  PROVE  \E f : Concatenates(f, ss, Len(ss)) /\ FlattenSeq(ss) = f[Len(ss)]
<1>1. FlattenSeq(ss) = (CHOOSE f : Concatenates(f, ss, Len(ss)))[Len(ss)]
  BY DEF FlattenSeq, Concatenates
<1> QED
  BY <1>1, ConcatenatesExists

\* Where the parts of a concatenation lie: at[i] is the length of the first i of them.
Lies(at, ss) ==
  /\ at \in [0 .. Len(ss) -> Nat]
  /\ at[0] = 0
  /\ \A i \in 1 .. Len(ss) : at[i] = at[i - 1] + Len(ss[i])

\* The first at[n] elements of s are those of the first n parts, in order.
Holds(s, at, ss, n) ==
  /\ \A i \in 1 .. n, j \in Nat :
       j \in 1 .. Len(ss[i]) => at[i - 1] + j \in 1 .. at[n] /\ s[at[i - 1] + j] = ss[i][j]
  /\ \A k \in 1 .. at[n] : \E i \in 1 .. n : k - at[i - 1] \in 1 .. Len(ss[i])

LEMMA ConcatIs ==
  ASSUME NEW S, NEW a \in Seq(S), NEW b \in Seq(S)
  PROVE  /\ a \o b \in Seq(S) /\ Len(a \o b) = Len(a) + Len(b)
         /\ \A k \in 1 .. Len(a \o b) :
              (a \o b)[k] = IF k <= Len(a) THEN a[k] ELSE b[k - Len(a)]
OBVIOUS

LEMMA FlattenLayout ==
  ASSUME NEW S, NEW ss \in Seq(Seq(S))
  PROVE  /\ FlattenSeq(ss) \in Seq(S)
         /\ \E at : /\ Lies(at, ss)
                    /\ Len(FlattenSeq(ss)) = at[Len(ss)]
                    /\ Holds(FlattenSeq(ss), at, ss, Len(ss))
<1> DEFINE n == Len(ss)
<1>0. n \in Nat /\ DOMAIN ss = 1 .. n
  OBVIOUS
<1>1. CASE n = 0
  <2>1. FlattenSeq(ss) = ss /\ ss = << >>
    BY <1>1 DEF FlattenSeq
  <2>2. Lies([i \in 0 .. Len(ss) |-> 0], ss)
    BY <2>1 DEF Lies
  <2>3. Holds(ss, [i \in 0 .. Len(ss) |-> 0], ss, Len(ss))
    BY <2>1 DEF Holds
  <2> QED
    BY <2>1, <2>2, <2>3
<1>2. CASE n # 0
  <2>1. PICK f : Concatenates(f, ss, n) /\ FlattenSeq(ss) = f[n]
    BY <1>0, <1>2, FlattenIs
  <2> HIDE DEF n
  <2> DEFINE at == [i \in 0 .. n |-> IF i = 0 THEN 0 ELSE Len(f[i])]
             Good(i) == /\ f[i] \in Seq(S)
                        /\ at[i] = at[i - 1] + Len(ss[i])
                        /\ Holds(f[i], at, ss, i)
             T == {m \in Nat : m \in 1 .. n => Good(m)}
  <2>2. \A i \in 1 .. n : f[i] = IF i = 1 THEN ss[i] ELSE f[i - 1] \o ss[i]
    BY <2>1 DEF Concatenates
  <2>2a. \A i \in 1 .. n : ss[i] \in Seq(S) /\ Len(ss[i]) \in Nat
    BY <1>0 
  <2>2b. \A i \in 1 .. n : at[i] = Len(f[i])
    OBVIOUS
  <2>2c. at[0] = 0
    BY <1>0
  <2> HIDE DEF at
  <2>3. 0 \in T
    OBVIOUS
  <2>4. ASSUME NEW m \in T PROVE m + 1 \in T
    <3> SUFFICES ASSUME m + 1 \in 1 .. n PROVE Good(m + 1)
      OBVIOUS
    <3>1. CASE m = 0
      <4>1. f[1] = ss[1] /\ f[1] \in Seq(S)
        BY <2>2, <2>2a, <3>1
      <4>2. at[1] = Len(ss[1]) /\ at[1] = at[0] + Len(ss[1])
        BY <2>2a, <2>2b, <2>2c, <4>1, <3>1
      <4>3. Holds(f[1], at, ss, 1)
        BY <4>1, <4>2, <2>2c, <2>2a, <3>1 DEF Holds
      <4> QED
        BY <3>1, <4>1, <4>2, <4>3
    <3>2. CASE m # 0
      <4>1. m \in 1 .. n /\ m \in Nat /\ (m + 1) - 1 = m /\ m + 1 # 1
        BY <3>2, <1>0
      <4>2. Good(m)
        BY <4>1
      <4>3. f[m + 1] = f[m] \o ss[m + 1]
        BY <2>2, <4>1
      <4>4. f[m] \in Seq(S) /\ ss[m + 1] \in Seq(S)
        BY <4>2, <2>2a
      <4>5. /\ f[m + 1] \in Seq(S) /\ Len(f[m + 1]) = Len(f[m]) + Len(ss[m + 1])
            /\ \A k \in 1 .. Len(f[m + 1]) :
                 f[m + 1][k] = IF k <= Len(f[m]) THEN f[m][k] ELSE ss[m + 1][k - Len(f[m])]
        <5> DEFINE a == f[m]
                   b == ss[m + 1]
        <5>1. a \in Seq(S) /\ b \in Seq(S) /\ f[m + 1] = a \o b
          BY <4>3, <4>4
        <5> HIDE DEF a, b
        <5>2. /\ a \o b \in Seq(S) /\ Len(a \o b) = Len(a) + Len(b)
              /\ \A k \in 1 .. Len(a \o b) :
                   (a \o b)[k] = IF k <= Len(a) THEN a[k] ELSE b[k - Len(a)]
          BY <5>1, ConcatIs
        <5> QED
          BY <5>1, <5>2 DEF a, b
      <4>6. at[m] = Len(f[m]) /\ at[m + 1] = Len(f[m + 1]) /\ at[m] \in Nat
        BY <2>2b, <4>1, <4>4
      <4>7. Len(ss[m + 1]) \in Nat
        BY <4>4
      <4>8. Holds(f[m], at, ss, m)
        BY <4>2
      <4>8a. at[m + 1] = at[m] + Len(ss[m + 1])
        BY <4>5, <4>6
      <4> DEFINE p == at[m]
                 q == Len(ss[m + 1])
                 r == at[m + 1]
      <4>8b. p \in Nat /\ q \in Nat /\ r = p + q /\ Len(f[m]) = p /\ Len(f[m + 1]) = r
        BY <4>6, <4>7, <4>8a
      <4> HIDE DEF p, q, r
      <4>9. ASSUME NEW i \in 1 .. m + 1, NEW j \in Nat, j \in 1 .. Len(ss[i])
            PROVE  at[i - 1] + j \in 1 .. at[m + 1] /\ f[m + 1][at[i - 1] + j] = ss[i][j]
        <5>1. CASE i \in 1 .. m
          <6>1. at[i - 1] + j \in 1 .. at[m] /\ f[m][at[i - 1] + j] = ss[i][j]
            BY <5>1, <4>9, <4>8 DEF Holds
          <6> DEFINE k == at[i - 1] + j
          <6>2. k \in 1 .. p
            BY <6>1 DEF p
          <6> HIDE DEF k
          <6>3. k \in 1 .. r /\ k <= p
            BY <6>2, <4>8b
          <6>4. f[m + 1][k] = f[m][k]
            BY <6>3, <4>5, <4>8b
          <6> QED
            BY <6>1, <6>3, <6>4 DEF k, r
        <5>2. CASE i = m + 1
          <6>1. i - 1 = m /\ at[i - 1] = at[m]
            BY <5>2, <4>1
          <6>2. j \in 1 .. q
            BY <5>2, <4>9 DEF q
          <6>2a. p + j \in 1 .. r /\ ~(p + j <= p) /\ (p + j) - p = j
            BY <6>2, <4>8b
          <6>3. f[m + 1][p + j] = ss[m + 1][j]
            BY <6>2a, <4>5, <4>8b
          <6> QED
            BY <5>2, <6>1, <6>2a, <6>3 DEF p, r
        <5> QED
          BY <5>1, <5>2, <4>1
      <4>10. ASSUME NEW k \in 1 .. at[m + 1]
             PROVE  \E i \in 1 .. m + 1 : k - at[i - 1] \in 1 .. Len(ss[i])
        <5>1. CASE k \in 1 .. at[m]
          <6>1. PICK i \in 1 .. m : k - at[i - 1] \in 1 .. Len(ss[i])
            BY <5>1, <4>8 DEF Holds
          <6> QED
            BY <6>1, <4>1
        <5>2. CASE k \notin 1 .. at[m]
          <6>0. k \in 1 .. r /\ k \notin 1 .. p
            BY <5>2 DEF p, r
          <6>0a. k - p \in 1 .. q
            BY <6>0, <4>8b
          <6>1. k - at[m] \in 1 .. Len(ss[m + 1])
            BY <6>0a DEF p, q
          <6>2. m + 1 \in 1 .. m + 1
            BY <4>1
          <6> QED
            BY <6>1, <6>2, <4>1
        <5> QED
          BY <5>1, <5>2
      <4>11. Holds(f[m + 1], at, ss, m + 1)
        BY <4>9, <4>10 DEF Holds
      <4> QED
        BY <4>1, <4>5, <4>8a, <4>11
    <3> QED
      BY <3>1, <3>2
  <2>5. \A m \in 1 .. n : Good(m)
    <3> HIDE DEF Good
    <3>1. T \subseteq Nat
      OBVIOUS
    <3> HIDE DEF T
    <3>2. \A m \in Nat : m \in T
      BY <2>3, <2>4, <3>1, Induction
    <3> QED
      BY <3>2 DEF T
  <2>6. n \in 1 .. n
    BY <1>0, <1>2 DEF n
  <2>7. f[n] \in Seq(S) /\ Holds(f[n], at, ss, n)
    BY <2>5, <2>6
  <2>8. at \in [0 .. n -> Nat]
    <3>1. \A i \in 0 .. n : at[i] \in Nat
      <4> SUFFICES ASSUME NEW i \in 0 .. n PROVE at[i] \in Nat
        OBVIOUS
      <4>1. CASE i = 0
        BY <4>1, <2>2c
      <4>2. CASE i \in 1 .. n
        <5>1. f[i] \in Seq(S) /\ at[i] = Len(f[i])
          BY <4>2, <2>5, <2>2b
        <5> QED
          BY <5>1
      <4> QED
        BY <1>0, <4>1, <4>2
    <3> QED
      BY <3>1 DEF at
  <2>9. Lies(at, ss)
    BY <2>5, <2>8, <2>2c DEF Lies, n
  <2>10. at[n] = Len(f[n])
    BY <2>2b, <2>6
  <2> QED
    BY <2>1, <2>7, <2>9, <2>10 DEF n
<1> QED
  BY <1>1, <1>2

\* Every place of s is a place of a part of ss, which lies behind at.
Arranges(s, at, ss) ==
  /\ \A i \in DOMAIN ss : \A j \in DOMAIN ss[i] :
       at[i] + j \in DOMAIN s /\ s[at[i] + j] = ss[i][j]
  /\ \A k \in DOMAIN s : \E i \in DOMAIN ss : \E j \in DOMAIN ss[i] : k = at[i] + j

LEMMA FlattenPlaces ==
  ASSUME NEW S, NEW ss \in Seq(Seq(S))
  PROVE  /\ FlattenSeq(ss) \in Seq(S)
         /\ \E at \in [1 .. Len(ss) -> Nat] : Arranges(FlattenSeq(ss), at, ss)
<1> DEFINE s == FlattenSeq(ss)
           n == Len(ss)
<1>1. s \in Seq(S) /\ n \in Nat /\ DOMAIN ss = 1 .. n
  BY FlattenLayout
<1>2. PICK to : Lies(to, ss) /\ Len(s) = to[n] /\ Holds(s, to, ss, n)
  BY FlattenLayout
<1>3. \A i \in 1 .. n : ss[i] \in Seq(S) /\ DOMAIN ss[i] = 1 .. Len(ss[i]) /\ Len(ss[i]) \in Nat
  BY <1>1
<1> HIDE DEF s, n
<1> DEFINE at == [i \in 1 .. n |-> to[i - 1]]
<1>4. to \in [0 .. n -> Nat]
  BY <1>2 DEF Lies, n
<1>5. \A i \in 1 .. n : at[i] = to[i - 1] /\ at[i] \in Nat
  BY <1>1, <1>4
<1>6. at \in [1 .. n -> Nat]
  BY <1>5
<1>7. DOMAIN s = 1 .. to[n]
  BY <1>1, <1>2
<1> HIDE DEF at
<1>8. ASSUME NEW i \in DOMAIN ss, NEW j \in DOMAIN ss[i]
      PROVE  at[i] + j \in DOMAIN s /\ s[at[i] + j] = ss[i][j]
  <2>1. i \in 1 .. n /\ j \in Nat /\ j \in 1 .. Len(ss[i])
    BY <1>1, <1>3, <1>8
  <2>2. to[i - 1] + j \in 1 .. to[n] /\ s[to[i - 1] + j] = ss[i][j]
    BY <1>2, <2>1 DEF Holds
  <2> QED
    BY <1>5, <1>7, <2>1, <2>2
<1>9. ASSUME NEW k \in DOMAIN s
      PROVE  \E i \in DOMAIN ss : \E j \in DOMAIN ss[i] : k = at[i] + j
  <2>1. PICK i \in 1 .. n : k - to[i - 1] \in 1 .. Len(ss[i])
    BY <1>2, <1>7, <1>9 DEF Holds
  <2>2. k - at[i] \in DOMAIN ss[i] /\ i \in DOMAIN ss
    BY <1>1, <1>3, <1>5, <2>1
  <2>3. k \in Nat /\ at[i] \in Nat
    BY <1>1, <1>5, <1>9, <2>1
  <2>4. k = at[i] + (k - at[i])
    BY <2>3
  <2> QED
    BY <2>2, <2>4
<1>10. Arranges(s, at, ss)
  BY <1>8, <1>9 DEF Arranges
<1> QED
  BY <1>1, <1>6, <1>10 DEF s, n

-----------------------------------------------------------------------------
(* Chunks of a sequence                                                      *)

\* Quotients.
LEMMA Quotient ==
  ASSUME NEW a \in Nat, NEW n \in Nat \ {0}
  PROVE  a \div n \in Nat /\ (a \div n) * n <= a /\ a < (a \div n) * n + n
OBVIOUS

LEMMA Larger ==
  ASSUME NEW a \in Nat, NEW b \in Nat, a <= b, NEW n \in Nat
  PROVE  a * n <= b * n /\ a * n \in Nat /\ b * n \in Nat
OBVIOUS

LEMMA NextMultiple ==
  ASSUME NEW k \in Nat \ {0}, NEW n \in Nat
  PROVE  k * n = (k - 1) * n + n /\ (k - 1) * n \in Nat /\ (k + 1) * n = k * n + n
OBVIOUS

\* The lesser of two numbers.
LEMMA Lesser ==
  ASSUME NEW a \in Nat, NEW b \in Nat
  PROVE  Min({a, b}) = IF a <= b THEN a ELSE b
<1> DEFINE m == IF a <= b THEN a ELSE b
<1>1. m \in {a, b} /\ \A y \in {a, b} : m <= y
  OBVIOUS
<1>2. \A x \in {a, b} : (\A y \in {a, b} : x <= y) => x = m
  OBVIOUS
<1> QED
  BY <1>1, <1>2 DEF Min

\* As many chunks as it takes, each but the last of n elements, one behind the other.
LEMMA ChunksCover ==
  ASSUME NEW S, NEW s \in Seq(S), Len(s) > 0, NEW n \in Nat \ {0}
  PROVE  LET c == Chunked(s, n) IN
         /\ c \in Seq(Seq(S)) /\ Len(c) \in 1 .. Len(s)
         /\ \A k \in DOMAIN c : \A j \in DOMAIN c[k] :
              /\ j \in 1 .. n /\ k \in Nat \ {0}
              /\ (k - 1) * n + j \in DOMAIN s /\ c[k][j] = s[(k - 1) * n + j]
         /\ \A x \in DOMAIN s : \E k \in DOMAIN c : \E j \in DOMAIN c[k] : c[k][j] = s[x]
<1> DEFINE L == Len(s)
           q == (L + n - 1) \div n
           c == Chunked(s, n)
           First(k) == (k - 1) * n + 1
           Final(k) == Min({k * n, L})
<1>1. L \in Nat /\ L > 0 /\ DOMAIN s = 1 .. L
  OBVIOUS
<1>2. c = [k \in 1 .. q |-> SubSeq(s, First(k), Final(k))]
  BY DEF Chunked
<1> HIDE DEF L, c
<1>3. q \in Nat /\ q * n <= L + n - 1 /\ L + n - 1 < q * n + n
  <2>1. L + n - 1 \in Nat
    BY <1>1
  <2> QED
    BY <2>1, Quotient
<1> HIDE DEF q
<1>4. q \in 1 .. L
  <2>1. q # 0
    <3> SUFFICES ASSUME q = 0 PROVE FALSE
      OBVIOUS
    <3>1. q * n = 0
      OBVIOUS
    <3> QED
      BY <1>1, <1>3, <3>1
  <2>2. ~(q > L)
    <3> SUFFICES ASSUME q > L PROVE FALSE
      OBVIOUS
    <3>1. (L + 1) * n <= q * n /\ 1 * L <= n * L
      BY <1>1, <1>3, Larger
    <3>2. (L + 1) * n = n * L + n
      BY <1>1
    <3>3. L + n <= q * n
      <4> DEFINE u == n * L
                 v == q * n
      <4>1. u \in Nat /\ v \in Nat /\ u + n <= v /\ L <= u
        BY <1>1, <1>3, <3>1, <3>2
      <4> HIDE DEF u, v
      <4>2. L + n <= v
        BY <1>1, <4>1
      <4> QED
        BY <4>2 DEF v
    <3> QED
      BY <1>1, <1>3, <3>3
  <2> QED
    BY <1>1, <1>3, <2>1, <2>2
<1>5. ASSUME NEW k \in 1 .. q
      PROVE  /\ (k - 1) * n \in Nat /\ k * n = (k - 1) * n + n
             /\ (k - 1) * n + 1 <= L
             /\ First(k) \in 1 .. L /\ Final(k) \in 1 .. L /\ First(k) <= Final(k)
             /\ Final(k) = IF k * n <= L THEN k * n ELSE L
  <2>1. k \in Nat \ {0} /\ k - 1 \in Nat /\ q - 1 \in Nat /\ k - 1 <= q - 1
    BY <1>1, <1>4
  <2>2. k * n = (k - 1) * n + n /\ (k - 1) * n \in Nat
    BY <2>1, NextMultiple
  <2>3. (k - 1) * n <= (q - 1) * n /\ q * n = (q - 1) * n + n /\ (q - 1) * n \in Nat
    BY <1>3, <1>4, <2>1, Larger, NextMultiple
  <2>4. (k - 1) * n + 1 <= L
    BY <1>1, <1>3, <2>2, <2>3
  <2>5. Final(k) = IF k * n <= L THEN k * n ELSE L
    BY <1>1, <2>2, Lesser
  <2> QED
    BY <1>1, <2>2, <2>4, <2>5
<1>6. ASSUME NEW k \in 1 .. q
      PROVE  /\ c[k] \in Seq(S) /\ Len(c[k]) = Final(k) - (k - 1) * n
             /\ \A j \in 1 .. Len(c[k]) : c[k][j] = s[(k - 1) * n + j]
  <2> DEFINE a == (k - 1) * n
             b == Final(k)
  <2>1. c[k] = SubSeq(s, a + 1, b)
    BY <1>2
  <2>2. a \in Nat /\ b \in 1 .. L /\ a + 1 <= b
    BY <1>1, <1>5
  <2> HIDE DEF a, b
  <2>3. /\ SubSeq(s, a + 1, b) \in Seq(S) /\ Len(SubSeq(s, a + 1, b)) = b - a
        /\ \A j \in 1 .. b - a : SubSeq(s, a + 1, b)[j] = s[a + j]
    BY <1>1, <2>2 DEF L
  <2> QED
    BY <2>1, <2>3 DEF a, b
<1>7. DOMAIN c = 1 .. q /\ c \in Seq(Seq(S)) /\ Len(c) = q
  <2>1. DOMAIN c = 1 .. q
    BY <1>2
  <2>2. c \in [1 .. q -> Seq(S)]
    BY <1>2, <1>6, <2>1
  <2> QED
    BY <1>3, <2>2
<1>8. ASSUME NEW k \in 1 .. q, NEW j \in DOMAIN c[k]
      PROVE  /\ j \in 1 .. n /\ k \in Nat \ {0}
             /\ (k - 1) * n + j \in DOMAIN s /\ c[k][j] = s[(k - 1) * n + j]
  <2> DEFINE a == (k - 1) * n
             b == Final(k)
  <2>1. /\ a \in Nat /\ b \in 1 .. L /\ b <= a + n /\ a + 1 <= b
    BY <1>1, <1>5
  <2>2. DOMAIN c[k] = 1 .. b - a
    <3>1. c[k] \in Seq(S) /\ Len(c[k]) = b - a
      BY <1>6
    <3> QED
      BY <3>1
  <2>3. \A i \in 1 .. b - a : c[k][i] = s[a + i]
    BY <1>6, <2>1
  <2> HIDE DEF a, b
  <2>4. j \in 1 .. b - a
    BY <1>8, <2>2
  <2>5. j \in 1 .. n /\ a + j \in 1 .. L /\ c[k][j] = s[a + j]
    BY <1>1, <2>1, <2>3, <2>4
  <2>6. k \in Nat \ {0}
    BY <1>4
  <2> QED
    BY <1>1, <2>5, <2>6 DEF a
<1>9. ASSUME NEW x \in 1 .. L
      PROVE  \E k \in 1 .. q : \E j \in DOMAIN c[k] : c[k][j] = s[x]
  <2> DEFINE p == (x - 1) \div n
             a == p * n
             k == p + 1
             b == Final(k)
             j == x - a
  <2>1. p \in Nat /\ a <= x - 1 /\ x - 1 < a + n /\ a \in Nat
    <3>1. x - 1 \in Nat
      BY <1>1
    <3> QED
      BY <3>1, Quotient
  <2> HIDE DEF p
  <2>2. k \in 1 .. q
    <3> SUFFICES ASSUME p >= q PROVE FALSE
      BY <1>3, <2>1
    <3>1. q * n <= a
      BY <1>3, <2>1, Larger
    <3>2. q * n \in Nat
      BY <1>3
    <3> QED
      BY <1>1, <1>3, <2>1, <3>1, <3>2
  <2>3. (k - 1) * n = a /\ k * n = a + n
    BY <2>1
  <2>4. b = IF a + n <= L THEN a + n ELSE L
    BY <1>5, <2>2, <2>3
  <2>5. DOMAIN c[k] = 1 .. b - a
    BY <1>6, <2>2, <2>3
  <2>6. j \in 1 .. b - a /\ a + j = x
    <3> HIDE DEF a, b
    <3> QED
      BY <1>1, <2>1, <2>4
  <2>7. c[k][j] = s[a + j]
    BY <1>8, <2>2, <2>3, <2>5, <2>6
  <2> QED
    BY <2>2, <2>5, <2>6, <2>7
<1> QED
  BY <1>1, <1>4, <1>7, <1>8, <1>9 DEF c, L

\* Where place i of the k-th chunk comes from.
Nth(n, k, i) == (k - 1) * n + i

\* Places in different chunks, and different places in one, are different places of s.
LEMMA ChunksApart ==
  ASSUME NEW n \in Nat \ {0}, NEW k \in Nat \ {0}, NEW l \in Nat \ {0},
         NEW i \in 1 .. n, NEW j \in 1 .. n, Nth(n, k, i) = Nth(n, l, j)
  PROVE  k = l /\ i = j
<1>1. ASSUME NEW a \in Nat \ {0}, NEW b \in Nat \ {0}, a < b, NEW x \in 1 .. n, NEW y \in 1 .. n
      PROVE  Nth(n, a, x) < Nth(n, b, y)
  <2>1. a <= b - 1 /\ b - 1 \in Nat
    BY <1>1
  <2>2. a * n <= (b - 1) * n /\ a * n = (a - 1) * n + n /\ (a - 1) * n \in Nat
        /\ (b - 1) * n \in Nat
    BY <2>1, Larger, NextMultiple
  <2> QED
    BY <2>2 DEF Nth
<1>2. ~(k < l) /\ ~(l < k)
  <2>1. (k - 1) * n \in Nat /\ (l - 1) * n \in Nat
    BY NextMultiple
  <2> QED
    BY <1>1, <2>1 DEF Nth
<1>3. k = l
  BY <1>2
<1>4. (k - 1) * n \in Nat
  BY NextMultiple
<1> QED
  BY <1>3, <1>4 DEF Nth

-----------------------------------------------------------------------------
(* Examples: what a task teaches                                             *)

\* The k chunks of n numbers lie between the bounds b.
Between(b, n, k, chunks) ==
  /\ b[0] = 0 /\ b[k] = n
  /\ \A i \in 1 .. k : b[i - 1] <= b[i] /\ chunks[i] = b[i - 1] + 1 .. b[i]

\* The facts of a task, in balanced chunks for at most four workers.
LEMMA ChunksBalanced ==
  ASSUME NEW n \in Nat, NEW k \in 1 .. 4
  PROVE  /\ DOMAIN BalancedChunks(n, k) = 1 .. k
         /\ \E b \in [0 .. 4 -> Nat] : Between(b, n, k, BalancedChunks(n, k))
<1> DEFINE q == n \div k
           r == n % k
           before(i) == i * q + Min({i, r})
           b == [i \in 0 .. 4 |-> before(i)]
<1>1. BalancedChunks(n, k) = [i \in 1 .. k |-> before(i - 1) + 1 .. before(i)]
  BY DEF BalancedChunks
<1>2. q \in Nat /\ r \in 0 .. k - 1 /\ n = k * q + r
  <2>1. /\ k = 1 => q = n /\ r = 0
        /\ k = 2 => q \in Nat /\ r \in 0 .. 1 /\ n = 2 * q + r
        /\ k = 3 => q \in Nat /\ r \in 0 .. 2 /\ n = 3 * q + r
        /\ k = 4 => q \in Nat /\ r \in 0 .. 3 /\ n = 4 * q + r
    OBVIOUS
  <2>2. k = 1 \/ k = 2 \/ k = 3 \/ k = 4
    OBVIOUS
  <2> HIDE DEF q, r
  <2> QED
    BY <2>1, <2>2
<1> HIDE DEF q, r
<1>3. \A i \in 0 .. 4 : before(i) = i * q + (IF i <= r THEN i ELSE r)
  BY <1>2, Lesser
<1> HIDE DEF before
<1>4. b \in [0 .. 4 -> Nat]
  <2>1. /\ before(0) \in Nat /\ before(1) \in Nat /\ before(2) \in Nat
        /\ before(3) \in Nat /\ before(4) \in Nat
    BY <1>2, <1>3
  <2>2. \A i \in 0 .. 4 : i = 0 \/ i = 1 \/ i = 2 \/ i = 3 \/ i = 4
    OBVIOUS
  <2>3. \A i \in 0 .. 4 : before(i) \in Nat
    BY <2>1, <2>2
  <2> QED
    BY <2>3
<1>5. before(0) = 0 /\ before(k) = n
  <2>1. before(0) = 0
    BY <1>2, <1>3
  <2>2. before(k) = k * q + r
    BY <1>2, <1>3
  <2> QED
    BY <1>2, <2>1, <2>2
<1>6. ASSUME NEW i \in 1 .. k PROVE before(i - 1) <= before(i)
  <2>1. i = 1 \/ i = 2 \/ i = 3 \/ i = 4
    OBVIOUS
  <2>2. /\ before(0) <= before(1) /\ before(1) <= before(2)
        /\ before(2) <= before(3) /\ before(3) <= before(4)
    BY <1>2, <1>3
  <2> QED
    BY <2>1, <2>2
<1>7. \A i \in 0 .. 4 : b[i] = before(i)
  OBVIOUS
<1> HIDE DEF b
<1>8. \A i \in 1 .. k : i \in 0 .. 4 /\ i - 1 \in 0 .. 4
  OBVIOUS
<1>9. \A i \in 1 .. k : /\ b[i - 1] <= b[i]
                        /\ BalancedChunks(n, k)[i] = b[i - 1] + 1 .. b[i]
  BY <1>1, <1>6, <1>7, <1>8
<1>10. b[0] = 0 /\ b[k] = n
  BY <1>5, <1>7
<1>11. DOMAIN BalancedChunks(n, k) = 1 .. k
  BY <1>1
<1> QED
  BY <1>4, <1>9, <1>10, <1>11 DEF Between

\* Each number up to the last bound lies between two neighbouring bounds, and no others.
LEMMA InOneChunk ==
  ASSUME NEW b \in [0 .. 4 -> Nat], NEW k \in 1 .. 4, b[0] = 0,
         \A i \in 1 .. k : b[i - 1] <= b[i], NEW x \in 1 .. b[k]
  PROVE  \E i \in 1 .. k : /\ x \in b[i - 1] + 1 .. b[i]
                           /\ \A j \in 1 .. k : x \in b[j - 1] + 1 .. b[j] => j = i
<1> DEFINE b1 == b[1]
           b2 == b[2]
           b3 == b[3]
           b4 == b[4]
<1>1. b1 \in Nat /\ b2 \in Nat /\ b3 \in Nat /\ b4 \in Nat
  OBVIOUS
<1>2. CASE k = 1
  BY <1>2
<1>3. CASE k = 2
  <2>1. b[0] <= b[1] /\ b[1] <= b[2]
    BY <1>3
  <2>2. CASE x <= b1
    <3> WITNESS 1 \in 1 .. k
    <3> QED
      BY <1>1, <1>3, <2>1, <2>2
  <2>3. CASE x > b1
    <3> WITNESS 2 \in 1 .. k
    <3> QED
      BY <1>1, <1>3, <2>1, <2>3
  <2> QED
    BY <1>1, <2>2, <2>3
<1>4. CASE k = 3
  <2>1. b[0] <= b[1] /\ b[1] <= b[2] /\ b[2] <= b[3]
    BY <1>4
  <2>2. CASE x <= b1
    <3> WITNESS 1 \in 1 .. k
    <3> QED
      BY <1>1, <1>4, <2>1, <2>2
  <2>3. CASE x > b1 /\ x <= b2
    <3> WITNESS 2 \in 1 .. k
    <3> QED
      BY <1>1, <1>4, <2>1, <2>3
  <2>4. CASE x > b2
    <3> WITNESS 3 \in 1 .. k
    <3> QED
      BY <1>1, <1>4, <2>1, <2>4
  <2> QED
    BY <1>1, <2>2, <2>3, <2>4
<1>5. CASE k = 4
  <2>1. b[0] <= b[1] /\ b[1] <= b[2] /\ b[2] <= b[3] /\ b[3] <= b[4]
    BY <1>5
  <2>2. CASE x <= b1
    <3> WITNESS 1 \in 1 .. k
    <3> QED
      BY <1>1, <1>5, <2>1, <2>2
  <2>3. CASE x > b1 /\ x <= b2
    <3> WITNESS 2 \in 1 .. k
    <3> QED
      BY <1>1, <1>5, <2>1, <2>3
  <2>4. CASE x > b2 /\ x <= b3
    <3> WITNESS 3 \in 1 .. k
    <3> QED
      BY <1>1, <1>5, <2>1, <2>4
  <2>5. CASE x > b3
    <3> WITNESS 4 \in 1 .. k
    <3> QED
      BY <1>1, <1>5, <2>1, <2>5
  <2> QED
    BY <1>1, <2>2, <2>3, <2>4, <2>5
<1> QED
  BY <1>2, <1>3, <1>4, <1>5

\* The examples of a task: the answer of Main, then the chunks.
LEMMA ExamplesAre ==
  ASSUME NEW t \in Tasks
  PROVE  \E k \in 1 .. 4 :
           /\ Blocks(t) = BalancedChunks(Facts[t], k)
           /\ DOMAIN Examples(t) = 1 .. k + 1
           /\ Examples(t)[1] = MainFinal(t)
           /\ \A i \in 1 .. k : Examples(t)[i + 1] = SubSummary(t, i)
<1> DEFINE n == Facts[t]
           k == Min({MaxWorkers, n})
<1>1. n \in Nat \ {0} /\ MaxWorkers \in 1 .. 4
  BY WarmStartAssumption DEF Tasks
<1>2. Blocks(t) = BalancedChunks(n, k)
  BY DEF Blocks
<1> HIDE DEF n
<1>3. k \in 1 .. 4
  <2>1. k = IF MaxWorkers <= n THEN MaxWorkers ELSE n
    BY <1>1, Lesser
  <2> QED
    BY <1>1, <2>1
<1> HIDE DEF k
<1>4. DOMAIN Blocks(t) = 1 .. k
  <2>1. DOMAIN BalancedChunks(n, k) = 1 .. k
    BY <1>1, <1>3, ChunksBalanced
  <2> QED
    BY <1>2, <2>1
<1> DEFINE a == <<MainFinal(t)>>
           b == [i \in DOMAIN Blocks(t) |-> SubSummary(t, i)]
           S == {MainFinal(t)} \cup {SubSummary(t, i) : i \in 1 .. k}
<1>5. Examples(t) = a \o b
  BY DEF Examples
<1>6. b = [i \in 1 .. k |-> SubSummary(t, i)]
  BY <1>4
<1>7. a \in Seq(S) /\ Len(a) = 1 /\ a[1] = MainFinal(t)
  OBVIOUS
<1>8. b \in [1 .. k -> S] /\ \A i \in 1 .. k : b[i] = SubSummary(t, i)
  BY <1>6
<1> HIDE DEF a, b, S
<1>9. b \in Seq(S) /\ Len(b) = k
  BY <1>3, <1>8
<1>10. /\ a \o b \in Seq(S) /\ Len(a \o b) = 1 + k
       /\ \A i \in 1 .. Len(a \o b) :
            (a \o b)[i] = IF i <= 1 THEN a[i] ELSE b[i - 1]
  <2>1. /\ a \o b \in Seq(S) /\ Len(a \o b) = Len(a) + Len(b)
        /\ \A i \in 1 .. Len(a \o b) :
             (a \o b)[i] = IF i <= Len(a) THEN a[i] ELSE b[i - Len(a)]
    BY <1>7, <1>9, ConcatIs
  <2> QED
    BY <1>7, <1>9, <2>1
<1>11. DOMAIN (a \o b) = 1 .. k + 1
  BY <1>3, <1>10
<1>12. ASSUME NEW i \in 1 .. k PROVE (a \o b)[i + 1] = b[i]
  <2>1. i + 1 \in 1 .. Len(a \o b) /\ ~(i + 1 <= 1) /\ (i + 1) - 1 = i
    BY <1>3, <1>10
  <2> QED
    BY <1>10, <2>1
<1>13. (a \o b)[1] = a[1]
  BY <1>3, <1>10
<1> QED
  BY <1>2, <1>3, <1>5, <1>7, <1>8, <1>11, <1>12, <1>13 DEF n

\* Main is taught every fact once, and so is a Sub.
LEMMA EveryFactOnce ==
  ASSUME NEW t \in Tasks
  PROVE  TaughtWhole(t)
<1> SUFFICES ASSUME NEW role \in {"main_final", "sub_summary"}, NEW fact \in 1 .. Facts[t]
             PROVE  Cardinality({p \in DOMAIN Examples(t) :
                      Examples(t)[p].behavior = role /\ fact \in Examples(t)[p].facts}) = 1
  BY DEF TaughtWhole
<1> DEFINE Taught == {p \in DOMAIN Examples(t) :
                        Examples(t)[p].behavior = role /\ fact \in Examples(t)[p].facts}
<1>1. PICK k \in 1 .. 4 :
        /\ Blocks(t) = BalancedChunks(Facts[t], k)
        /\ DOMAIN Examples(t) = 1 .. k + 1
        /\ Examples(t)[1] = MainFinal(t)
        /\ \A i \in 1 .. k : Examples(t)[i + 1] = SubSummary(t, i)
  BY ExamplesAre
<1>2. Facts[t] \in Nat
  BY WarmStartAssumption DEF Tasks
<1>3. PICK b \in [0 .. 4 -> Nat] :
        /\ b[0] = 0 /\ b[k] = Facts[t]
        /\ \A i \in 1 .. k : b[i - 1] <= b[i] /\ Blocks(t)[i] = b[i - 1] + 1 .. b[i]
  <2> DEFINE n == Facts[t]
  <2>1. n \in Nat
    BY <1>2
  <2>2. Blocks(t) = BalancedChunks(n, k)
    BY <1>1
  <2> HIDE DEF n
  <2>3. \E b \in [0 .. 4 -> Nat] : Between(b, n, k, BalancedChunks(n, k))
    BY <2>1, ChunksBalanced
  <2> QED
    BY <2>2, <2>3 DEF n, Between
<1>4. /\ Examples(t)[1].behavior = "main_final" /\ Examples(t)[1].facts = 1 .. Facts[t]
      /\ \A i \in 1 .. k : /\ Examples(t)[i + 1].behavior = "sub_summary"
                           /\ Examples(t)[i + 1].facts = Blocks(t)[i]
  <2>1. MainFinal(t).behavior = "main_final" /\ MainFinal(t).facts = 1 .. Facts[t]
    BY DEF MainFinal
  <2>2. \A i \in 1 .. k : /\ SubSummary(t, i).behavior = "sub_summary"
                         /\ SubSummary(t, i).facts = Blocks(t)[i]
    BY DEF SubSummary
  <2> QED
    BY <1>1, <2>1, <2>2
<1>5. \A p \in DOMAIN Examples(t) : p = 1 \/ (p - 1 \in 1 .. k /\ p = (p - 1) + 1)
  BY <1>1
<1>6. CASE role = "main_final"
  <2>1. 1 \in Taught
    <3>1. 1 \in DOMAIN Examples(t)
      BY <1>1
    <3> QED
      BY <1>4, <1>6, <3>1
  <2>2. \A p \in Taught : p = 1
    BY <1>4, <1>5, <1>6
  <2>3. Taught = {1}
    BY <2>1, <2>2
  <2> QED
    BY <2>3, FS_Singleton
<1>7. CASE role = "sub_summary"
  <2>1. PICK i \in 1 .. k : /\ fact \in b[i - 1] + 1 .. b[i]
                            /\ \A j \in 1 .. k : fact \in b[j - 1] + 1 .. b[j] => j = i
    <3>1. fact \in 1 .. b[k]
      BY <1>3
    <3> QED
      BY <1>3, <3>1, InOneChunk
  <2>2. i + 1 \in Taught
    BY <1>1, <1>3, <1>4, <1>7, <2>1
  <2>3. \A p \in Taught : p = i + 1
    <3> SUFFICES ASSUME NEW p \in Taught PROVE p = i + 1
      OBVIOUS
    <3>1. p # 1
      BY <1>4, <1>7
    <3>2. p - 1 \in 1 .. k /\ p = (p - 1) + 1
      BY <1>5, <3>1
    <3>3. fact \in Blocks(t)[p - 1]
      BY <1>4, <3>2
    <3>4. p - 1 = i
      BY <1>3, <2>1, <3>2, <3>3
    <3> QED
      BY <3>2, <3>4
  <2>4. Taught = {i + 1}
    BY <2>2, <2>3
  <2> QED
    BY <2>4, FS_Singleton
<1> QED
  BY <1>6, <1>7

-----------------------------------------------------------------------------
(* Selection and schedule                                                    *)

\* What is selected are tasks, some of them, as many as that were asked for.
LEMMA SelectedAre ==
  ASSUME NEW r \in Requests, Accepted(r)
  PROVE  /\ Selected(r) \subseteq Tasks /\ IsFiniteSet(Selected(r))
         /\ Cardinality(Selected(r)) = IF r.tasks = <<>> THEN r.limit ELSE Len(r.tasks)
         /\ Cardinality(Selected(r)) \in 1 .. Len(Facts)
         /\ Isolated(r) => Selected(r) \cap HeldOut = {}
<1> DEFINE S == Selected(r)
<1>1. Facts \in Seq(Nat \ {0}) /\ Requests \subseteq Arguments
  BY WarmStartAssumption
<1>2. r.tasks \in Seq(Tasks) /\ r.limit \in Nat \ {0}
  BY <1>1 DEF Arguments
<1>3. Len(Facts) \in Nat /\ Tasks = 1 .. Len(Facts)
  BY <1>1 DEF Tasks
<1>4. IsFiniteSet(Tasks) /\ Cardinality(Tasks) = Len(Facts)
  <2>1. IsFiniteSet(1 .. Len(Facts))
    BY <1>3, FS_Interval
  <2>2. Cardinality(1 .. Len(Facts)) = IF 1 > Len(Facts) THEN 0 ELSE Len(Facts) - 1 + 1
    BY <1>3, FS_Interval
  <2> QED
    BY <1>3, <2>1, <2>2
<1>5. S \subseteq Tasks
  <2>1. CASE r.tasks = <<>>
    BY <2>1 DEF Selected, Usable
  <2>2. CASE r.tasks # <<>>
    BY <1>2, <2>2 DEF Selected, ToSet
  <2> QED
    BY <2>1, <2>2
<1>6. IsFiniteSet(S) /\ Cardinality(S) <= Len(Facts) /\ Cardinality(S) \in Nat
  <2>1. IsFiniteSet(S) /\ Cardinality(S) <= Cardinality(Tasks)
    BY <1>4, <1>5, FS_Subset
  <2> QED
    BY <1>4, <2>1, FS_CardinalityType
<1>7. Cardinality(S) = (IF r.tasks = <<>> THEN r.limit ELSE Len(r.tasks)) /\ Cardinality(S) # 0
  <2>1. CASE r.tasks = <<>>
    BY <1>2, <2>1 DEF Accepted
  <2>2. CASE r.tasks # <<>>
    <3> DEFINE q == r.tasks
               n == Len(q)
    <3>1. n \in Nat \ {0} /\ q \in [1 .. n -> Tasks]
      BY <1>2, <2>2
    <3>2. S = ToSet(q) /\ IsInjective(q)
      BY <2>2 DEF Selected, Accepted
    <3> HIDE DEF q, n, S
    <3>3. S = {q[i] : i \in 1 .. n}
      BY <3>1, <3>2 DEF ToSet
    <3>4. q \in [1 .. n -> S]
      BY <3>1, <3>3
    <3>5. q \in Bijection(1 .. n, S)
      BY <3>1, <3>2, <3>3, <3>4 DEF Bijection, Injection, Surjection, IsInjective
    <3>6. ExistsBijection(1 .. n, S)
      BY <3>5 DEF ExistsBijection
    <3>7. IsFiniteSet(1 .. n)
      BY <3>1, FS_Interval
    <3>8. Cardinality(1 .. n) = IF 1 > n THEN 0 ELSE n - 1 + 1
      BY <3>1, FS_Interval
    <3>9. Cardinality(S) = Cardinality(1 .. n)
      BY <3>6, <3>7, FS_Bijection
    <3>10. Cardinality(S) = n
      BY <3>1, <3>8, <3>9
    <3> QED
      BY <2>2, <3>1, <3>10 DEF q, n
  <2> QED
    BY <2>1, <2>2
<1>8. Isolated(r) => S \cap HeldOut = {}
  <2>1. CASE r.tasks = <<>>
    BY <2>1 DEF Selected, Usable, Withheld
  <2>2. CASE r.tasks # <<>>
    BY <2>2 DEF Selected, Accepted
  <2> QED
    BY <2>1, <2>2
<1>9. Cardinality(S) \in 1 .. Len(Facts)
  BY <1>3, <1>6, <1>7
<1> HIDE DEF S
<1> QED
  BY <1>5, <1>6, <1>7, <1>8, <1>9 DEF S

\* An order of a set has each of its elements in one place.
LEMMA OrderOf ==
  ASSUME NEW S, IsFiniteSet(S), Cardinality(S) \in Nat \ {0}, NEW o \in SetToSeqs(S)
  PROVE  /\ o \in Seq(S) /\ Len(o) = Cardinality(S)
         /\ \A i, j \in DOMAIN o : o[i] = o[j] => i = j
         /\ \A x \in S : \E i \in DOMAIN o : o[i] = x
<1> DEFINE n == Cardinality(S)
<1>1. /\ n \in Nat \ {0} /\ o \in [1 .. n -> S]
      /\ \A i, j \in 1 .. n : i # j => o[i] # o[j]
  BY DEF SetToSeqs
<1>2. Cardinality(S) = n
  OBVIOUS
<1> HIDE DEF n
<1>3. o \in Injection(1 .. n, S)
  BY <1>1 DEF Injection, IsInjective
<1>4. Cardinality(1 .. n) = n
  <2>1. Cardinality(1 .. n) = IF 1 > n THEN 0 ELSE n - 1 + 1
    BY <1>1, FS_Interval
  <2> QED
    BY <1>1, <2>1
<1>5. o \in Surjection(1 .. n, S)
  BY <1>2, <1>3, <1>4, FS_Injection
<1>6. \A x \in S : \E i \in 1 .. n : o[i] = x
  BY <1>5 DEF Surjection
<1>7. o \in Seq(S) /\ Len(o) = n
  BY <1>1
<1> QED
  BY <1>1, <1>2, <1>6, <1>7

StepRecords == [id : Nat \X Nat, tasks : Seq(Tasks)]

PerStep(r, o) == IF r.perStep = 0 THEN Len(o) ELSE r.perStep

ChunksOf(r, o) == Chunked(o, PerStep(r, o))

\* Schedule s has one step for each chunk of each epoch, and no others.
Follows(s, r, orders) ==
  /\ s \in Seq(StepRecords)
  /\ \A k \in DOMAIN s : \E e \in 1 .. r.epochs : \E c \in DOMAIN ChunksOf(r, orders[e]) :
       s[k].id = <<e, c>> /\ s[k].tasks = ChunksOf(r, orders[e])[c]
  /\ \A j, k \in DOMAIN s : s[j].id = s[k].id => j = k
  /\ \A e \in 1 .. r.epochs : \A c \in DOMAIN ChunksOf(r, orders[e]) :
       \E k \in DOMAIN s : s[k].id = <<e, c>>

\* The order of an epoch and its chunks.
LEMMA OrderChunked ==
  ASSUME NEW r \in Requests, Accepted(r), NEW o \in SetToSeqs(Selected(r))
  PROVE  /\ o \in Seq(Tasks) /\ Len(o) \in 1 .. Len(Facts) /\ PerStep(r, o) \in Nat \ {0}
         /\ \A i, j \in DOMAIN o : o[i] = o[j] => i = j
         /\ \A i \in DOMAIN o : o[i] \in Selected(r)
         /\ \A x \in Selected(r) : \E i \in DOMAIN o : o[i] = x
         /\ ChunksOf(r, o) \in Seq(Seq(Tasks)) /\ Len(ChunksOf(r, o)) \in 1 .. Len(Facts)
<1> DEFINE S == Selected(r)
<1>1. S \subseteq Tasks /\ IsFiniteSet(S) /\ Cardinality(S) \in 1 .. Len(Facts)
  BY SelectedAre
<1>2. Len(Facts) \in Nat /\ r.perStep \in Nat
  BY WarmStartAssumption DEF Arguments
<1> HIDE DEF S
<1>3. Cardinality(S) \in Nat \ {0} /\ o \in SetToSeqs(S)
  BY <1>1, <1>2 DEF S
<1>4. /\ o \in Seq(S) /\ Len(o) = Cardinality(S)
      /\ \A i, j \in DOMAIN o : o[i] = o[j] => i = j
      /\ \A x \in S : \E i \in DOMAIN o : o[i] = x
  BY <1>1, <1>3, OrderOf
<1>5. o \in Seq(Tasks) /\ \A i \in DOMAIN o : o[i] \in S
  BY <1>1, <1>4
<1>6. Len(o) \in 1 .. Len(Facts) /\ PerStep(r, o) \in Nat \ {0} /\ Len(o) > 0
  BY <1>1, <1>2, <1>3, <1>4 DEF PerStep
<1>7. ChunksOf(r, o) \in Seq(Seq(Tasks)) /\ Len(ChunksOf(r, o)) \in 1 .. Len(o)
  BY <1>5, <1>6, ChunksCover DEF ChunksOf
<1>8. Len(ChunksOf(r, o)) \in 1 .. Len(Facts)
  BY <1>2, <1>6, <1>7
<1> QED
  BY <1>4, <1>5, <1>6, <1>7, <1>8 DEF S

\* Every schedule is one of those.
LEMMA ScheduleFollows ==
  ASSUME NEW r \in Requests, Accepted(r), NEW s \in Schedules(r)
  PROVE  \E orders \in [1 .. r.epochs -> SetToSeqs(Selected(r))] : Follows(s, r, orders)
<1>1. PICK orders \in [1 .. r.epochs -> SetToSeqs(Selected(r))] :
        s = FlattenSeq([e \in 1 .. r.epochs |-> EpochSteps(r, e, orders[e])])
  BY DEF Schedules
<1>2. r.epochs \in Nat \ {0}
  BY WarmStartAssumption DEF Arguments
<1> DEFINE n == r.epochs
           cs(e) == ChunksOf(r, orders[e])
           ep == [e \in 1 .. n |-> EpochSteps(r, e, orders[e])]
<1>3. ASSUME NEW e \in 1 .. n
      PROVE  /\ cs(e) \in Seq(Seq(Tasks)) /\ DOMAIN ep[e] = DOMAIN cs(e)
             /\ ep[e] \in Seq(StepRecords)
             /\ \A c \in DOMAIN cs(e) : ep[e][c] = [id |-> <<e, c>>, tasks |-> cs(e)[c]]
  <2>1. orders[e] \in SetToSeqs(Selected(r))
    BY <1>1
  <2>2. cs(e) \in Seq(Seq(Tasks))
    BY <2>1, OrderChunked
  <2>3. ep[e] = [c \in DOMAIN cs(e) |-> [id |-> <<e, c>>, tasks |-> cs(e)[c]]]
    BY DEF EpochSteps, ChunksOf, PerStep
  <2> DEFINE q == cs(e)
  <2> HIDE DEF cs, ep, q
  <2>4. q \in Seq(Seq(Tasks)) /\ ep[e] = [c \in DOMAIN q |-> [id |-> <<e, c>>, tasks |-> q[c]]]
    BY <2>2, <2>3 DEF q
  <2>5. Len(q) \in Nat /\ DOMAIN q = 1 .. Len(q)
    BY <2>4
  <2>6. ASSUME NEW c \in DOMAIN q PROVE [id |-> <<e, c>>, tasks |-> q[c]] \in StepRecords
    <3>1. e \in Nat /\ c \in Nat /\ q[c] \in Seq(Tasks)
      BY <1>2, <2>4, <2>5
    <3> QED
      BY <3>1 DEF StepRecords
  <2>7. ep[e] \in [1 .. Len(q) -> StepRecords]
    BY <2>4, <2>5, <2>6
  <2>8. ep[e] \in Seq(StepRecords)
    BY <2>5, <2>7
  <2>9. DOMAIN ep[e] = DOMAIN q /\ \A c \in DOMAIN q : ep[e][c] = [id |-> <<e, c>>, tasks |-> q[c]]
    BY <2>4
  <2> QED
    BY <2>2, <2>8, <2>9 DEF q
<1>4. ep \in Seq(Seq(StepRecords)) /\ DOMAIN ep = 1 .. n
  <2>1. ep \in [1 .. n -> Seq(StepRecords)]
    BY <1>3
  <2>2. DOMAIN ep = 1 .. n
    OBVIOUS
  <2> HIDE DEF ep, n
  <2>3. n \in Nat
    BY <1>2 DEF n
  <2> QED
    BY <2>1, <2>2, <2>3
<1>5. s = FlattenSeq(ep)
  BY <1>1
<1> HIDE DEF ep, n, cs
<1>6. s \in Seq(StepRecords)
  BY <1>4, <1>5, FlattenPlaces
<1>7. PICK at \in [1 .. Len(ep) -> Nat] :
        /\ \A e \in DOMAIN ep : \A c \in DOMAIN ep[e] :
             at[e] + c \in DOMAIN s /\ s[at[e] + c] = ep[e][c]
        /\ \A k \in DOMAIN s : \E e \in DOMAIN ep : \E c \in DOMAIN ep[e] : k = at[e] + c
  <2>1. PICK at \in [1 .. Len(ep) -> Nat] : Arranges(s, at, ep)
    BY <1>4, <1>5, FlattenPlaces
  <2> QED
    BY <2>1 DEF Arranges
<1>8. ASSUME NEW k \in DOMAIN s
      PROVE  \E e \in 1 .. n : \E c \in DOMAIN cs(e) :
               k = at[e] + c /\ s[k].id = <<e, c>> /\ s[k].tasks = cs(e)[c]
  <2>1. PICK e \in 1 .. n : \E c \in DOMAIN ep[e] : k = at[e] + c
    BY <1>4, <1>7
  <2>2. PICK c \in DOMAIN ep[e] : k = at[e] + c
    BY <2>1
  <2>3. s[k] = ep[e][c]
    BY <1>4, <1>7, <2>1, <2>2
  <2>4. c \in DOMAIN cs(e) /\ ep[e][c] = [id |-> <<e, c>>, tasks |-> cs(e)[c]]
    BY <1>3, <2>2
  <2>5. s[k].id = <<e, c>> /\ s[k].tasks = cs(e)[c]
    BY <2>3, <2>4
  <2> QED
    BY <2>2, <2>4, <2>5
<1>9. ASSUME NEW j \in DOMAIN s, NEW k \in DOMAIN s, s[j].id = s[k].id PROVE j = k
  <2>1. \E e, c : j = at[e] + c /\ s[j].id = <<e, c>>
    BY <1>8
  <2>1a. PICK e, c : j = at[e] + c /\ s[j].id = <<e, c>>
    BY <2>1
  <2>2. \E f, d : k = at[f] + d /\ s[k].id = <<f, d>>
    BY <1>8
  <2>2a. PICK f, d : k = at[f] + d /\ s[k].id = <<f, d>>
    BY <2>2
  <2>3. e = f /\ c = d
    BY <1>9, <2>1a, <2>2a
  <2> QED
    BY <2>1a, <2>2a, <2>3
<1>10. ASSUME NEW e \in 1 .. n, NEW c \in DOMAIN cs(e)
       PROVE  \E k \in DOMAIN s : s[k].id = <<e, c>>
  <2>1. c \in DOMAIN ep[e] /\ e \in DOMAIN ep /\ ep[e][c].id = <<e, c>>
    <3>1. DOMAIN ep[e] = DOMAIN cs(e)
      BY <1>3
    <3>2. ep[e][c] = [id |-> <<e, c>>, tasks |-> cs(e)[c]]
      BY <1>3
    <3> QED
      BY <1>4, <3>1, <3>2
  <2>2. at[e] + c \in DOMAIN s /\ s[at[e] + c] = ep[e][c]
    BY <1>7, <2>1
  <2> QED
    BY <2>1, <2>2
<1>11. Follows(s, r, orders)
  BY <1>6, <1>8, <1>9, <1>10 DEF Follows, n, cs
<1> QED
  BY <1>1, <1>11

\* What an epoch teaches: the tasks of its steps, wherever they stand in the schedule.
OfEpoch(s, e) == [k \in DOMAIN s |-> IF s[k].id[1] = e THEN s[k].tasks ELSE <<>>]

\* In every epoch each selected task has its turn once, and no other task has one.
LEMMA EpochWhole ==
  ASSUME NEW r \in Requests, Accepted(r),
         NEW orders \in [1 .. r.epochs -> SetToSeqs(Selected(r))],
         NEW s, Follows(s, r, orders), NEW e \in 1 .. r.epochs
  PROVE  LET l == FlattenSeq(OfEpoch(s, e)) IN IsInjective(l) /\ ToSet(l) = Selected(r)
<1> DEFINE S == Selected(r)
           o == orders[e]
           n == PerStep(r, o)
           cs == ChunksOf(r, o)
           g == OfEpoch(s, e)
           l == FlattenSeq(g)
<1>1. o \in SetToSeqs(S)
  OBVIOUS
<1>2. /\ o \in Seq(Tasks) /\ Len(o) > 0 /\ n \in Nat \ {0}
      /\ \A i, j \in DOMAIN o : o[i] = o[j] => i = j
      /\ \A i \in DOMAIN o : o[i] \in S
      /\ \A x \in S : \E i \in DOMAIN o : o[i] = x
  BY <1>1, OrderChunked
<1>3. /\ \A c \in DOMAIN cs : \A j \in DOMAIN cs[c] :
           /\ j \in 1 .. n /\ c \in Nat \ {0}
           /\ (c - 1) * n + j \in DOMAIN o /\ cs[c][j] = o[(c - 1) * n + j]
      /\ \A x \in DOMAIN o : \E c \in DOMAIN cs : \E j \in DOMAIN cs[c] : cs[c][j] = o[x]
  <2>1. cs = Chunked(o, n)
    BY DEF ChunksOf
  <2> HIDE DEF o, n, cs
  <2> QED
    BY <1>2, <2>1, ChunksCover
<1>4. /\ s \in Seq(StepRecords)
      /\ \A k \in DOMAIN s : s[k].id[1] = e =>
           \E c \in DOMAIN cs : s[k].id = <<e, c>> /\ s[k].tasks = cs[c]
      /\ \A j, k \in DOMAIN s : s[j].id = s[k].id => j = k
      /\ \A c \in DOMAIN cs : \E k \in DOMAIN s : s[k].id = <<e, c>>
  <2>1. /\ s \in Seq(StepRecords)
        /\ \A j, k \in DOMAIN s : s[j].id = s[k].id => j = k
        /\ \A c \in DOMAIN cs : \E k \in DOMAIN s : s[k].id = <<e, c>>
    BY DEF Follows
  <2>2. ASSUME NEW k \in DOMAIN s, s[k].id[1] = e
        PROVE  \E c \in DOMAIN cs : s[k].id = <<e, c>> /\ s[k].tasks = cs[c]
    <3>1. PICK f \in 1 .. r.epochs : \E c \in DOMAIN ChunksOf(r, orders[f]) :
            s[k].id = <<f, c>> /\ s[k].tasks = ChunksOf(r, orders[f])[c]
      BY DEF Follows
    <3>2. f = e
      BY <2>2, <3>1
    <3> QED
      BY <3>1, <3>2
  <2> QED
    BY <2>1, <2>2
<1>5. g \in Seq(Seq(Tasks)) /\ DOMAIN g = DOMAIN s
  <2>1. ASSUME NEW k \in DOMAIN s
        PROVE  (IF s[k].id[1] = e THEN s[k].tasks ELSE <<>>) \in Seq(Tasks)
    <3>1. s[k] \in StepRecords
      BY <1>4
    <3>2. s[k].tasks \in Seq(Tasks)
      BY <3>1 DEF StepRecords
    <3> QED
      BY <3>2
  <2>2. DOMAIN s = 1 .. Len(s) /\ Len(s) \in Nat
    BY <1>4
  <2>3. g \in [1 .. Len(s) -> Seq(Tasks)]
    BY <2>1, <2>2 DEF OfEpoch
  <2> HIDE DEF g
  <2> QED
    BY <2>2, <2>3
<1>6. \A k \in DOMAIN s : g[k] = IF s[k].id[1] = e THEN s[k].tasks ELSE <<>>
  BY DEF OfEpoch
<1> HIDE DEF g, cs, n, o, S
<1>7. l \in Seq(Tasks)
  BY <1>5, FlattenPlaces
<1>8. PICK at \in [1 .. Len(g) -> Nat] : Arranges(l, at, g)
  BY <1>5, FlattenPlaces
<1> HIDE DEF l
<1>9. ASSUME NEW p \in DOMAIN l
      PROVE  \E k \in DOMAIN s : \E c \in DOMAIN cs : \E j \in DOMAIN cs[c] :
               p = at[k] + j /\ s[k].id = <<e, c>> /\ l[p] = cs[c][j]
  <2>1. PICK k \in DOMAIN g : \E j \in DOMAIN g[k] : p = at[k] + j
    BY <1>8 DEF Arranges
  <2>2. PICK j \in DOMAIN g[k] : p = at[k] + j
    BY <2>1
  <2>3. l[p] = g[k][j]
    BY <1>8, <2>2 DEF Arranges
  <2>4. s[k].id[1] = e /\ g[k] = s[k].tasks
    BY <1>5, <1>6, <2>1, <2>2
  <2>5. PICK c \in DOMAIN cs : s[k].id = <<e, c>> /\ s[k].tasks = cs[c]
    BY <1>4, <1>5, <2>4
  <2> QED
    BY <1>5, <2>2, <2>3, <2>4, <2>5
<1>10. ASSUME NEW p \in DOMAIN l, NEW q \in DOMAIN l, l[p] = l[q] PROVE p = q
  <2>1. PICK k \in DOMAIN s : \E c \in DOMAIN cs : \E j \in DOMAIN cs[c] :
          p = at[k] + j /\ s[k].id = <<e, c>> /\ l[p] = cs[c][j]
    BY <1>9
  <2>2. PICK c \in DOMAIN cs : \E j \in DOMAIN cs[c] :
          p = at[k] + j /\ s[k].id = <<e, c>> /\ l[p] = cs[c][j]
    BY <2>1
  <2>3. PICK j \in DOMAIN cs[c] : p = at[k] + j /\ s[k].id = <<e, c>> /\ l[p] = cs[c][j]
    BY <2>2
  <2>4. PICK m \in DOMAIN s : \E d \in DOMAIN cs : \E i \in DOMAIN cs[d] :
          q = at[m] + i /\ s[m].id = <<e, d>> /\ l[q] = cs[d][i]
    BY <1>9
  <2>5. PICK d \in DOMAIN cs : \E i \in DOMAIN cs[d] :
          q = at[m] + i /\ s[m].id = <<e, d>> /\ l[q] = cs[d][i]
    BY <2>4
  <2>6. PICK i \in DOMAIN cs[d] : q = at[m] + i /\ s[m].id = <<e, d>> /\ l[q] = cs[d][i]
    BY <2>5
  <2>7. /\ j \in 1 .. n /\ c \in Nat \ {0} /\ i \in 1 .. n /\ d \in Nat \ {0}
        /\ (c - 1) * n + j \in DOMAIN o /\ cs[c][j] = o[(c - 1) * n + j]
        /\ (d - 1) * n + i \in DOMAIN o /\ cs[d][i] = o[(d - 1) * n + i]
    BY <1>3
  <2>8. Nth(n, c, j) = Nth(n, d, i)
    BY <1>2, <1>10, <2>3, <2>6, <2>7 DEF Nth
  <2>9. c = d /\ j = i
    <3>1. n \in Nat \ {0} /\ c \in Nat \ {0} /\ d \in Nat \ {0} /\ j \in 1 .. n /\ i \in 1 .. n
      BY <1>2, <2>7
    <3> QED
      BY <2>8, <3>1, ChunksApart
  <2>10. k = m
    BY <1>4, <2>3, <2>6, <2>9
  <2> QED
    BY <2>3, <2>6, <2>9, <2>10
<1>11. ASSUME NEW p \in DOMAIN l PROVE l[p] \in S
  <2>1. \E c \in DOMAIN cs : \E j \in DOMAIN cs[c] : l[p] = cs[c][j]
    BY <1>9
  <2> QED
    BY <1>2, <1>3, <2>1
<1>12. ASSUME NEW x \in S PROVE \E p \in DOMAIN l : l[p] = x
  <2>1. PICK c \in DOMAIN cs : \E j \in DOMAIN cs[c] : cs[c][j] = x
    BY <1>2, <1>3
  <2>2. PICK j \in DOMAIN cs[c] : cs[c][j] = x
    BY <2>1
  <2>3. PICK k \in DOMAIN s : s[k].id = <<e, c>>
    BY <1>4
  <2>4. s[k].id[1] = e
    BY <2>3
  <2>5. s[k].tasks = cs[c]
    BY <1>4, <2>3, <2>4
  <2>6. g[k] = cs[c] /\ k \in DOMAIN g
    BY <1>5, <1>6, <2>4, <2>5
  <2>7. at[k] + j \in DOMAIN l /\ l[at[k] + j] = g[k][j]
    BY <1>8, <2>2, <2>6 DEF Arranges
  <2> QED
    BY <2>2, <2>6, <2>7
<1>13. IsInjective(l)
  BY <1>10 DEF IsInjective
<1>14. ToSet(l) = S
  BY <1>11, <1>12 DEF ToSet
<1> QED
  BY <1>13, <1>14 DEF l, g, S

-----------------------------------------------------------------------------
(* The warm start keeps to its schedule                                      *)

\* The first n steps.
First(s, n) == [k \in 1 .. n |-> s[k]]

\* No command, or one whose request was accepted; the checkpoint holds the steps that were
\* taken, of the schedule that was drawn from the pinned file.
Drawn ==
  IF sft = "none"
  THEN /\ request = NoRequest /\ source = <<>> /\ schedule = <<>> /\ taken = 0
       /\ trained = <<>> /\ saved = <<>> /\ served = <<>>
  ELSE /\ request \in Requests /\ Accepted(request) /\ source = Trusted(DataFile)
       /\ schedule \in Schedules(request)
       /\ taken \in 0 .. Len(schedule)
       /\ saved = First(schedule, taken)

Stepped ==
  /\ sft \in {"none", "train", "restore", "evaluate", "reported"}
  /\ sft = "train" => trained = saved /\ served = <<>>
  /\ sft \in {"restore", "evaluate", "reported"} => taken = Len(schedule)
  /\ sft = "restore" => trained = <<>> /\ served = <<>>
  /\ sft \in {"evaluate", "reported"} => trained = saved /\ served = saved

WInv == AInv /\ Drawn /\ Stepped

\* All steps of a schedule, and one more than the first n.
LEMMA FirstSteps ==
  ASSUME NEW S, NEW s \in Seq(S)
  PROVE  /\ First(s, Len(s)) = s /\ First(s, 0) = <<>>
         /\ \A n \in 0 .. Len(s) : First(s, n) \in Seq(S) /\ Len(First(s, n)) = n
         /\ \A n \in Nat : n < Len(s) => First(s, n + 1) = Append(First(s, n), s[n + 1])
<1>1. Len(s) \in Nat /\ DOMAIN s = 1 .. Len(s)
  OBVIOUS
<1>2. First(s, Len(s)) = s
  BY <1>1 DEF First
<1>3. First(s, 0) = <<>>
  BY DEF First
<1>4. ASSUME NEW n \in 0 .. Len(s) PROVE First(s, n) \in Seq(S) /\ Len(First(s, n)) = n
  <2>1. n \in Nat /\ First(s, n) \in [1 .. n -> S]
    BY <1>1 DEF First
  <2> QED
    BY <2>1
<1>5. ASSUME NEW n \in Nat, n < Len(s) PROVE First(s, n + 1) = Append(First(s, n), s[n + 1])
  <2>1. First(s, n) \in Seq(S) /\ Len(First(s, n)) = n
    BY <1>1, <1>4, <1>5
  <2>2. First(s, n + 1) = [k \in 1 .. n + 1 |-> s[k]]
    BY DEF First
  <2>3. \A k \in 1 .. n : First(s, n)[k] = s[k]
    BY DEF First
  <2> DEFINE f == First(s, n)
  <2> HIDE DEF f
  <2>4. Append(f, s[n + 1]) = [k \in 1 .. n + 1 |-> IF k = n + 1 THEN s[n + 1] ELSE f[k]]
    BY <2>1 DEF f
  <2>5. \A k \in 1 .. n + 1 : (IF k = n + 1 THEN s[n + 1] ELSE f[k]) = s[k]
    BY <2>3 DEF f
  <2> QED
    BY <2>2, <2>4, <2>5 DEF f
<1> QED
  BY <1>2, <1>3, <1>4, <1>5

\* The steps of a schedule have ids of their own, and their tasks.
LEMMA ScheduleTyped ==
  ASSUME NEW r \in Requests, Accepted(r), NEW s \in Schedules(r)
  PROVE  /\ s \in Seq(StepRecords) /\ StepsOf(s)
         /\ \A j, k \in DOMAIN s : s[j].id = s[k].id => j = k
<1>1. PICK orders \in [1 .. r.epochs -> SetToSeqs(Selected(r))] : Follows(s, r, orders)
  BY ScheduleFollows
<1>2. s \in Seq(StepRecords) /\ \A j, k \in DOMAIN s : s[j].id = s[k].id => j = k
  BY <1>1 DEF Follows
<1>3. ASSUME NEW k \in DOMAIN s PROVE s[k].id \in Steps /\ s[k].tasks \in Seq(Tasks)
  <2>1. PICK e \in 1 .. r.epochs : \E c \in DOMAIN ChunksOf(r, orders[e]) : s[k].id = <<e, c>>
    BY <1>1 DEF Follows
  <2> DEFINE q == ChunksOf(r, orders[e])
  <2>2. q \in Seq(Seq(Tasks)) /\ Len(q) \in 1 .. Len(Facts)
    <3>1. orders[e] \in SetToSeqs(Selected(r))
      BY <1>1
    <3> QED
      BY <3>1, OrderChunked
  <2>3. PICK c \in DOMAIN q : s[k].id = <<e, c>>
    BY <2>1
  <2> HIDE DEF q
  <2>4. c \in Tasks
    <3>1. Len(Facts) \in Nat /\ Tasks = 1 .. Len(Facts)
      BY WarmStartAssumption DEF Tasks
    <3> QED
      BY <2>2, <2>3, <3>1
  <2>5. <<e, c>> \in Steps
    BY <2>4 DEF Steps
  <2>6. s[k] \in StepRecords
    BY <1>2
  <2> QED
    BY <2>3, <2>5, <2>6 DEF StepRecords
<1> QED
  BY <1>2, <1>3 DEF StepsOf

\* No command at first.
LEMMA WarmInitially == WarmInit => WInv
BY Initially DEF WarmInit, WInv, Drawn, Stepped

\* A preparation of files does not touch a warm start.
LEMMA PreparedStep == WInv /\ sft = "none" /\ Next /\ UNCHANGED learner => WInv'
<1> SUFFICES ASSUME WInv, sft = "none", Next, UNCHANGED learner PROVE WInv'
  OBVIOUS
<1>1. AInv'
  BY PreparationStep DEF WInv
<1>2. Drawn' /\ Stepped'
  BY DEF WInv, Drawn, Stepped, learner
<1> QED
  BY <1>1, <1>2 DEF WInv

\* The request is accepted, and nothing is learned yet.
LEMMA BeginStep == ASSUME NEW r \in Requests PROVE WInv /\ Begin(r) => WInv'
<1> SUFFICES ASSUME WInv, Begin(r) PROVE WInv'
  OBVIOUS
<1>1. AInv'
  BY StutterStep DEF WInv, Begin
<1>2. /\ request' \in Requests /\ Accepted(request') /\ source' = Trusted(DataFile)
      /\ schedule' \in Schedules(request') /\ sft' = "train"
  BY DEF Begin, Matches
<1>3. taken' = 0 /\ trained' = <<>> /\ saved' = <<>> /\ served' = <<>>
  BY DEF WInv, Drawn, Begin
<1>4. schedule' \in Seq(StepRecords)
  BY <1>2, ScheduleTyped
<1>5. First(schedule', 0) = <<>> /\ Len(schedule') \in Nat
  BY <1>4, FirstSteps
<1>6. Drawn'
  BY <1>2, <1>3, <1>5 DEF Drawn
<1>7. Stepped'
  BY <1>2, <1>3 DEF Stepped
<1> QED
  BY <1>1, <1>6, <1>7 DEF WInv

\* A step that is not taken yet has a new id, so that it is learned.
LEMMA TrainStep == WInv /\ Train => WInv'
<1> SUFFICES ASSUME WInv, Train PROVE WInv'
  OBVIOUS
<1>1. AInv'
  BY StutterStep DEF WInv, Train
<1>2. /\ sft = "train" /\ request \in Requests /\ Accepted(request)
      /\ source = Trusted(DataFile) /\ schedule \in Schedules(request)
      /\ taken \in 0 .. Len(schedule) /\ saved = First(schedule, taken)
      /\ trained = saved /\ served = <<>> /\ taken < Len(schedule) /\ taken' = taken + 1
      /\ saved' = trained' /\ trained' = Updated(schedule[taken + 1])
  BY DEF WInv, Drawn, Stepped, Train
<1>3. UNCHANGED <<sft, request, source, schedule, served>>
  BY DEF Train
<1>4. /\ schedule \in Seq(StepRecords)
      /\ \A j, k \in DOMAIN schedule : schedule[j].id = schedule[k].id => j = k
  BY <1>2, ScheduleTyped
<1>5. /\ Len(schedule) \in Nat /\ DOMAIN schedule = 1 .. Len(schedule) /\ taken \in Nat
      /\ taken + 1 \in 1 .. Len(schedule) /\ taken + 1 \in 0 .. Len(schedule)
  BY <1>2, <1>4
<1>6. ~ \E k \in DOMAIN trained : trained[k].id = schedule[taken + 1].id
  <2> SUFFICES ASSUME NEW k \in DOMAIN trained PROVE trained[k].id # schedule[taken + 1].id
    OBVIOUS
  <2>1. k \in 1 .. taken /\ trained[k] = schedule[k]
    BY <1>2 DEF First
  <2>2. k \in 1 .. Len(schedule) /\ k # taken + 1
    BY <1>5, <2>1
  <2> QED
    BY <1>4, <1>5, <2>1, <2>2
<1>7. trained' = First(schedule, taken + 1)
  <2>1. trained' = Append(First(schedule, taken), schedule[taken + 1])
    BY <1>2, <1>6 DEF Updated
  <2>2. First(schedule, taken + 1) = Append(First(schedule, taken), schedule[taken + 1])
    BY <1>2, <1>4, <1>5, FirstSteps
  <2> QED
    BY <2>1, <2>2
<1>8. Drawn'
  BY <1>2, <1>3, <1>5, <1>7 DEF Drawn
<1>9. Stepped'
  BY <1>2, <1>3 DEF Stepped
<1> QED
  BY <1>1, <1>8, <1>9 DEF WInv

\* The steps behind training.
LEMMA BackendsStep == WInv /\ (HandOver \/ Replace \/ Evaluate) => WInv'
<1> SUFFICES ASSUME WInv, HandOver \/ Replace \/ Evaluate PROVE WInv'
  OBVIOUS
<1>1. AInv'
  BY StutterStep DEF WInv, HandOver, Replace, Evaluate
<1>2. /\ sft # "none" /\ sft' # "none"
      /\ UNCHANGED <<request, source, schedule, taken, saved>>
  BY DEF HandOver, Replace, Evaluate
<1>3. Drawn'
  BY <1>2 DEF WInv, Drawn
<1>4. Stepped'
  <2>1. Stepped
    BY DEF WInv
  <2>2. CASE HandOver
    BY <2>1, <2>2 DEF Stepped, HandOver
  <2>3. CASE Replace
    BY <2>1, <2>3 DEF Stepped, Replace
  <2>4. CASE Evaluate
    BY <2>1, <2>4 DEF Stepped, Evaluate
  <2> QED
    BY <2>2, <2>3, <2>4
<1> QED
  BY <1>1, <1>3, <1>4 DEF WInv

\* The end of a process leaves the files as they are.
LEMMA LeaveStep == WInv /\ Leave => WInv'
<1> SUFFICES ASSUME WInv, Leave PROVE WInv'
  OBVIOUS
<1>1. faults' \in 0 .. MaxFaults
  <2>1. faults \in 0 .. MaxFaults /\ MaxFaults \in Nat
    BY AssetAssumption DEF WInv, AInv, Control
  <2>2. CASE sft = "reported"
    BY <2>1, <2>2 DEF Leave
  <2>3. CASE sft # "reported"
    BY <2>1, <2>3 DEF Leave, Faulty
  <2> QED
    BY <2>2, <2>3
<1>2. UNCHANGED <<final, partial, quarantine, plan, pc, endpoint, attempt, file, body, tainted>>
  BY DEF Leave, disk, job
<1>3. Control /\ Bytes /\ Clean /\ ReportsVerified
  BY DEF WInv, AInv
<1>4. Control'
  BY <1>1, <1>2, <1>3 DEF Control, Place
<1>5. Bytes' /\ Clean' /\ ReportsVerified'
  BY <1>2, <1>3 DEF Bytes, Clean, ReportsVerified, Held, Begins
<1>6. Drawn' /\ Stepped'
  BY DEF Leave, Drawn, Stepped
<1> QED
  BY <1>4, <1>5, <1>6 DEF WInv, AInv

\* Every step of files and warm starts keeps the invariant.
THEOREM WarmStepKeeps == WInv /\ [WarmNext]_allVars => WInv'
<1> SUFFICES ASSUME WInv, [WarmNext]_allVars PROVE WInv'
  OBVIOUS
<1>1. CASE sft = "none" /\ Next /\ UNCHANGED learner
  BY <1>1, PreparedStep
<1>2. ASSUME NEW r \in Requests, Begin(r) PROVE WInv'
  BY <1>2, BeginStep
<1>3. CASE WarmStep
  BY <1>3, TrainStep, BackendsStep DEF WarmStep
<1>4. CASE Leave
  BY <1>4, LeaveStep
<1>5. CASE UNCHANGED allVars
  <2>1. UNCHANGED vars /\ UNCHANGED learner
    BY <1>5 DEF allVars
  <2>2. AInv'
    BY <2>1, StutterStep DEF WInv
  <2>3. Drawn' /\ Stepped'
    BY <2>1 DEF WInv, Drawn, Stepped, learner
  <2> QED
    BY <2>2, <2>3 DEF WInv
<1> QED
  BY <1>1, <1>2, <1>3, <1>4, <1>5 DEF WarmNext

LEMMA WarmInvariant == WarmSpec => []WInv
BY WarmInitially, WarmStepKeeps, PTL DEF WarmSpec

\* Every part of the state has its type, the files and their command included, and the
\* checkpoint holds as many steps as were taken.
THEOREM WarmTypesHold == WarmSpec => []TypesOK
<1>1. WInv => TypesOK
  <2> SUFFICES ASSUME WInv PROVE TypesOK
    OBVIOUS
  <2>1. TypeOK /\ Drawn /\ Stepped
    BY Typed DEF WInv
  <2>2. StepsOf(<<>>)
    BY DEF StepsOf
  <2>3. DataFile \in Files /\ Size[DataFile] \in Nat /\ Size[DataFile] > 0
    BY WarmStartAssumption, Sizes
  <2>4. CASE sft = "none"
    <3>1. <<>> \in Contents(DataFile)
      <4>1. <<>> \in [1 .. 0 -> 0 .. Size[DataFile]] /\ 0 \in 0 .. 2 * Size[DataFile] + 1
        BY <2>3
      <4> QED
        BY <4>1 DEF Contents
    <3>2. /\ request = NoRequest /\ source = <<>> /\ schedule = <<>> /\ taken = 0
          /\ trained = <<>> /\ saved = <<>> /\ served = <<>>
      BY <2>1, <2>4 DEF Drawn
    <3> QED
      BY <2>1, <2>2, <2>4, <3>1, <3>2 DEF TypesOK
  <2>5. CASE sft # "none"
    <3>1. /\ request \in Requests /\ Accepted(request) /\ source = Trusted(DataFile)
          /\ schedule \in Schedules(request) /\ taken \in 0 .. Len(schedule)
          /\ saved = First(schedule, taken)
      BY <2>1, <2>5 DEF Drawn
    <3>2. source \in Contents(DataFile)
      <4>1. source \in [1 .. Size[DataFile] -> 0 .. Size[DataFile]]
        BY <2>3, <3>1 DEF Trusted
      <4>2. Size[DataFile] \in 0 .. 2 * Size[DataFile] + 1
        BY <2>3
      <4> QED
        BY <4>1, <4>2 DEF Contents
    <3>3. schedule \in Seq(StepRecords) /\ StepsOf(schedule)
      BY <3>1, ScheduleTyped
    <3>4. Len(saved) = taken
      BY <3>1, <3>3, FirstSteps
    <3>5. StepsOf(saved)
      <4>1. \A k \in DOMAIN saved : k \in DOMAIN schedule /\ saved[k] = schedule[k]
        BY <3>1, <3>3 DEF First
      <4> QED
        BY <3>3, <4>1 DEF StepsOf
    <3>6. StepsOf(trained) /\ StepsOf(served)
      BY <2>1, <2>2, <2>5, <3>5 DEF Stepped
    <3>7. sft \in {"none", "train", "restore", "evaluate", "reported"}
      BY <2>1 DEF Stepped
    <3> QED
      BY <2>1, <3>1, <3>2, <3>3, <3>4, <3>5, <3>6, <3>7 DEF TypesOK
  <2> QED
    BY <2>4, <2>5
<1> QED
  BY WarmInvariant, <1>1, PTL

\* What a warm start reports was learned as it was asked for: from the pinned bytes, as many
\* tasks, each fact of each once by Main and once by a Sub in every epoch, and nothing that
\* is held out (wideseek_sft_smoke.py, wideseek_sft.py).
THEOREM TaughtHolds == WarmSpec => []TaughtAsAsked
<1>1. WInv => TaughtAsAsked
  <2> SUFFICES ASSUME WInv, sft = "reported" PROVE TaughtAsAsked
    BY DEF TaughtAsAsked
  <2>1. /\ request \in Requests /\ Accepted(request) /\ source = Trusted(DataFile)
        /\ schedule \in Schedules(request) /\ taken = Len(schedule)
        /\ saved = First(schedule, taken) /\ served = saved
    BY DEF WInv, Drawn, Stepped
  <2>2. schedule \in Seq(StepRecords)
    BY <2>1, ScheduleTyped
  <2>3. served = schedule
    BY <2>1, <2>2, FirstSteps
  <2>4. PICK orders \in [1 .. request.epochs -> SetToSeqs(Selected(request))] :
          Follows(schedule, request, orders)
    BY <2>1, ScheduleFollows
  <2>5. ASSUME NEW e \in 1 .. request.epochs
        PROVE  IsInjective(Learned(e)) /\ ToSet(Learned(e)) = Selected(request)
    <3>1. Learned(e) = FlattenSeq(OfEpoch(schedule, e))
      BY <2>3 DEF Learned, OfEpoch
    <3> QED
      BY <2>1, <2>4, <3>1, EpochWhole
  <2>6. AllLearned = Selected(request)
    <3>1. 1 \in 1 .. request.epochs
      BY <2>1, WarmStartAssumption DEF Arguments
    <3>2. \A e \in 1 .. request.epochs : ToSet(Learned(e)) = Selected(request)
      BY <2>5
    <3> QED
      BY <3>1, <3>2 DEF AllLearned
  <2>7. /\ Selected(request) \subseteq Tasks
        /\ Cardinality(Selected(request)) =
             IF request.tasks = <<>> THEN request.limit ELSE Len(request.tasks)
        /\ Isolated(request) => Selected(request) \cap HeldOut = {}
    BY <2>1, SelectedAre
  <2>8. \A t \in AllLearned : TaughtWhole(t)
    BY <2>6, <2>7, EveryFactOnce
  <2> QED
    BY <2>1, <2>5, <2>6, <2>7, <2>8 DEF TaughtAsAsked, Isolated
<1> QED
  BY WarmInvariant, <1>1, PTL

\* The files are verified and resumed cleanly however often warm starts run on them and fail.
THEOREM WarmVerified == WarmSpec => []ReportsVerified
<1>1. WInv => ReportsVerified
  BY DEF WInv, AInv
<1> QED
  BY WarmInvariant, <1>1, PTL

\* Resuming a download never spoils a file whose bytes were served rightly, with warm starts
\* of any outcome between its attempts (huggingface.py).
THEOREM WarmCleanResume == WarmSpec => []CleanResume
<1>1. WInv => CleanResume
  BY DEF WInv, AInv, Clean, CleanResume, Begins
<1> QED
  BY WarmInvariant, <1>1, PTL

=============================================================================
