-------------------------- MODULE AssetPreparation --------------------------
(***************************************************************************)
(* Preparing the pinned files of a manifest in a directory: what is there  *)
(* is verified; otherwise every file is fetched, from the official hub     *)
(* with bounded attempts and then from the mirror, and all are verified    *)
(* before a report names them.  The mirror's resolve route resumes partial *)
(* files that an earlier attempt, or an earlier run, left behind.  Servers *)
(* answer anything, transfers break, and the process dies anywhere.        *)
(***************************************************************************)
EXTENDS Naturals, Sequences

CONSTANTS
  NumFiles,             \* files of the manifest, in its order
  Size,                 \* file -> its blocks
  AttemptsPerEndpoint,
  Plans,                \* endpoint plans; <<>> stands for a HF_ENDPOINT that is refused
  MaxFaults             \* bound: answers, breaks, crashes and damages that are not expected

ASSUME AssetAssumption ==
  /\ NumFiles \in Nat \ {0}
  /\ Size \in [1 .. NumFiles -> Nat \ {0}]
  /\ AttemptsPerEndpoint \in Nat \ {0}
  /\ Plans \subseteq {<<>>, <<"official">>, <<"mirror">>, <<"official", "mirror">>}
  /\ MaxFaults \in Nat

Files == 1 .. NumFiles

\* The content of a file is a sequence of blocks: the places they have in the pinned file,
\* and 0 for a block that is not of it.
Trusted(f) == [i \in 1 .. Size[f] |-> i]

Junk(n) == [i \in 1 .. n |-> 0]

VARIABLES
  final,       \* disk: the files in place, with their contents
  partial,     \* disk: what .partials holds of each file
  quarantine,  \* disk: the files that were moved away for good
  plan,        \* the endpoints of the command
  pc,          \* "none", "fetch", "resolve", "body", "verify", "reported" or "failed"
  endpoint,    \* the endpoint in use, 0 when none is
  attempt,     \* the attempt there
  file,        \* the file it fetches
  body,        \* what the response has yet to deliver
  tainted,     \* bytes that are not the pinned ones were delivered, or files damaged
  faults       \* bound: unexpected answers and events

disk == <<final, partial, quarantine>>
job == <<pc, endpoint, attempt, file>>
vars == <<disk, plan, job, body, tainted, faults>>

Over == {"none", "reported", "failed"}

Init ==
  /\ final = <<>>
  /\ partial = [f \in Files |-> <<>>]
  /\ quarantine = {}
  /\ plan \in Plans
  /\ pc = "none"
  /\ endpoint = 0
  /\ attempt = 1
  /\ file = 1
  /\ body = <<>>
  /\ tainted = FALSE
  /\ faults = 0

Faulty == faults < MaxFaults /\ faults' = faults + 1

\* The command is over.
Ends(how) == pc' = how /\ endpoint' = 0 /\ attempt' = 1 /\ file' = 1

\* Moving a complete file into place.
InPlace(f, content) == [g \in DOMAIN final \cup {f} |-> IF g = f THEN content ELSE final[g]]

-----------------------------------------------------------------------------
(* The command *)

\* prepare: a complete set of files is verified as it is.
Prepare ==
  /\ pc \in Over
  /\ IF DOMAIN final # Files /\ plan = <<>>
     THEN Ends("failed")
     ELSE /\ pc' = IF DOMAIN final = Files THEN "verify" ELSE "fetch"
          /\ endpoint' = IF DOMAIN final = Files THEN 0 ELSE 1
          /\ UNCHANGED <<attempt, file>>
  /\ UNCHANGED <<disk, plan, body, tainted, faults>>

\* verify_copy, for files that were copied from another machine.
VerifyCopy ==
  /\ pc \in Over
  /\ pc' = "verify"
  /\ UNCHANGED <<disk, plan, endpoint, attempt, file, body, tainted, faults>>

MatchesInSize(f) == Len(final[f]) = Size[f]

\* Size and digest are the manifest's.
Matches(f) == final[f] = Trusted(f)

LeftInPlace(f) == final

\* The files in place when f was moved away.
Without(f) == [g \in DOMAIN final \ {f} |-> final[g]]

\* All files in their order, up to the first that is missing or does not match.
Verify ==
  /\ pc = "verify"
  /\ LET wrong == {f \in Files : f \notin DOMAIN final \/ ~Matches(f)} IN
     IF wrong = {}
     THEN Ends("reported") /\ UNCHANGED <<final, quarantine>>
     ELSE LET f == CHOOSE f \in wrong : \A g \in wrong : f <= g IN
          /\ Ends("failed")
          /\ IF f \in DOMAIN final
             THEN final' = Without(f) /\ quarantine' = quarantine \cup {f}
             ELSE UNCHANGED <<final, quarantine>>
  /\ UNCHANGED <<partial, plan, body, tainted, faults>>

\* The file is there: on to the next one, or to the verification of all.
NextFile ==
  /\ file' = IF file < NumFiles THEN file + 1 ELSE file
  /\ pc' = IF file < NumFiles THEN "fetch" ELSE "verify"
  /\ UNCHANGED <<endpoint, attempt>>

Again(e, a) == pc' = "fetch" /\ endpoint' = e /\ attempt' = a /\ file' = 1

OneAttemptMore == attempt <= AttemptsPerEndpoint

MoreAttempts == attempt < AttemptsPerEndpoint

\* A retryable error: the next attempt begins with the first file, the next endpoint comes
\* after the last attempt.
Retry ==
  \/ MoreAttempts /\ Again(endpoint, attempt + 1)
  \/ ~MoreAttempts /\ endpoint < Len(plan) /\ Again(endpoint + 1, 1)
  \/ ~MoreAttempts /\ endpoint = Len(plan) /\ Ends("failed")

\* A terminal error: no other attempt, no other endpoint.
Terminal == Ends("failed")

-----------------------------------------------------------------------------
(* The hub client of the library *)

Mirror == endpoint > 0 /\ plan[endpoint] = "mirror"

\* It downloads the file, or leaves alone what is there; what it is served may be wrong.
HubReturns ==
  /\ pc = "fetch"
  /\ \/ final' = InPlace(file, Trusted(file)) /\ UNCHANGED <<tainted, faults>>
     \/ file \in DOMAIN final /\ UNCHANGED <<final, tainted, faults>>
     \/ Faulty /\ final' = InPlace(file, Junk(Size[file])) /\ tainted' = TRUE
  /\ NextFile
  /\ UNCHANGED <<partial, quarantine, plan, body>>

\* The official hub cannot be reached as long as it likes.
HubRaises ==
  /\ pc = "fetch"
  /\ \/ Retry /\ (IF Mirror THEN Faulty ELSE UNCHANGED faults)
     \/ Terminal /\ Faulty
  /\ UNCHANGED <<disk, plan, body, tainted>>

\* The metadata of the mirror are not the library's, or it cannot be reached.
HubLacksMetadata ==
  /\ pc = "fetch"
  /\ Mirror
  /\ pc' = "resolve"
  /\ UNCHANGED <<disk, plan, endpoint, attempt, file, body, tainted, faults>>

-----------------------------------------------------------------------------
(* The resolve route of the mirror *)

Response(status, from, content) ==
  [status |-> status, from |-> from, content |-> content, pinned |-> TRUE]

Rest(f, k) == SubSeq(Trusted(f), k + 1, Size[f])

\* What a mirror with the pinned file answers when k blocks are there: the rest, or that
\* there is none; or the whole file, when it does not serve ranges.
Expected(f, k) ==
  {Response(200, 0, Trusted(f))}
    \cup (IF 0 < k /\ k < Size[f] THEN {Response(206, k, Rest(f, k))} ELSE {})
    \cup (IF 0 < k /\ k >= Size[f] THEN {Response(416, k, <<>>)} ELSE {})

\* Refusals, another revision, another range than was asked for, less than was announced.
Unexpected(f, k) ==
  {Response(s, 0, <<>>) : s \in {403, 503, 416}}
    \cup {[Response(200, 0, Trusted(f)) EXCEPT !.pinned = FALSE]}
    \cup {Response(200, 0, SubSeq(Trusted(f), 1, n)) : n \in 0 .. Size[f]}
    \cup {Response(206, k, SubSeq(Rest(f, k), 1, n)) : n \in 0 .. Size[f] - k}
    \cup (IF k > 0 THEN {Response(206, j, Rest(f, j)) : j \in (0 .. Size[f]) \ {k}} ELSE {})

\* Bytes that do not belong there: they are not the pinned file's; or they are a range of it,
\* sent to a request for the whole file, which no check of the range precedes.
Forged(f, k) ==
  {Response(200, 0, Junk(n)) : n \in 1 .. Size[f] + 1}
    \cup (IF 0 < k /\ k < Size[f] THEN {Response(206, k, Junk(Size[f] - k))} ELSE {})
    \cup (IF k = 0 THEN {Response(206, j, Rest(f, j)) : j \in 1 .. Size[f]} ELSE {})

\* 416 to a partial file of the full length: it was complete.
Complete(r) == r.status = 416 /\ Len(partial[file]) = Size[file]

RangeIgnored(r) == TRUE

\* The range is the one that was asked for.
RangeAsked(r) == r.status = 206 /\ partial[file] # <<>> => r.from = Len(partial[file])

\* Authorization, a missing revision, every other status, another commit, another range.
Refused(r) ==
  \/ r.status \notin {200, 206, 503} /\ ~Complete(r)
  \/ r.status \in {200, 206} /\ (~r.pinned \/ ~RangeAsked(r))

AppendsAlways(r) == partial[file] # <<>>

\* The content is appended to the partial file, or replaces it.
Appends(r) == r.status = 206 /\ partial[file] # <<>>

\* A request for what is missing, up to the first byte of its answer; 503 stands for a
\* connection that fails, too.
Request ==
  /\ pc = "resolve"
  /\ LET k == Len(partial[file]) IN
     \E r \in Expected(file, k) \cup Unexpected(file, k) \cup Forged(file, k) :
       /\ IF r \in Expected(file, k) THEN UNCHANGED faults ELSE Faulty
       /\ tainted' = (tainted \/ r \in Forged(file, k) \ Expected(file, k))
       /\ CASE Refused(r) -> Terminal /\ UNCHANGED <<final, partial, body>>
            [] r.status = 503 -> Retry /\ UNCHANGED <<final, partial, body>>
            [] Complete(r) ->
                 /\ final' = InPlace(file, partial[file])
                 /\ partial' = [partial EXCEPT ![file] = <<>>]
                 /\ NextFile
                 /\ UNCHANGED body
            [] OTHER ->
                 /\ partial' = IF Appends(r) THEN partial ELSE [partial EXCEPT ![file] = <<>>]
                 /\ body' = r.content
                 /\ pc' = "body"
                 /\ UNCHANGED <<final, endpoint, attempt, file>>
  /\ UNCHANGED <<quarantine, plan>>

\* All of the body is there: the file is moved into place when it is as long as it should
\* be. A shorter one is tried again, a longer one is not.
Received ==
  /\ pc = "body"
  /\ LET got == partial[file] \o body IN
       IF Len(got) = Size[file]
       THEN /\ final' = InPlace(file, got)
            /\ partial' = [partial EXCEPT ![file] = <<>>]
            /\ NextFile
       ELSE /\ partial' = [partial EXCEPT ![file] = got]
            /\ IF Len(got) < Size[file] THEN Retry ELSE Terminal
            /\ UNCHANGED final
  /\ body' = <<>>
  /\ UNCHANGED <<quarantine, plan, tainted, faults>>

\* The first n blocks of the body reach the disk.
Kept(n) == partial' = [partial EXCEPT ![file] = @ \o SubSeq(body, 1, n)]

\* The transfer breaks: after a timeout or a network error there is another attempt; a
\* connection that is closed in the middle of the body is no such error of the client.
Breaks ==
  /\ pc = "body"
  /\ Faulty
  /\ \E n \in 0 .. Len(body) : Kept(n)
  /\ Retry \/ Terminal
  /\ body' = <<>>
  /\ UNCHANGED <<final, quarantine, plan, tainted>>

-----------------------------------------------------------------------------
(* What else happens *)

\* The process dies; complete partial files may be left, too.
Crash ==
  /\ pc \notin Over
  /\ Faulty
  /\ Ends("none")
  /\ IF pc = "body" THEN \E n \in 0 .. Len(body) : Kept(n) ELSE UNCHANGED partial
  /\ body' = <<>>
  /\ UNCHANGED <<final, quarantine, plan, tainted>>

\* A file in place is changed or lost.
Damage(f) ==
  /\ pc \in Over
  /\ f \in DOMAIN final
  /\ Faulty
  /\ final' \in {InPlace(f, Junk(Size[f])), Without(f)}
  /\ pc' = "none"
  /\ tainted' = TRUE
  /\ UNCHANGED <<partial, quarantine, plan, endpoint, attempt, file, body>>

\* The file is copied from another machine.
CopiedIn(f) ==
  /\ pc \in Over
  /\ f \notin DOMAIN final
  /\ final' = InPlace(f, Trusted(f))
  /\ UNCHANGED <<partial, quarantine, plan, job, body, tainted, faults>>

Work ==
  \/ Verify
  \/ HubReturns
  \/ HubRaises
  \/ HubLacksMetadata
  \/ Request
  \/ Received
  \/ Breaks

Next ==
  \/ Prepare
  \/ VerifyCopy
  \/ Work
  \/ Crash
  \/ \E f \in Files : Damage(f) \/ CopiedIn(f)

Spec == Init /\ [][Next]_vars

\* A run goes on, and the command is run again and again.
Fairness == WF_vars(Work) /\ SF_vars(Prepare)

FairSpec == Spec /\ Fairness

-----------------------------------------------------------------------------
(* Properties *)

Contents(f) == UNION {[1 .. n -> 0 .. Size[f]] : n \in 0 .. 2 * Size[f] + 1}

\* Every part of the state has its type; only files of the manifest are in place.
TypeOK ==
  /\ DOMAIN final \subseteq Files
  /\ \A f \in DOMAIN final : final[f] \in Contents(f)
  /\ \A f \in Files : partial[f] \in Contents(f)
  /\ quarantine \subseteq Files
  /\ plan \in Plans
  /\ pc \in {"fetch", "resolve", "body", "verify"} \cup Over
  /\ endpoint \in 0 .. Len(plan)
  /\ pc \in {"fetch", "resolve", "body"} => endpoint > 0
  /\ pc \in Over => endpoint = 0
  /\ attempt \in 1 .. AttemptsPerEndpoint
  /\ file \in Files
  /\ body \in Contents(file)
  /\ tainted \in BOOLEAN
  /\ faults \in 0 .. MaxFaults

\* A report names files that are all there with the pinned content, wherever they came
\* from and whatever an earlier run left (huggingface.py, prepare and verify_copy:
\* "verify all bytes before publication").
ReportsVerified ==
  pc = "reported" => DOMAIN final = Files /\ \A f \in Files : final[f] = Trusted(f)

\* As long as all bytes that were delivered are the pinned file's, resuming never spoils a
\* file: over breaks, crashes, retries, servers that ignore or mistake the range, what is
\* partial is a beginning of the file, what is in place is the file, and nothing is
\* quarantined (huggingface.py, _download_resolve_url).
CleanResume ==
  ~tainted =>
    /\ \A f \in DOMAIN final : final[f] = Trusted(f)
    /\ \A f \in Files :
         Len(partial[f]) <= Size[f] /\ \A i \in DOMAIN partial[f] : partial[f][i] = i
    /\ quarantine = {}

Oversized == \E f \in Files : Len(partial[f]) > Size[f]

\* With a mirror in its plan, a command that is run again heals what faults left behind:
\* junk in a partial file, damaged and quarantined files. Only a partial file that is
\* longer than the file may stand in its way for ever: it is refused with 416.
Heals ==
  []<>(pc = "reported") \/ <>[]Oversized \/ [](plan \in {<<>>, <<"official">>})

=============================================================================
