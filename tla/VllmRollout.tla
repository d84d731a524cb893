---------------------------- MODULE VllmRollout ----------------------------
(***************************************************************************)
(* The vLLM rollout service, for one policy: generation and measuring      *)
(* calls that share a worker, synchronizations that replace the worker by  *)
(* one with other weights (and bring the old weights back when that        *)
(* fails), and the closing of the service.  Calls are asyncio tasks; one   *)
(* action is what a task does from one suspension to the next.             *)
(*                                                                         *)
(* The condition of the code is only held between two suspensions, so it   *)
(* is the atomicity of the actions here; the sync lock is held across them *)
(* and is a variable.                                                      *)
(***************************************************************************)
EXTENDS Naturals, FiniteSets

CONSTANTS
  Generators,   \* the tasks that generate or ask for metrics
  Syncers,      \* the tasks that synchronize weights
  Closers,      \* the tasks that close the service
  Artifacts,    \* exported adapters: [version : [step, checkpoint], digest]
  Initial,      \* the adapter the service was started with
  BadDigest,    \* what a worker that loaded something else reports
  Ids,          \* worker processes
  FirstId,      \* the worker process of the start
  None,         \* no worker, no lock holder
  MaxLeaks      \* bound: worker shutdowns that raise

Tasks == Generators \cup Syncers \cup Closers

Versions == {a.version : a \in Artifacts}

Revisions == [version : Versions, replica : Nat]

Digests == {a.digest : a \in Artifacts} \cup {BadDigest}

\* A worker process: the artifact it was launched with and the digest it reports.
Workers == [id : Ids, made : Artifacts, digest : Digests]

ASSUME ServiceAssumption ==
  /\ IsFiniteSet(Generators)
  /\ Initial \in Artifacts
  /\ FirstId \in Ids
  /\ None \notin Workers \cup Tasks \cup Artifacts
  /\ Generators \cap Syncers = {}
  /\ Generators \cap Closers = {}
  /\ Syncers \cap Closers = {}
  /\ \A a \in Artifacts : a.version.step \in Nat
  /\ \A a \in Artifacts : a.digest # BadDigest
  /\ MaxLeaks \in Nat

VARIABLES
  rev,            \* the published revision
  artifact,       \* the artifact behind it
  worker,         \* the worker that takes calls, or None
  active,         \* the number of calls in flight
  transitioning,  \* a task is replacing or closing the worker
  lock,           \* the task that holds the sync lock, or None
  closed,         \* close was called
  live,           \* the worker processes that run
  leaked,         \* those whose shutdown raised
  old,            \* the worker the lock holder is about to shut down, or None
  pc,             \* per task: where it is suspended
  known,          \* per generator: the revision its caller captured
  held,           \* per generator: the worker of its call in flight, or None
  wanted,         \* per syncer: the artifact its call is to deploy, or None
  answer          \* the last result a generation returned

state == <<rev, artifact, worker, active, transitioning, lock, closed>>
processes == <<live, leaked, old>>
calls == <<known, held, answer>>
vars == <<state, processes, pc, calls, wanted>>

GeneratorControl == {"idle", "sampling", "measuring"}

SyncControl == {"idle", "waiting", "draining", "stopping", "launching", "discarding",
                "restoring", "dropping"}

TypeOK ==
  /\ rev \in Revisions
  /\ artifact \in Artifacts
  /\ worker \in Workers \cup {None}
  /\ active \in Nat
  /\ transitioning \in BOOLEAN
  /\ lock \in Syncers \cup Closers \cup {None}
  /\ closed \in BOOLEAN
  /\ live \subseteq Workers
  /\ leaked \subseteq live
  /\ old \in Workers \cup {None}
  /\ pc \in [Tasks -> GeneratorControl \cup SyncControl]
  /\ known \in [Generators -> Revisions]
  /\ held \in [Generators -> Workers \cup {None}]
  /\ wanted \in [Syncers -> Artifacts \cup {None}]
  /\ answer \in [rev : Revisions, sampled : Versions]

FirstRevision == [version |-> Initial.version, replica |-> 0]

FirstWorker == [id |-> FirstId, made |-> Initial, digest |-> Initial.digest]

\* start returned: the worker reported the digest of its artifact.
Init ==
  /\ rev = FirstRevision
  /\ artifact = Initial
  /\ worker = FirstWorker
  /\ active = 0
  /\ transitioning = FALSE
  /\ lock = None
  /\ closed = FALSE
  /\ live = {FirstWorker}
  /\ leaked = {}
  /\ old = None
  /\ pc = [t \in Tasks |-> "idle"]
  /\ known = [g \in Generators |-> FirstRevision]
  /\ held = [g \in Generators |-> None]
  /\ wanted = [s \in Syncers |-> None]
  /\ answer = [rev |-> FirstRevision, sampled |-> Initial.version]

Goto(t, label) == pc' = [pc EXCEPT ![t] = label]

-----------------------------------------------------------------------------
(* Calls on the worker.  A refused call changes nothing.                     *)

\* The caller captures current_rollout_revision for the generations to come.
Capture(g) ==
  /\ pc[g] = "idle"
  /\ known' = [known EXCEPT ![g] = rev]
  /\ UNCHANGED <<state, processes, pc, held, answer, wanted>>

ServesAnything(r) == TRUE

Serves(r) == rev = r

AvailableWhileDraining == worker # None

Available == ~transitioning /\ worker # None

CountNothing == active' = active

CountCall == active' = active + 1

Acquire(g, label) ==
  /\ pc[g] = "idle"
  /\ ~closed
  /\ Available
  /\ CountCall
  /\ held' = [held EXCEPT ![g] = worker]
  /\ Goto(g, label)
  /\ UNCHANGED <<rev, artifact, worker, transitioning, lock, closed, processes, known,
                 answer, wanted>>

Generate(g) == Serves(known[g]) /\ Acquire(g, "sampling")

Measure(g) == Acquire(g, "measuring")

Release(g) ==
  /\ active' = active - 1
  /\ held' = [held EXCEPT ![g] = None]
  /\ Goto(g, "idle")
  /\ UNCHANGED <<rev, artifact, worker, transitioning, lock, closed, processes, known,
                 wanted>>

\* The worker answered: its digest and the revision are verified before the result
\* is returned under the expected revision.
Return(g) ==
  /\ pc[g] = "sampling"
  /\ held[g] \in live
  /\ held[g].digest = artifact.digest
  /\ Serves(known[g])
  /\ answer' = [rev |-> known[g], sampled |-> held[g].made.version]
  /\ Release(g)

\* The worker raised, the verification failed, or the metrics were read.
Leave(g) ==
  /\ pc[g] \in {"sampling", "measuring"}
  /\ Release(g)
  /\ UNCHANGED answer

-----------------------------------------------------------------------------
(* Replacing the worker                                                      *)

\* sync_rollout_weights, up to the sync lock. (An artifact of another version, or
\* whose files were changed, is refused here and changes nothing.)
Sync(s) ==
  /\ pc[s] = "idle"
  /\ ~closed
  /\ wanted' \in {[wanted EXCEPT ![s] = a] : a \in Artifacts}
  /\ Goto(s, "waiting")
  /\ UNCHANGED <<state, processes, calls>>

\* The weights are others than the published ones, and later.
Newer(a) == a.version # rev.version /\ a.version.step > rev.version.step

LockIgnored == TRUE

LockFree == lock = None

BeginTransition(t) ==
  /\ lock' = t
  /\ transitioning' = TRUE
  /\ Goto(t, "draining")
  /\ UNCHANGED <<rev, artifact, worker, active, closed, wanted>>

\* The call returns or raises; its artifact is forgotten.
Done(t) ==
  /\ Goto(t, "idle")
  /\ wanted' = [s \in Syncers |-> IF s = t THEN None ELSE wanted[s]]

\* Under the lock: the published weights are returned (or refused with another
\* digest), stale ones refused, and others start a transition.
EnterSync(s) ==
  /\ s \in Syncers
  /\ pc[s] = "waiting"
  /\ LockFree
  /\ IF Newer(wanted[s])
     THEN BeginTransition(s)
     ELSE Done(s) /\ UNCHANGED state
  /\ UNCHANGED <<processes, calls>>

\* The task leaves the sync lock with w as the worker.
Settle(t, w) ==
  /\ worker' = w
  /\ transitioning' = FALSE
  /\ lock' = None
  /\ Done(t)
  /\ UNCHANGED <<active, closed>>

DrainedAnyway == TRUE

Drained == active = 0

\* The calls in flight are waited for; then the worker is taken out of service.
Drain(t) ==
  /\ pc[t] = "draining"
  /\ Drained
  /\ IF worker = None
     THEN Settle(t, None) /\ UNCHANGED old
     ELSE /\ old' = worker
          /\ worker' = None
          /\ Goto(t, "stopping")
          /\ UNCHANGED <<active, transitioning, lock, closed, wanted>>
  /\ UNCHANGED <<rev, artifact, live, leaked, calls>>

StopForgotten ==
  /\ old' = None
  /\ UNCHANGED <<live, leaked>>

Stopped ==
  /\ live' = live \ {old}
  /\ old' = None
  /\ UNCHANGED leaked

StopRaised ==
  /\ Cardinality(leaked) < MaxLeaks
  /\ leaked' = leaked \cup {old}
  /\ old' = None
  /\ UNCHANGED live

Stop(s) ==
  /\ s \in Syncers
  /\ pc[s] = "stopping"
  /\ \/ Stopped /\ Goto(s, "launching")
     \/ StopRaised /\ Goto(s, "restoring")
  /\ UNCHANGED <<state, calls, wanted>>

FreshIds == Ids \ {w.id : w \in live}

\* A worker process launched with artifact a; what it loaded may be something else.
Launched(a) ==
  {w \in Workers : w.id \in FreshIds /\ w.made = a /\ w.digest \in {a.digest, BadDigest}}

VerifiedBlindly(w, a) == TRUE

Verified(w, a) == w.digest = a.digest

\* The replacement is published once it reported the digest of the artifact.
Launch(s) ==
  /\ pc[s] = "launching"
  /\ \/ \E w \in Launched(wanted[s]) :
          /\ live' = live \cup {w}
          /\ IF Verified(w, wanted[s])
             THEN /\ Settle(s, w)
                  /\ artifact' = wanted[s]
                  /\ rev' = [version |-> wanted[s].version, replica |-> rev.replica + 1]
                  /\ UNCHANGED old
             ELSE /\ old' = w
                  /\ Goto(s, "discarding")
                  /\ UNCHANGED <<state, wanted>>
     \/ Goto(s, "restoring") /\ UNCHANGED <<state, live, old, wanted>>
  /\ UNCHANGED <<leaked, calls>>

Discard(s) ==
  /\ pc[s] = "discarding"
  /\ Stopped \/ StopRaised
  /\ Goto(s, "restoring")
  /\ UNCHANGED <<state, calls, wanted>>

\* _rollback_transition: a worker with the artifact still published, or none.
Restore(s) ==
  /\ pc[s] = "restoring"
  /\ \/ \E w \in Launched(artifact) :
          /\ live' = live \cup {w}
          /\ IF Verified(w, artifact)
             THEN Settle(s, w) /\ UNCHANGED old
             ELSE /\ old' = w
                  /\ Goto(s, "dropping")
                  /\ UNCHANGED <<worker, active, transitioning, lock, closed, wanted>>
     \/ Settle(s, None) /\ UNCHANGED <<live, old>>
  /\ UNCHANGED <<rev, artifact, leaked, calls>>

Drop(s) ==
  /\ pc[s] = "dropping"
  /\ Stopped \/ StopRaised
  /\ Settle(s, None)
  /\ UNCHANGED <<rev, artifact, calls>>

-----------------------------------------------------------------------------
(* Closing                                                                   *)

\* The close lock lets one task close the service; a later one finds it closed.
Close(c) ==
  /\ pc[c] = "idle"
  /\ ~closed
  /\ closed' = TRUE
  /\ Goto(c, "waiting")
  /\ UNCHANGED <<rev, artifact, worker, active, transitioning, lock, processes, calls,
                 wanted>>

EnterClose(c) ==
  /\ c \in Closers
  /\ pc[c] = "waiting"
  /\ LockFree
  /\ BeginTransition(c)
  /\ UNCHANGED <<processes, calls>>

\* The worker's shutdown may raise: it is out of service all the same.
Shut(c) ==
  /\ c \in Closers
  /\ pc[c] = "stopping"
  /\ Stopped \/ StopRaised
  /\ Settle(c, None)
  /\ UNCHANGED <<rev, artifact, calls>>

-----------------------------------------------------------------------------
CallStep(g) == Return(g) \/ Leave(g)

TransitionStep(t) ==
  Drain(t) \/ Stop(t) \/ Launch(t) \/ Discard(t) \/ Restore(t) \/ Drop(t) \/ Shut(t)

Enter(t) == EnterSync(t) \/ EnterClose(t)

Next ==
  \/ \E g \in Generators : Capture(g) \/ Generate(g) \/ Measure(g) \/ CallStep(g)
  \/ \E s \in Syncers : Sync(s)
  \/ \E c \in Closers : Close(c)
  \/ \E t \in Syncers \cup Closers : Enter(t) \/ TransitionStep(t)

Spec == Init /\ [][Next]_vars

\* A worker answers or raises, its launch and shutdown come to an end (both have a
\* timeout in the code), and the lock, which is first come first served, is not
\* withheld from a waiting task for ever.
Fairness ==
  /\ \A g \in Generators : WF_vars(CallStep(g))
  /\ \A t \in Syncers \cup Closers : WF_vars(TransitionStep(t)) /\ SF_vars(Enter(t))

FairSpec == Spec /\ Fairness

-----------------------------------------------------------------------------
(* Properties *)

\* The worker that takes calls runs, was launched with the published artifact and
\* reported its digest: a failed replacement never leaves the service with other
\* weights than its revision says (_rollback_transition).
ServesPublished ==
  /\ artifact.version = rev.version
  /\ worker # None =>
       worker \in live /\ worker.made = artifact /\ worker.digest = artifact.digest

\* A worker is never shut down under a call: whatever synchronizations and closes
\* run, the worker of a call in flight is the one in service (_begin_transition).
NotUnderCalls ==
  \A g \in Generators : held[g] # None => held[g] = worker /\ held[g] \in live

\* Two workers of a policy never share its GPU, except where a shutdown raised.
OneWorker == \A v, w \in live \ leaked : v = w

\* When close has returned no worker runs, except where a shutdown raised, not even
\* one of a synchronization that was waiting or running meanwhile.
ClosedForGood ==
  closed /\ (\A c \in Closers : pc[c] = "idle")
    => live \subseteq leaked /\ worker = None

\* The processes of the service are accounted for: never two on one GPU, none after
\* close (service.py, sync_rollout_weights and close).
WorkersAccounted == OneWorker /\ ClosedForGood

Barrier == INSTANCE RolloutBarrier
             WITH current <- rev,
                  inflight <- {g \in Generators : held[g] # None},
                  answer <- answer

\* The service publishes later and later revisions, each between calls, and every
\* answer carries the revision that sampled it.
BarrierImplemented == Barrier!Spec

\* Every call returns: no generation, synchronization or close waits for ever, on the
\* lock or on calls in flight, though new calls keep coming.
CallsReturn == \A t \in Tasks : pc[t] # "idle" ~> pc[t] = "idle"

=============================================================================
