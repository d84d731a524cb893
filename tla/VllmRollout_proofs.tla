------------------------ MODULE VllmRollout_proofs -------------------------
(***************************************************************************)
(* Proofs about the vLLM rollout service, for every number of tasks,       *)
(* artifacts and worker processes, and about the client of a worker        *)
(* process, for every number of callers and of calls and size of a batch.  *)
(***************************************************************************)
EXTENDS VllmRollout, VllmWorker, FiniteSetTheorems, WellFoundedInduction, TLAPS

-----------------------------------------------------------------------------
(* The inductive invariant                                                   *)

Lockers == Syncers \cup Closers

InFlight == {g \in Generators : held[g] # None}

Replacing == {"launching", "restoring"}

Disposing == {"stopping", "discarding", "dropping"}

Busy == {"draining"} \cup Replacing \cup Disposing

\* Which labels a task of each kind can be at.
Places ==
  /\ \A g \in Generators : pc[g] \in GeneratorControl
  /\ \A s \in Syncers : pc[s] \in SyncControl
  /\ \A c \in Closers : pc[c] \in {"idle", "waiting", "draining", "stopping"}

\* The tasks inside the sync lock are its holder, and it has announced itself.
Locking ==
  /\ \A t \in Lockers : pc[t] \in Busy <=> lock = t
  /\ transitioning <=> lock # None

\* Every call in flight is counted and uses the worker in service.
Counting ==
  /\ \A g \in Generators : pc[g] # "idle" <=> held[g] # None
  /\ \A g \in Generators : held[g] # None => held[g] = worker
  /\ active = Cardinality(InFlight)

\* Which workers run while the lock holder is at each label.
Processes ==
  /\ worker # None => worker \in live \ leaked
  /\ \A t \in Lockers : pc[t] \in Replacing \cup Disposing => worker = None
  /\ \A t \in Lockers : pc[t] \in Disposing => old \in live \ leaked
  /\ old # None => \E t \in Lockers : pc[t] \in Disposing
  /\ \A w \in live : w \in leaked \/ w = worker \/ w = old

\* What a synchronization is to deploy is later than what is published.
Deploying ==
  \A s \in Syncers :
    /\ pc[s] # "idle" => wanted[s] \in Artifacts
    /\ pc[s] \in Busy => wanted[s].version.step > rev.version.step

\* A closed service has a closer at work, or no worker and nobody replacing it.
Closing ==
  /\ \A c \in Closers : pc[c] # "idle" => closed
  /\ closed /\ (\A c \in Closers : pc[c] = "idle") =>
       /\ worker = None
       /\ \A t \in Lockers : pc[t] \notin Replacing \cup Disposing

IInv ==
  /\ TypeOK
  /\ Places
  /\ Locking
  /\ Counting
  /\ Processes
  /\ Deploying
  /\ Closing
  /\ ServesPublished

-----------------------------------------------------------------------------
(* Lemmas                                                                    *)

\* None is no worker, no task and no artifact.
LEMMA NoneApart ==
  /\ None \notin Workers
  /\ None \notin Lockers
  /\ None \notin Artifacts
BY ServiceAssumption DEF Lockers, Tasks

\* A task is of one kind only.
LEMMA KindsApart ==
  /\ \A g \in Generators : g \notin Lockers /\ g \in Tasks
  /\ \A t \in Lockers : t \notin Generators /\ t \in Tasks
  /\ \A s \in Syncers : s \notin Closers
BY ServiceAssumption DEF Lockers, Tasks

\* The start of the service gives well-typed values.
LEMMA FirstTyped ==
  /\ FirstRevision \in Revisions
  /\ FirstWorker \in Workers
  /\ Initial \in Artifacts
BY ServiceAssumption
   DEF FirstRevision, FirstWorker, Revisions, Versions, Workers, Digests

\* A worker that was launched is a fresh process with the artifact it was given.
LEMMA LaunchedTyped ==
  ASSUME live \subseteq Workers, NEW a \in Artifacts, NEW w \in Launched(a)
  PROVE  w \in Workers /\ w \notin live /\ w.made = a
BY DEF Launched, FreshIds, Workers

\* The invariant holds when start returned.
THEOREM ServiceInit == Init => IInv
<1> SUFFICES ASSUME Init PROVE IInv
  OBVIOUS
<1> USE FirstTyped, NoneApart, KindsApart
<1>0. /\ \A g \in Generators : pc[g] = "idle" /\ held[g] = None
      /\ \A t \in Lockers : pc[t] = "idle" /\ lock # t
      /\ Syncers \subseteq Lockers /\ Closers \subseteq Lockers
  BY DEF Init, Lockers
<1>1. TypeOK
  <2>2. pc \in [Tasks -> GeneratorControl \cup SyncControl]
    BY DEF Init, GeneratorControl
  <2>3. [rev |-> FirstRevision, sampled |-> Initial.version]
          \in [rev : Revisions, sampled : Versions]
    BY DEF Versions
  <2> QED
    BY <2>2, <2>3 DEF Init, TypeOK
<1>2. Places /\ Locking
  BY <1>0 DEF Init, Places, Locking, GeneratorControl, SyncControl, Busy, Replacing,
              Disposing
<1>3. Counting
  <2>1. InFlight = {}
    BY DEF Init, InFlight
  <2> QED
    BY <2>1, FS_EmptySet DEF Init, Counting
<1>4. Processes /\ Deploying /\ Closing
  BY <1>0 DEF Init, Processes, Deploying, Closing, Replacing, Disposing, Busy
<1>5. ServesPublished
  BY DEF Init, ServesPublished, FirstRevision, FirstWorker
<1> QED
  BY <1>1, <1>2, <1>3, <1>4, <1>5 DEF IInv

\* Calls of generators: they only count themselves in and out.
LEMMA CallsKeep ==
  ASSUME IInv, NEW g \in Generators,
         Capture(g) \/ Generate(g) \/ Measure(g) \/ CallStep(g)
  PROVE  IInv'
<1> USE NoneApart, KindsApart DEF IInv
<1>1. CASE Capture(g)
  <2>1. TypeOK'
    BY <1>1 DEF Capture, TypeOK, state, processes
  <2> QED
    BY <1>1, <2>1
    DEF Capture, state, processes, Places, Locking, Counting, InFlight, Processes,
        Deploying, Closing, ServesPublished
<1>2. CASE Generate(g) \/ Measure(g)
  <2>1. PICK label \in {"sampling", "measuring"} : Acquire(g, label)
    BY <1>2 DEF Generate, Measure
  <2>2. /\ held[g] = None
        /\ worker # None
        /\ worker \in Workers
        /\ ~transitioning
    BY <2>1 DEF Acquire, Counting, Available, TypeOK
  <2>3. /\ held' = [held EXCEPT ![g] = worker]
        /\ pc' = [pc EXCEPT ![g] = label]
        /\ active' = active + 1
        /\ UNCHANGED <<rev, artifact, worker, transitioning, lock, closed, processes, known,
                       answer, wanted>>
    BY <2>1 DEF Acquire, CountCall, Goto
  <2>4. TypeOK'
    BY <2>2, <2>3 DEF TypeOK, processes, GeneratorControl
  <2>5. Places'
    BY <2>3 DEF Places, GeneratorControl, TypeOK, Lockers
  <2>6. /\ \A t \in Lockers : pc'[t] = pc[t]
        /\ pc'[g] = label
        /\ \A h \in Generators \ {g} : pc'[h] = pc[h] /\ held'[h] = held[h]
        /\ held'[g] = worker
    BY <2>3 DEF TypeOK
  <2>7. Counting'
    <3>1. InFlight' = InFlight \cup {g} /\ g \notin InFlight
      BY <2>2, <2>6 DEF InFlight
    <3>2. IsFiniteSet(InFlight)
      BY ServiceAssumption, FS_Subset DEF InFlight
    <3>3. Cardinality(InFlight') = Cardinality(InFlight) + 1
      BY <3>1, <3>2, FS_AddElement
    <3> QED
      BY <2>2, <2>3, <2>6, <3>3 DEF Counting
  <2> QED
    BY <2>3, <2>4, <2>5, <2>6, <2>7
    DEF processes, Locking, Processes, Deploying, Closing, ServesPublished, Lockers
<1>3. CASE CallStep(g)
  <2>1. /\ pc[g] # "idle"
        /\ Release(g)
        /\ answer' \in [rev : Revisions, sampled : Versions]
    <3>1. CASE Return(g)
      <4>1. held[g] \in Workers
        BY <3>1 DEF Return, TypeOK
      <4>2. held[g].made.version \in Versions
        BY <4>1 DEF Workers, Versions
      <4> QED
        BY <3>1, <4>2 DEF Return, TypeOK
    <3>2. CASE Leave(g)
      BY <3>2 DEF Leave, TypeOK
    <3> QED
      BY <1>3, <3>1, <3>2 DEF CallStep
  <2>2. held[g] # None
    BY <2>1 DEF Counting
  <2>3. /\ held' = [held EXCEPT ![g] = None]
        /\ pc' = [pc EXCEPT ![g] = "idle"]
        /\ active' = active - 1
        /\ UNCHANGED <<rev, artifact, worker, transitioning, lock, closed, processes, known,
                       wanted>>
    BY <2>1 DEF Release, Goto
  <2>4. /\ \A t \in Lockers : pc'[t] = pc[t]
        /\ pc'[g] = "idle"
        /\ \A h \in Generators \ {g} : pc'[h] = pc[h] /\ held'[h] = held[h]
        /\ held'[g] = None
    BY <2>3 DEF TypeOK
  <2>5. /\ InFlight' = InFlight \ {g}
        /\ g \in InFlight
        /\ IsFiniteSet(InFlight)
    BY <2>2, <2>4, ServiceAssumption, FS_Subset DEF InFlight
  <2>6. /\ Cardinality(InFlight') = Cardinality(InFlight) - 1
        /\ Cardinality(InFlight') \in Nat
    BY <2>5, FS_RemoveElement, FS_CardinalityType
  <2>7. Counting'
    BY <2>3, <2>4, <2>6 DEF Counting
  <2>8. active' \in Nat
    BY <2>3, <2>6 DEF Counting
  <2>9. TypeOK'
    BY <2>1, <2>3, <2>8 DEF TypeOK, processes, GeneratorControl
  <2>10. Places'
    BY <2>3 DEF Places, GeneratorControl, TypeOK, Lockers
  <2> QED
    BY <2>3, <2>4, <2>7, <2>9, <2>10
    DEF processes, Locking, Processes, Deploying, Closing, ServesPublished, Lockers
<1> QED
  BY <1>1, <1>2, <1>3

\* No call is in flight when none is counted, or when no worker takes calls.
LEMMA NobodyCalls ==
  ASSUME IInv, active = 0 \/ worker = None
  PROVE  \A g \in Generators : held[g] = None
<1>1. CASE active = 0
  <2>1. IsFiniteSet(InFlight)
    BY ServiceAssumption, FS_Subset DEF InFlight
  <2>2. InFlight = {}
    BY <1>1, <2>1, FS_EmptySet DEF IInv, Counting
  <2> QED
    BY <2>2 DEF InFlight
<1>2. CASE worker = None
  BY <1>2 DEF IInv, Counting
<1> QED
  BY <1>1, <1>2

\* Moving one task leaves the others where they are.
LEMMA Moved ==
  ASSUME TypeOK, NEW t \in Lockers, NEW label, Goto(t, label)
  PROVE  /\ pc'[t] = label
         /\ \A u \in Lockers \ {t} : pc'[u] = pc[u]
         /\ \A g \in Generators : pc'[g] = pc[g]
BY KindsApart DEF TypeOK, Goto

\* A task that is moved to a label of its kind keeps the types and places.
LEMMA MovedTyped ==
  ASSUME TypeOK, Places, NEW t \in Lockers, NEW label \in SyncControl, Goto(t, label),
         t \in Closers => label \in {"idle", "waiting", "draining", "stopping"}
  PROVE  pc' \in [Tasks -> GeneratorControl \cup SyncControl] /\ Places'
<1>1. pc' \in [Tasks -> GeneratorControl \cup SyncControl]
  BY KindsApart DEF TypeOK, Goto
<1>2. Places'
  BY Moved, KindsApart DEF Places, Lockers
<1> QED
  BY <1>1, <1>2

\* A call of sync_rollout_weights or close up to the sync lock keeps the invariant.
LEMMA AskKeeps ==
  ASSUME IInv, NEW t \in Lockers,
         \/ t \in Syncers /\ Sync(t)
         \/ t \in Closers /\ Close(t)
  PROVE  IInv'
<1> USE NoneApart, KindsApart DEF IInv
<1>1. /\ pc[t] = "idle"
      /\ Goto(t, "waiting")
      /\ UNCHANGED <<rev, artifact, worker, active, transitioning, lock, processes, calls>>
  BY DEF Sync, Close, state
<1>2. /\ pc'[t] = "waiting"
      /\ \A u \in Lockers \ {t} : pc'[u] = pc[u]
      /\ \A g \in Generators : pc'[g] = pc[g]
  BY <1>1, Moved
<1>3. pc' \in [Tasks -> GeneratorControl \cup SyncControl] /\ Places'
  BY <1>1, MovedTyped DEF SyncControl
<1>4. /\ wanted' \in [Syncers -> Artifacts \cup {None}]
      /\ closed' \in BOOLEAN
      /\ \A s \in Syncers : s # t => wanted'[s] = wanted[s]
      /\ t \in Syncers => wanted'[t] \in Artifacts
      /\ closed' = (closed \/ t \in Closers)
  <2>1. CASE t \in Syncers /\ Sync(t)
    <3>1. PICK a \in Artifacts : wanted' = [wanted EXCEPT ![t] = a]
      BY <2>1 DEF Sync
    <3> QED
      BY <2>1, <3>1 DEF Sync, state, TypeOK
  <2>2. CASE t \in Closers /\ Close(t)
    BY <2>2 DEF Close, TypeOK, Lockers
  <2> QED
    BY <2>1, <2>2
<1>5. TypeOK'
  BY <1>1, <1>3, <1>4 DEF TypeOK, processes, calls
<1>6. Locking'
  BY <1>1, <1>2 DEF Locking, Busy, Replacing, Disposing
<1>7. Counting' /\ ServesPublished'
  BY <1>1, <1>2 DEF Counting, InFlight, ServesPublished, processes, calls
<1>8. Processes'
  BY <1>1, <1>2 DEF Processes, Replacing, Disposing, processes
<1>9. Deploying'
  BY <1>1, <1>2, <1>4 DEF Deploying, Busy, Replacing, Disposing, Lockers
<1>10. Closing'
  <2>1. CASE t \in Closers
    BY <1>2, <1>4, <2>1 DEF Closing, Lockers
  <2>2. CASE t \notin Closers
    BY <1>1, <1>2, <1>4, <2>2 DEF Closing, Lockers, Replacing, Disposing
  <2> QED
    BY <2>1, <2>2
<1> QED
  BY <1>3, <1>5, <1>6, <1>7, <1>8, <1>9, <1>10

\* Taking the sync lock, to start a transition or to return at once, keeps the
\* invariant.
LEMMA EnterKeeps ==
  ASSUME IInv, NEW t \in Lockers, Enter(t)
  PROVE  IInv'
<1> USE NoneApart, KindsApart DEF IInv
<1>1. /\ pc[t] = "waiting"
      /\ lock = None
      /\ UNCHANGED <<processes, calls>>
  BY DEF Enter, EnterSync, EnterClose, LockFree
<1>2. CASE /\ BeginTransition(t)
           /\ t \in Syncers => Newer(wanted[t])
  <2>1. /\ Goto(t, "draining")
        /\ lock' = t
        /\ transitioning' = TRUE
        /\ UNCHANGED <<rev, artifact, worker, active, closed, wanted>>
    BY <1>2 DEF BeginTransition
  <2>2. /\ pc'[t] = "draining"
        /\ \A u \in Lockers \ {t} : pc'[u] = pc[u]
        /\ \A g \in Generators : pc'[g] = pc[g]
    BY <2>1, Moved
  <2>3. pc' \in [Tasks -> GeneratorControl \cup SyncControl] /\ Places'
    BY <2>1, MovedTyped DEF SyncControl
  <2>4. TypeOK'
    BY <1>1, <2>1, <2>3 DEF TypeOK, processes, calls, Lockers
  <2>5. Locking'
    BY <1>1, <2>1, <2>2 DEF Locking, Busy
  <2>6. Counting' /\ ServesPublished'
    BY <1>1, <2>1, <2>2 DEF Counting, InFlight, ServesPublished, processes, calls
  <2>7. Processes'
    BY <1>1, <2>1, <2>2 DEF Processes, Replacing, Disposing, processes
  <2>8. Deploying'
    BY <1>1, <1>2, <2>1, <2>2 DEF Deploying, Busy, Replacing, Disposing, Lockers, Newer
  <2>9. Closing'
    BY <1>1, <2>1, <2>2 DEF Closing, Lockers, Replacing, Disposing
  <2> QED
    BY <2>3, <2>4, <2>5, <2>6, <2>7, <2>8, <2>9
<1>3. CASE t \in Syncers /\ Done(t) /\ UNCHANGED state
  <2>1. /\ Goto(t, "idle")
        /\ wanted' = [s \in Syncers |-> IF s = t THEN None ELSE wanted[s]]
        /\ UNCHANGED <<rev, artifact, worker, active, transitioning, lock, closed>>
    BY <1>3 DEF Done, state
  <2>2. /\ pc'[t] = "idle"
        /\ \A u \in Lockers \ {t} : pc'[u] = pc[u]
        /\ \A g \in Generators : pc'[g] = pc[g]
    BY <2>1, Moved
  <2>3. pc' \in [Tasks -> GeneratorControl \cup SyncControl] /\ Places'
    BY <2>1, MovedTyped DEF SyncControl
  <2>4. TypeOK'
    BY <1>1, <2>1, <2>3 DEF TypeOK, processes, calls
  <2>5. Locking' /\ Counting' /\ ServesPublished'
    BY <1>1, <2>1, <2>2
    DEF Locking, Busy, Replacing, Disposing, Counting, InFlight, ServesPublished,
        processes, calls
  <2>6. Processes'
    BY <1>1, <2>1, <2>2 DEF Processes, Replacing, Disposing, processes
  <2>7. Deploying'
    BY <1>1, <2>1, <2>2 DEF Deploying, Busy, Replacing, Disposing, Lockers
  <2>8. Closing'
    BY <1>1, <1>3, <2>1, <2>2 DEF Closing, Lockers, Replacing, Disposing
  <2> QED
    BY <2>3, <2>4, <2>5, <2>6, <2>7, <2>8
<1> QED
  BY <1>2, <1>3 DEF Enter, EnterSync, EnterClose

\* A closed service whose closers returned has nobody at work on its worker.
AllShut == closed /\ \A c \in Closers : pc[c] = "idle"

\* The lock holder goes on with the worker out of service.
LEMMA GoingOn ==
  ASSUME IInv, NEW t \in Lockers, pc[t] \in Busy, NEW label \in Replacing \cup Disposing,
         Goto(t, label),
         t \in Closers => label = "stopping",
         t \in Syncers => ~AllShut,
         worker' = None,
         \A g \in Generators : held[g] = None,
         live' \subseteq Workers, leaked' \subseteq live',
         \A w \in live' : w \in leaked' \/ w = old',
         label \in Disposing => old' \in live' \ leaked',
         label \notin Disposing => old' = None,
         UNCHANGED <<rev, artifact, active, transitioning, lock, closed, calls, wanted>>
  PROVE  IInv'
<1> USE NoneApart, KindsApart DEF IInv
<1>1. /\ pc'[t] = label
      /\ \A u \in Lockers \ {t} : pc'[u] = pc[u]
      /\ \A g \in Generators : pc'[g] = pc[g]
  BY Moved
<1>2. label \in SyncControl /\ label \in Busy /\ label # "idle"
  BY DEF SyncControl, Busy, Replacing, Disposing
<1>3. pc' \in [Tasks -> GeneratorControl \cup SyncControl] /\ Places'
  BY <1>2, MovedTyped
<1>4. lock = t /\ \A u \in Lockers \ {t} : pc[u] \notin Busy
  BY DEF Locking
<1>5. old' \in Workers \cup {None}
  OBVIOUS
<1>6. TypeOK'
  BY <1>3, <1>5 DEF TypeOK, calls
<1>7. Locking'
  BY <1>1, <1>2, <1>4 DEF Locking
<1>8. Counting' /\ ServesPublished'
  BY <1>1 DEF Counting, InFlight, ServesPublished, calls
<1>9. Processes'
  <2>1. Replacing \subseteq Busy /\ Disposing \subseteq Busy
    BY DEF Busy
  <2> QED
    BY <1>1, <1>4, <2>1 DEF Processes
<1>10. Deploying'
  BY <1>1, <1>4 DEF Deploying, Lockers, Busy, Replacing, Disposing
<1>11. Closing'
  <2>1. (closed /\ t \in Closers) \/ t \in Syncers
    BY DEF Closing, Lockers, Busy, Replacing, Disposing
  <2>2. ~AllShut'
    <3>1. CASE t \in Closers
      BY <1>1, <1>2, <3>1 DEF AllShut
    <3>2. CASE t \in Syncers
      BY <1>1, <3>2 DEF AllShut, Lockers
    <3> QED
      BY <3>1, <3>2 DEF Lockers
  <2> QED
    BY <1>1, <2>1, <2>2 DEF Closing, Lockers, AllShut
<1> QED
  BY <1>3, <1>6, <1>7, <1>8, <1>9, <1>10, <1>11

\* The lock holder leaves with worker w in service, or none.
LEMMA Settling ==
  ASSUME IInv, NEW t \in Lockers, pc[t] \in Busy, NEW w \in Workers \cup {None},
         Settle(t, w),
         t \in Syncers /\ AllShut => w = None,
         t \in Closers => w = None,
         \A g \in Generators : held[g] = None,
         live' \subseteq Workers, leaked' \subseteq live', old' = None,
         \A v \in live' : v \in leaked' \/ v = w,
         rev' \in Revisions, artifact' \in Artifacts, artifact'.version = rev'.version,
         w # None => w \in live' \ leaked' /\ w.made = artifact' /\ w.digest = artifact'.digest,
         UNCHANGED calls
  PROVE  IInv'
<1> USE NoneApart, KindsApart DEF IInv
<1>1. /\ Goto(t, "idle")
      /\ wanted' = [s \in Syncers |-> IF s = t THEN None ELSE wanted[s]]
      /\ worker' = w /\ transitioning' = FALSE /\ lock' = None
      /\ UNCHANGED <<active, closed>>
  BY DEF Settle, Done
<1>2. /\ pc'[t] = "idle"
      /\ \A u \in Lockers \ {t} : pc'[u] = pc[u]
      /\ \A g \in Generators : pc'[g] = pc[g]
  BY <1>1, Moved
<1>3. pc' \in [Tasks -> GeneratorControl \cup SyncControl] /\ Places'
  BY <1>1, MovedTyped DEF SyncControl
<1>4. \A u \in Lockers \ {t} : pc[u] \notin Busy
  BY DEF Locking
<1>5. /\ "idle" \notin Busy
      /\ Replacing \subseteq Busy /\ Disposing \subseteq Busy
      /\ \A u \in Lockers : pc'[u] \notin Busy
  BY <1>2, <1>4 DEF Busy, Replacing, Disposing
<1>6. TypeOK'
  BY <1>1, <1>3 DEF TypeOK, calls
<1>7. Locking'
  BY <1>1, <1>5 DEF Locking
<1>8. Counting' /\ ServesPublished'
  BY <1>1, <1>2 DEF Counting, InFlight, ServesPublished, calls
<1>9. Processes'
  BY <1>1, <1>5 DEF Processes
<1>10. Deploying'
  BY <1>1, <1>2, <1>5 DEF Deploying, Lockers
<1>11. Closing'
  <2>1. \A c \in Closers : pc'[c] # "idle" => closed'
    BY <1>1, <1>2 DEF Closing, Lockers
  <2>2. ASSUME AllShut'
        PROVE  w = None
    <3>1. CASE t \in Closers
      BY <3>1
    <3>2. CASE t \in Syncers
      BY <1>1, <1>2, <2>2, <3>2 DEF AllShut, Lockers
    <3> QED
      BY <3>1, <3>2 DEF Lockers
  <2> QED
    BY <1>1, <1>5, <2>1, <2>2 DEF Closing, AllShut
<1> QED
  BY <1>3, <1>6, <1>7, <1>8, <1>9, <1>10, <1>11

\* The steps inside the sync lock keep the invariant.
LEMMA TransitionKeeps ==
  ASSUME IInv, NEW t \in Lockers, TransitionStep(t)
  PROVE  IInv'
<1> USE NoneApart, KindsApart DEF IInv
<1>1. pc[t] \in Busy /\ \A u \in Lockers \ {t} : pc[u] \notin Busy
  <2>1. pc[t] \in Busy
    BY DEF TransitionStep, Drain, Stop, Launch, Discard, Restore, Drop, Shut, Busy,
           Replacing, Disposing
  <2> QED
    BY <2>1 DEF Locking
<1>2. /\ pc[t] \notin Disposing => old = None
      /\ pc[t] \notin {"draining"} => worker = None /\ \A g \in Generators : held[g] = None
      /\ t \in Syncers => wanted[t] \in Artifacts
      /\ t \in Closers => pc[t] \in {"draining", "stopping"}
      /\ live \subseteq Workers /\ leaked \subseteq live
      /\ t \in Syncers /\ pc[t] \in Replacing \cup Disposing => ~AllShut
      /\ rev \in Revisions /\ artifact \in Artifacts /\ artifact.version = rev.version
  <2>1. Replacing \subseteq Busy /\ Disposing \subseteq Busy /\ "idle" \notin Busy
        /\ "waiting" \notin Busy
    BY DEF Busy, Replacing, Disposing
  <2>2. pc[t] \notin Disposing => old = None
    BY <1>1, <2>1 DEF Processes
  <2>3. pc[t] # "draining" => worker = None
    BY <1>1 DEF Processes, Busy
  <2>4. pc[t] # "draining" => \A g \in Generators : held[g] = None
    BY <2>3, NobodyCalls
  <2>5. t \in Syncers => wanted[t] \in Artifacts
    BY <1>1, <2>1 DEF Deploying
  <2>6. t \in Closers => pc[t] \in {"draining", "stopping"}
    BY <1>1, <2>1 DEF Places
  <2> QED
    BY <2>2, <2>3, <2>4, <2>5, <2>6 DEF TypeOK, Closing, AllShut, ServesPublished
<1>3. CASE Drain(t)
  <2>1. \A g \in Generators : held[g] = None
    BY <1>3, NobodyCalls DEF Drain, Drained
  <2>2. pc[t] = "draining" /\ pc[t] \notin Disposing
    BY <1>3 DEF Drain, Disposing
  <2>3. CASE worker = None
    <3>1. Settle(t, None) /\ UNCHANGED <<rev, artifact, old, live, leaked, calls>>
      BY <1>3, <2>3 DEF Drain
    <3>2. \A v \in live : v \in leaked \/ v = None
      BY <1>2, <2>2, <2>3 DEF Processes
    <3> QED
      BY <1>1, <1>2, <2>1, <2>2, <3>1, <3>2, Settling
  <2>4. CASE worker # None
    <3>1. /\ old' = worker /\ worker' = None /\ Goto(t, "stopping")
          /\ UNCHANGED <<active, transitioning, lock, closed, wanted>>
          /\ UNCHANGED <<rev, artifact, live, leaked, calls>>
      BY <1>3, <2>4 DEF Drain
    <3>2. \A v \in live : v \in leaked \/ v = worker
      BY <1>2, <2>2 DEF Processes
    <3>3. worker \in live \ leaked /\ ~AllShut
      BY <2>4 DEF Processes, Closing, AllShut
    <3>4. "stopping" \in Disposing
      BY DEF Disposing
    <3> QED
      BY <1>1, <1>2, <2>1, <3>1, <3>2, <3>3, <3>4, GoingOn
  <2> QED
    BY <2>3, <2>4
<1>4. ASSUME pc[t] \in Disposing, Stopped \/ StopRaised
      PROVE  /\ live' \subseteq Workers /\ leaked' \subseteq live' /\ old' = None
             /\ \A v \in live' : v \in leaked'
  <2>1. \A v \in live : v \in leaked \/ v = old
    BY <1>2, <1>4 DEF Processes, Disposing
  <2>2. old \in live \ leaked
    BY <1>4 DEF Processes
  <2>3. leaked' \subseteq live'
    <3>1. CASE Stopped
      BY <1>2, <2>2, <3>1 DEF Stopped
    <3>2. CASE StopRaised
      BY <1>2, <2>2, <3>2 DEF StopRaised
    <3> QED
      BY <1>4, <3>1, <3>2
  <2> QED
    BY <1>2, <1>4, <2>1, <2>3 DEF Stopped, StopRaised
<1>5. CASE Stop(t)
  <2>1. /\ pc[t] = "stopping" /\ t \in Syncers
        /\ Stopped \/ StopRaised
        /\ UNCHANGED <<state, calls, wanted>>
    BY <1>5 DEF Stop
  <2>2. PICK label \in Replacing : Goto(t, label)
    BY <1>5 DEF Stop, Replacing
  <2>3. pc[t] \in Disposing /\ t \notin Closers /\ label \notin Disposing
    BY <2>1 DEF Disposing, Replacing
  <2>4. worker' = None
    BY <1>2, <2>1 DEF state
  <2>5. UNCHANGED <<rev, artifact, active, transitioning, lock, closed, calls, wanted>>
    BY <2>1 DEF state
  <2> QED
    BY <1>1, <1>2, <1>4, <2>1, <2>2, <2>3, <2>4, <2>5, GoingOn
<1>6. CASE Discard(t)
  <2>1. /\ pc[t] = "discarding"
        /\ Stopped \/ StopRaised
        /\ Goto(t, "restoring")
        /\ UNCHANGED <<rev, artifact, worker, active, transitioning, lock, closed, calls,
                       wanted>>
    BY <1>6 DEF Discard, state
  <2>2. /\ pc[t] \in Disposing /\ t \in Syncers /\ t \notin Closers
        /\ "restoring" \in Replacing /\ "restoring" \notin Disposing
    BY <1>2, <2>1 DEF Disposing, Replacing, Lockers
  <2>3. worker' = None
    BY <1>2, <2>1
  <2> QED
    BY <1>1, <1>2, <1>4, <2>1, <2>2, <2>3, GoingOn
<1>7. CASE Drop(t) \/ Shut(t)
  <2>1. /\ pc[t] \in Disposing
        /\ pc[t] # "draining"
        /\ Stopped \/ StopRaised
        /\ Settle(t, None)
        /\ UNCHANGED <<rev, artifact, calls>>
    BY <1>7 DEF Drop, Shut, Disposing
  <2> QED
    BY <1>1, <1>2, <1>4, <2>1, Settling
<1>8. CASE Launch(t)
  <2>1. /\ pc[t] = "launching"
        /\ pc[t] \in Replacing /\ pc[t] \notin Disposing /\ pc[t] # "draining"
        /\ t \in Syncers /\ t \notin Closers
        /\ leaked' = leaked /\ UNCHANGED calls
    BY <1>2, <1>8 DEF Launch, Replacing, Disposing, Lockers
  <2>2. old = None /\ \A v \in live : v \in leaked
    BY <1>2, <2>1 DEF Processes
  <2>3. CASE Goto(t, "restoring") /\ UNCHANGED <<state, live, old, wanted>>
    <3>1. "restoring" \in Replacing /\ "restoring" \notin Disposing
      BY DEF Replacing, Disposing
    <3>2. UNCHANGED <<rev, artifact, worker, active, transitioning, lock, closed, wanted>>
      BY <2>3 DEF state
    <3> QED
      BY <1>1, <1>2, <2>1, <2>2, <2>3, <3>1, <3>2, GoingOn
  <2>4. ASSUME NEW w \in Launched(wanted[t]), live' = live \cup {w}
        PROVE  /\ w \in Workers /\ w \in live' \ leaked' /\ w.made = wanted[t]
               /\ live' \subseteq Workers /\ leaked' \subseteq live'
               /\ \A v \in live' : v \in leaked' \/ v = w
    <3>1. w \in Workers /\ w \notin live /\ w.made = wanted[t]
      BY <1>2, <2>1, LaunchedTyped
    <3> QED
      BY <1>2, <2>1, <2>2, <2>4, <3>1
  <2>5. ASSUME NEW w \in Launched(wanted[t]),
               live' = live \cup {w},
               Verified(w, wanted[t]),
               Settle(t, w),
               artifact' = wanted[t],
               rev' = [version |-> wanted[t].version, replica |-> rev.replica + 1],
               UNCHANGED old
        PROVE  IInv'
    <3>1. /\ rev' \in Revisions /\ artifact' \in Artifacts
          /\ artifact'.version = rev'.version
      BY <1>2, <2>1, <2>5 DEF Revisions, Versions
    <3>2. w.digest = artifact'.digest
      BY <2>5 DEF Verified
    <3>3. old' = None
      BY <2>2, <2>5
    <3>4. ~AllShut
      BY <1>2, <2>1
    <3>5. w \in Workers \cup {None} /\ w.made = artifact'
      BY <2>4, <2>5
    <3> QED
      BY <1>1, <1>2, <2>1, <2>4, <2>5, <3>1, <3>2, <3>3, <3>4, <3>5, Settling
  <2>6. ASSUME NEW w \in Launched(wanted[t]),
               live' = live \cup {w},
               old' = w, Goto(t, "discarding"), UNCHANGED <<state, wanted>>
        PROVE  IInv'
    <3>1. "discarding" \in Disposing
      BY DEF Disposing
    <3>2. UNCHANGED <<rev, artifact, worker, active, transitioning, lock, closed, wanted>>
      BY <2>6 DEF state
    <3> QED
      BY <1>1, <1>2, <2>1, <2>4, <2>6, <3>1, <3>2, GoingOn
  <2> QED
    BY <1>8, <2>3, <2>5, <2>6 DEF Launch
<1>9. CASE Restore(t)
  <2>1. /\ pc[t] = "restoring"
        /\ pc[t] \in Replacing /\ pc[t] \notin Disposing /\ pc[t] # "draining"
        /\ t \in Syncers /\ t \notin Closers
        /\ UNCHANGED <<rev, artifact, leaked, calls>>
    BY <1>2, <1>9 DEF Restore, Replacing, Disposing, Lockers
  <2>2. old = None /\ \A v \in live : v \in leaked
    BY <1>2, <2>1 DEF Processes
  <2>3. CASE Settle(t, None) /\ UNCHANGED <<live, old>>
    BY <1>1, <1>2, <2>1, <2>2, <2>3, Settling
  <2>4. ASSUME NEW w \in Launched(artifact), live' = live \cup {w}
        PROVE  /\ w \in Workers /\ w \in live' \ leaked' /\ w.made = artifact'
               /\ live' \subseteq Workers /\ leaked' \subseteq live'
               /\ \A v \in live' : v \in leaked' \/ v = w
    <3>1. w \in Workers /\ w \notin live /\ w.made = artifact
      BY <1>2, LaunchedTyped
    <3> QED
      BY <1>2, <2>1, <2>2, <2>4, <3>1
  <2>5. ASSUME NEW w \in Launched(artifact), live' = live \cup {w},
               Verified(w, artifact), Settle(t, w), UNCHANGED old
        PROVE  IInv'
    <3>1. w.digest = artifact'.digest /\ old' = None /\ w \in Workers \cup {None}
      BY <2>1, <2>2, <2>4, <2>5 DEF Verified
    <3>2. /\ ~AllShut
          /\ rev' \in Revisions /\ artifact' \in Artifacts
          /\ artifact'.version = rev'.version
      BY <1>2, <2>1
    <3> QED
      BY <1>1, <1>2, <2>1, <2>4, <2>5, <3>1, <3>2, Settling
  <2>6. ASSUME NEW w \in Launched(artifact), live' = live \cup {w},
               old' = w, Goto(t, "dropping"),
               UNCHANGED <<worker, active, transitioning, lock, closed, wanted>>
        PROVE  IInv'
    <3>1. "dropping" \in Disposing
      BY DEF Disposing
    <3> QED
      BY <1>1, <1>2, <2>1, <2>4, <2>6, <3>1, GoingOn
  <2> QED
    BY <1>9, <2>3, <2>5, <2>6 DEF Restore
<1> QED
  BY <1>3, <1>5, <1>6, <1>7, <1>8, <1>9 DEF TransitionStep

\* Every step of every task keeps the invariant.
THEOREM ServiceStep == IInv /\ [Next]_vars => IInv'
<1> SUFFICES ASSUME IInv, [Next]_vars
             PROVE  IInv'
  OBVIOUS
<1>1. CASE UNCHANGED vars
  BY <1>1
  DEF vars, state, processes, calls, IInv, TypeOK, Places, Locking, Counting, InFlight,
      Processes, Deploying, Closing, ServesPublished
<1>2. ASSUME NEW g \in Generators, Capture(g) \/ Generate(g) \/ Measure(g) \/ CallStep(g)
      PROVE  IInv'
  BY <1>2, CallsKeep
<1>3. ASSUME NEW s \in Syncers, Sync(s)
      PROVE  IInv'
  BY <1>3, AskKeeps DEF Lockers
<1>4. ASSUME NEW c \in Closers, Close(c)
      PROVE  IInv'
  BY <1>4, AskKeeps DEF Lockers
<1>5. ASSUME NEW t \in Lockers, Enter(t) \/ TransitionStep(t)
      PROVE  IInv'
  BY <1>5, EnterKeeps, TransitionKeeps
<1> QED
  BY <1>1, <1>2, <1>3, <1>4, <1>5 DEF Next, Lockers

-----------------------------------------------------------------------------
(* The theorems                                                              *)

\* The invariant holds throughout.
LEMMA Invariance == Spec => []IInv
BY ServiceInit, ServiceStep, PTL DEF Spec

\* Every variable keeps its type; in particular the count of calls in flight never
\* becomes negative (_release_generation).
THEOREM TypeCorrect == Spec => []TypeOK
<1>1. IInv => TypeOK
  BY DEF IInv
<1> QED
  BY <1>1, Invariance, PTL

\* Whatever fails, the worker in service carries the published weights.
THEOREM ServesPublishedHolds == Spec => []ServesPublished
<1>1. IInv => ServesPublished
  BY DEF IInv
<1> QED
  BY <1>1, Invariance, PTL

\* No worker is shut down under a call.
THEOREM NotUnderCallsHolds == Spec => []NotUnderCalls
<1>1. IInv => NotUnderCalls
  BY DEF IInv, Counting, Processes, NotUnderCalls
<1> QED
  BY <1>1, Invariance, PTL

\* At most one worker runs whose shutdown did not raise.
THEOREM OneWorkerHolds == Spec => []OneWorker
<1>1. ASSUME IInv PROVE OneWorker
  <2>1. old # None => worker = None
    BY <1>1 DEF IInv, Processes
  <2>2. None \notin live
    BY <1>1, NoneApart DEF IInv, TypeOK
  <2> QED
    BY <1>1, <2>1, <2>2 DEF IInv, Processes, OneWorker
<1> QED
  BY <1>1, Invariance, PTL

\* After close returned no worker runs but one whose shutdown raised.
THEOREM ClosedForGoodHolds == Spec => []ClosedForGood
<1>1. ASSUME IInv, AllShut
      PROVE  live \subseteq leaked /\ worker = None
  <2>1. worker = None /\ \A t \in Lockers : pc[t] \notin Disposing
    BY <1>1 DEF IInv, Closing, AllShut
  <2>2. old = None
    BY <1>1, <2>1 DEF IInv, Processes
  <2>3. None \notin live
    BY <1>1, NoneApart DEF IInv, TypeOK
  <2> QED
    BY <1>1, <2>1, <2>2, <2>3 DEF IInv, Processes
<1>2. IInv => ClosedForGood
  BY <1>1 DEF ClosedForGood, AllShut
<1> QED
  BY <1>2, Invariance, PTL

\* No two workers of a policy run at once, and none after close.
THEOREM WorkersAccountedHolds == Spec => []WorkersAccounted
<1>1. OneWorker /\ ClosedForGood => WorkersAccounted
  BY DEF WorkersAccounted
<1> QED
  BY <1>1, OneWorkerHolds, ClosedForGoodHolds, PTL

-----------------------------------------------------------------------------
(* The service implements the barrier                                        *)

\* The published revision changes and answers are given as the barrier says.
LEMMA BarrierStep ==
  ASSUME IInv, [Next]_vars
  PROVE  [Barrier!Next]_<<rev, {g \in Generators : held[g] # None}, answer>>
<1> DEFINE flight == {g \in Generators : held[g] # None}
           target == [Barrier!Next]_<<rev, flight, answer>>
<1> USE NoneApart, KindsApart DEF IInv
<1>1. CASE UNCHANGED vars
  BY <1>1 DEF vars, state, processes, calls
<1>2. ASSUME NEW g \in Generators, Capture(g) PROVE target
  BY <1>2 DEF Capture, state
<1>3. ASSUME NEW g \in Generators, Generate(g) \/ Measure(g) PROVE target
  <2>1. /\ held' = [held EXCEPT ![g] = worker]
        /\ worker # None
        /\ UNCHANGED <<rev, answer>>
    BY <1>3 DEF Generate, Measure, Acquire, Available
  <2>2. flight' = flight \cup {g}
    BY <2>1 DEF TypeOK
  <2> QED
    BY <2>1, <2>2 DEF Barrier!Next, Barrier!Begin
<1>4. ASSUME NEW g \in Generators, CallStep(g) PROVE target
  <2>1. /\ held' = [held EXCEPT ![g] = None]
        /\ held[g] # None
        /\ UNCHANGED rev
    BY <1>4 DEF CallStep, Return, Leave, Release, Counting
  <2>2. flight' = flight \ {g} /\ g \in flight
    BY <2>1 DEF TypeOK
  <2>3. CASE Return(g)
    <3>1. held[g].made.version = rev.version /\ known[g] = rev
      BY <2>1, <2>3 DEF Return, Serves, Counting, ServesPublished
    <3>2. answer' = [rev |-> rev, sampled |-> rev.version]
      BY <2>3, <3>1 DEF Return
    <3> QED
      BY <2>1, <2>2, <3>2 DEF Barrier!Next, Barrier!Answer
  <2>4. CASE Leave(g)
    BY <2>1, <2>2, <2>4 DEF Leave, Barrier!Next, Barrier!Fail
  <2> QED
    BY <1>4, <2>3, <2>4 DEF CallStep
<1>5. ASSUME NEW s \in Syncers, Sync(s) PROVE target
  BY <1>5 DEF Sync, state, calls
<1>6. ASSUME NEW c \in Closers, Close(c) PROVE target
  BY <1>6 DEF Close, calls
<1>7. ASSUME NEW t \in Lockers, Enter(t) PROVE target
  BY <1>7 DEF Enter, EnterSync, EnterClose, BeginTransition, state, calls
<1>8. ASSUME NEW t \in Lockers, Launch(t) PROVE target
  <2>1. CASE UNCHANGED <<rev, calls>>
    BY <2>1 DEF calls
  <2>2. CASE rev' = [version |-> wanted[t].version, replica |-> rev.replica + 1]
    <3>1. pc[t] = "launching" /\ UNCHANGED calls
      BY <1>8 DEF Launch
    <3>2. pc[t] \in Busy /\ pc[t] \in Replacing /\ t \in Syncers
      BY <3>1 DEF Busy, Replacing, Places, Lockers
    <3>3. flight = {}
      BY <3>2, NobodyCalls DEF Processes
    <3>4. /\ wanted[t] \in Artifacts
          /\ wanted[t].version.step > rev.version.step
      BY <3>1, <3>2 DEF Deploying
    <3>5. wanted[t].version \in Barrier!Versions
      BY <3>4 DEF Barrier!Versions
    <3> QED
      BY <2>2, <3>1, <3>3, <3>4, <3>5 DEF calls, Barrier!Next, Barrier!Publish
  <2> QED
    BY <1>8, <2>1, <2>2 DEF Launch, state
<1>9. ASSUME NEW t \in Lockers,
             Drain(t) \/ Stop(t) \/ Discard(t) \/ Restore(t) \/ Drop(t) \/ Shut(t)
      PROVE  target
  BY <1>9 DEF Drain, Stop, Discard, Restore, Drop, Shut, state, calls
<1> QED
  BY <1>1, <1>2, <1>3, <1>4, <1>5, <1>6, <1>7, <1>8, <1>9
  DEF Next, TransitionStep, Lockers

\* The service publishes later and later revisions, only between calls, and answers
\* with the weights of the revision it names, for every number of tasks and artifacts.
THEOREM BarrierHolds == Spec => BarrierImplemented
<1>1. Init => Barrier!Init
  <2>1. ASSUME Init PROVE {g \in Generators : held[g] # None} = {}
    BY <2>1 DEF Init
  <2> QED
    BY <2>1 DEF Init, Barrier!Init, FirstRevision, Barrier!FirstRevision
<1>2. IInv /\ [Next]_vars => [Barrier!Next]_Barrier!barrier
  BY BarrierStep DEF Barrier!barrier
<1> QED
  BY <1>1, <1>2, Invariance, PTL DEF Spec, BarrierImplemented, Barrier!Spec

-----------------------------------------------------------------------------
(* The client of a worker process: what is in its queue and its batch does   *)
(* not matter for the results, which are handed to the requests of the very  *)
(* list that was sent.                                                       *)

\* The futures and the results are those of the requests.
Futures ==
  /\ future = [r \in Requests |-> future[r]]
  /\ results = [r \in Requests |-> results[r]]

WInv == Futures /\ OwnResult

\* The first k results are in the hands of the calls whose prompts they answer.
LEMMA GivenOwn ==
  ASSUME NEW k, NEW r \in DOMAIN Given(k)
  PROVE  Given(k)[r] = r
<1>1. Given(k)[r] = sent[CHOOSE i \in 1 .. k : sent[i] = r]
  BY DEF Given, Recipients
<1>2. \E i \in 1 .. k : sent[i] = r
  BY DEF Given, Recipients
<1> QED
  BY <1>1, <1>2

\* Calls that are resolved with their own results, or with an exception, keep the invariant.
LEMMA ResolveOwn ==
  ASSUME WInv, NEW given, NEW rejected, \A r \in DOMAIN given : given[r] = r,
         Resolve(given, rejected)
  PROVE  WInv'
<1>1. Futures'
  BY DEF Futures, Resolve
<1>2. ASSUME NEW r \in Requests
      PROVE  results'[r] = IF future'[r] = "done" THEN {r} ELSE {}
  <2>1. results[r] = IF future[r] = "done" THEN {r} ELSE {}
    BY DEF WInv, OwnResult
  <2>2. CASE future[r] # "pending"
    BY <2>1, <2>2 DEF Resolve
  <2>3. CASE future[r] = "pending" /\ r \in DOMAIN given
    BY <2>3 DEF Resolve
  <2>4. CASE future[r] = "pending" /\ r \notin DOMAIN given
    BY <2>1, <2>4 DEF Resolve
  <2> QED
    BY <2>2, <2>3, <2>4
<1> QED
  BY <1>1, <1>2 DEF WInv, OwnResult

\* No call was given anything that was not done.
LEMMA GenerateOwn ==
  ASSUME NEW c \in Callers, NEW n \in 1 .. MaxCalls, WInv, WorkerGenerate(c, n)
  PROVE  WInv'
<1>1. /\ <<c, n>> \in Requests /\ future[<<c, n>>] = "unused" /\ results' = results
      /\ future' = [future EXCEPT ![<<c, n>>] = "pending"]
  BY DEF WorkerGenerate, Requests
<1> QED
  BY <1>1 DEF WInv, Futures, OwnResult

\* A call that is cancelled is given nothing.
LEMMA CancelOwn ==
  ASSUME NEW r \in Requests, WInv, Cancel(r)
  PROVE  WInv'
BY DEF Cancel, WInv, Futures, OwnResult

\* Whatever the client does, results stay with their calls.
LEMMA WorkerStepOwn == WInv /\ [WorkerNext]_workerVars => WInv'
<1> SUFFICES ASSUME WInv, [WorkerNext]_workerVars PROVE WInv'
  OBVIOUS
<1>1. ASSUME NEW c \in Callers, NEW n \in 1 .. MaxCalls, WorkerGenerate(c, n) PROVE WInv'
  BY <1>1, GenerateOwn
<1>2. ASSUME NEW r \in Requests, Cancel(r) PROVE WInv'
  BY <1>2, CancelOwn
<1>3. CASE UNCHANGED <<future, results>>
  BY <1>3 DEF WInv, Futures, OwnResult
<1>4. CASE Take \/ Collect \/ Hang
  BY <1>3, <1>4 DEF Take, Collect, Hang
<1>5. CASE Answer
  BY <1>5, GivenOwn, ResolveOwn DEF Answer
<1>6. CASE Fail
  <2>1. PICK k \in 0 .. (Len(sent) - 1) : Resolve(Given(k), Unanswered)
    BY <1>6 DEF Fail
  <2> QED
    BY <2>1, GivenOwn, ResolveOwn
<1>7. CASE WorkerClose
  <2>1. \A r \in DOMAIN <<>> : <<>>[r] = r
    OBVIOUS
  <2> QED
    BY <1>7, <2>1, ResolveOwn DEF WorkerClose
<1>8. CASE UNCHANGED workerVars
  BY <1>3, <1>8 DEF workerVars
<1> QED
  BY <1>1, <1>2, <1>4, <1>5, <1>6, <1>7, <1>8 DEF WorkerNext, BatchStep

\* A call is given the result of its own prompt and no other's, however calls are cancelled
\* between queueing, batching and answering, and however exchanges fail.
THEOREM AlwaysOwnResult == WorkerSpec => []OwnResult
<1>1. WorkerInit => WInv
  BY DEF WorkerInit, WInv, Futures, OwnResult
<1>2. WInv => OwnResult
  BY DEF WInv
<1> QED
  BY <1>1, <1>2, WorkerStepOwn, PTL DEF WorkerSpec

-----------------------------------------------------------------------------
(* The types of the worker client                                            *)

LEMMA LeastOf ==
  ASSUME NEW T \in SUBSET Nat, T # {}
  PROVE  \E h \in T : \A g \in T : h <= g
<1> DEFINE R == OpToRel(<, Nat)
<1>1. \A x, y \in Nat : y < x => <<y, x>> \in R
  BY DEF OpToRel
<1>2. IsWellFoundedOn(R, Nat)
  BY NatLessThanWellFounded
<1> HIDE DEF R
<1>3. PICK x \in T : \A y \in T : ~ (<<y, x>> \in R)
  BY <1>2, WFMin
<1>4. ASSUME NEW y \in T PROVE x <= y
  <2>1. ~(y < x)
    BY <1>1, <1>3, Zenon
  <2> QED
    BY <2>1
<1> QED
  BY <1>4

\* Induction, for the numbers with a property.
LEMMA Induction ==
  ASSUME NEW T, T \subseteq Nat, 0 \in T, \A n \in T : n + 1 \in T
  PROVE  \A n \in Nat : n \in T
<1> SUFFICES ASSUME Nat \ T # {} PROVE FALSE
  OBVIOUS
<1>1. PICK n \in Nat \ T : \A m \in Nat \ T : n <= m
  BY LeastOf
<1>2. n # 0 /\ n - 1 \in Nat /\ ~(n <= n - 1) /\ (n - 1) + 1 = n
  BY <1>1
<1>3. n - 1 \in T
  BY <1>1, <1>2
<1> QED
  BY <1>1, <1>2, <1>3

\* What is kept of a request, behind what was kept before it.
Behind(before, r) == IF future[r] = "cancelled" THEN before ELSE Append(before, r)

\* What is kept of the first n requests, by which Active is defined.
Keeps(f, s, n) ==
  f = [i \in 0 .. n |-> IF i = 0 THEN <<>>
                        ELSE IF future[s[i]] = "cancelled" THEN f[i - 1]
                        ELSE Append(f[i - 1], s[i])]

LEMMA KeepsExists ==
  ASSUME NEW s, NEW n \in Nat
  PROVE  \E f : Keeps(f, s, n)
<1> DEFINE T == {m \in Nat : \E f : Keeps(f, s, m)}
<1>1. 0 \in T
  <2>1. Keeps([i \in 0 .. 0 |-> <<>>], s, 0)
    BY DEF Keeps
  <2> QED
    BY <2>1
<1>2. ASSUME NEW m \in T PROVE m + 1 \in T
  <2>1. PICK f : Keeps(f, s, m)
    OBVIOUS
  <2> DEFINE g == [i \in 0 .. m + 1 |-> IF i \in 0 .. m THEN f[i] ELSE Behind(f[m], s[i])]
  <2>2. ASSUME NEW i \in 0 .. m + 1
        PROVE  g[i] = IF i = 0 THEN <<>>
                      ELSE IF future[s[i]] = "cancelled" THEN g[i - 1]
                      ELSE Append(g[i - 1], s[i])
    <3>1. CASE i \in 0 .. m
      <4>1. g[i] = f[i] /\ (i # 0 => i - 1 \in 0 .. m /\ g[i - 1] = f[i - 1])
        BY <3>1
      <4>2. f[i] = IF i = 0 THEN <<>>
                   ELSE IF future[s[i]] = "cancelled" THEN f[i - 1]
                   ELSE Append(f[i - 1], s[i])
        BY <2>1, <3>1 DEF Keeps
      <4> QED
        BY <4>1, <4>2
    <3>2. CASE i \notin 0 .. m
      <4>1. i = m + 1 /\ i # 0 /\ i - 1 = m /\ g[i - 1] = f[m]
        BY <3>2
      <4>2. g[i] = Behind(f[m], s[i])
        BY <3>2
      <4> QED
        BY <4>1, <4>2 DEF Behind
    <3> QED
      BY <3>1, <3>2
  <2>3. Keeps(g, s, m + 1)
    BY <2>2 DEF Keeps
  <2> QED
    BY <2>3
<1> HIDE DEF T
<1>3. n \in T
  BY <1>1, <1>2, Induction DEF T
<1> QED
  BY <1>3 DEF T

\* The requests that are sent are some of those that were taken.
LEMMA ActiveAre ==
  ASSUME NEW R, NEW s \in Seq(R)
  PROVE  Active(s) \in Seq(ToSet(s))
<1> DEFINE n == Len(s)
<1>1. Active(s) = (CHOOSE f : Keeps(f, s, n))[n]
  BY DEF Active, Keeps
<1>2. n \in Nat /\ \A i \in 1 .. n : s[i] \in ToSet(s)
  BY DEF ToSet
<1>3. PICK f : Keeps(f, s, n) /\ Active(s) = f[n]
  BY <1>1, <1>2, KeepsExists
<1> HIDE DEF n
<1> DEFINE T == {m \in Nat : m <= n => f[m] \in Seq(ToSet(s))}
<1>4. 0 \in T
  BY <1>2, <1>3 DEF Keeps
<1>5. ASSUME NEW m \in T PROVE m + 1 \in T
  <2> SUFFICES ASSUME m + 1 <= n PROVE f[m + 1] \in Seq(ToSet(s))
    OBVIOUS
  <2>1. m + 1 \in 1 .. n /\ m + 1 # 0 /\ (m + 1) - 1 = m /\ f[m] \in Seq(ToSet(s))
    BY <1>2
  <2>2. f[m + 1] = IF future[s[m + 1]] = "cancelled" THEN f[m] ELSE Append(f[m], s[m + 1])
    <3>1. m + 1 \in 0 .. n
      BY <1>2, <2>1
    <3>2. f[m + 1] = IF m + 1 = 0 THEN <<>>
                     ELSE IF future[s[m + 1]] = "cancelled" THEN f[(m + 1) - 1]
                     ELSE Append(f[(m + 1) - 1], s[m + 1])
      BY <1>3, <3>1 DEF Keeps
    <3> QED
      BY <2>1, <3>2
  <2>3. s[m + 1] \in ToSet(s)
    BY <1>2, <2>1
  <2> QED
    BY <2>1, <2>2, <2>3
<1> HIDE DEF T
<1>6. n \in T
  BY <1>2, <1>4, <1>5, Induction DEF T
<1> QED
  BY <1>2, <1>3, <1>6 DEF T

\* As many of the waiting requests join a batch as fit into it.
LEMMA RoomHasMost ==
  ASSUME NEW Q, queue \in Seq(Q), batch \in Seq(Q), Len(batch) <= MaxNumSeqs
  PROVE  \E k \in Room : \A j \in Room : j <= k
<1>1. Len(queue) \in Nat /\ Len(batch) \in Nat /\ MaxNumSeqs \in Nat
  BY WorkerAssumption
<1>2. CASE Len(batch) + Len(queue) <= MaxNumSeqs
  <2>1. Len(queue) \in Room
    BY <1>1, <1>2 DEF Room
  <2>2. \A j \in Room : j <= Len(queue)
    BY <1>1 DEF Room
  <2> QED
    BY <2>1, <2>2
<1>3. CASE ~(Len(batch) + Len(queue) <= MaxNumSeqs)
  <2>1. MaxNumSeqs - Len(batch) \in Room
    BY <1>1, <1>3 DEF Room
  <2>2. \A j \in Room : j <= MaxNumSeqs - Len(batch)
    BY <1>1 DEF Room
  <2> QED
    BY <2>1, <2>2
<1> QED
  BY <1>2, <1>3

\* The lists of the client hold requests, and what was sent is of the batch; between two
\* batches nothing is.
Lists ==
  /\ queue \in Seq(Requests)
  /\ batch \in Seq(Requests)
  /\ Len(batch) <= MaxNumSeqs
  /\ sent \in Seq(ToSet(batch))
  /\ task = "get" => sent = <<>>

Marks ==
  /\ future \in [Requests -> {"unused", "pending"} \cup Resolved]
  /\ task \in {"get", "wait", "exchange", "hung", "ended"}
  /\ shut \in BOOLEAN

QInv == WInv /\ Lists /\ Marks

\* Lists hold what they are lists of.
LEMMA ListsOf ==
  ASSUME NEW R, NEW s \in Seq(R)
  PROVE  ToSet(s) \subseteq R
BY DEF ToSet

\* What is resolved is done or failed.
LEMMA ResolveMarks ==
  ASSUME Marks, NEW given, NEW rejected, Resolve(given, rejected)
  PROVE  future' \in [Requests -> {"unused", "pending"} \cup Resolved]
<1>1. ASSUME NEW r \in Requests
      PROVE  future'[r] \in {future[r], "done", "failed"}
  BY <1>1 DEF Resolve
<1>2. future' = [r \in Requests |-> future'[r]]
  BY DEF Resolve
<1>3. \A r \in Requests : future'[r] \in {"unused", "pending"} \cup Resolved
  BY <1>1 DEF Marks, Resolved
<1> QED
  BY <1>2, <1>3

LEMMA WorkerInitTypes == WorkerInit => QInv
<1> SUFFICES ASSUME WorkerInit PROVE QInv
  OBVIOUS
<1>1. WInv
  BY DEF WorkerInit, WInv, Futures, OwnResult
<1>2. Lists
  BY WorkerAssumption DEF WorkerInit, Lists
<1>3. Marks
  BY DEF WorkerInit, Marks
<1> QED
  BY <1>1, <1>2, <1>3 DEF QInv

\* A batch has at most as many requests as it may have, and those that are sent are of it.
LEMMA CollectLists ==
  ASSUME Lists, Collect
  PROVE  Lists'
<1> DEFINE Most(k) == k \in Room /\ \A j \in Room : j <= k
           more == CHOOSE k \in Room : \A j \in Room : j <= k
           taken == batch \o SubSeq(queue, 1, more)
<1>1. Most(more)
  <2>1. \E k \in Room : \A j \in Room : j <= k
    BY RoomHasMost DEF Lists
  <2> QED
    BY <2>1
<1>2. /\ queue' = SubSeq(queue, more + 1, Len(queue))
      /\ batch' = IF Active(taken) = <<>> THEN <<>> ELSE taken
      /\ sent' = Active(taken)
      /\ task' = IF Active(taken) = <<>> THEN "get" ELSE "exchange"
  BY DEF Collect
<1> HIDE DEF more
<1>3. more \in 0 .. Len(queue) /\ Len(batch) + more <= MaxNumSeqs
  BY <1>1 DEF Room
<1>4. SubSeq(queue, 1, more) \in Seq(Requests) /\ Len(SubSeq(queue, 1, more)) = more
  BY <1>3 DEF Lists
<1>5. taken \in Seq(Requests) /\ Len(taken) <= MaxNumSeqs
  BY <1>3, <1>4 DEF Lists
<1>6. queue' \in Seq(Requests)
  BY <1>2, <1>3 DEF Lists
<1> HIDE DEF taken
<1>7. Active(taken) \in Seq(ToSet(taken))
  BY <1>5, ActiveAre
<1>8. CASE Active(taken) = <<>>
  <2>1. batch' = <<>> /\ sent' = <<>>
    BY <1>2, <1>8
  <2> QED
    BY <1>6, <2>1, WorkerAssumption DEF Lists
<1>9. CASE Active(taken) # <<>>
  <2>1. batch' = taken /\ sent' = Active(taken) /\ task' = "exchange"
    BY <1>2, <1>9
  <2> QED
    BY <1>5, <1>6, <1>7, <2>1 DEF Lists
<1> QED
  BY <1>8, <1>9

LEMMA ListsStep ==
  ASSUME Lists, WorkerNext
  PROVE  Lists'
<1>1. ASSUME NEW c \in Callers, NEW n \in 1 .. MaxCalls, WorkerGenerate(c, n) PROVE Lists'
  <2>1. <<c, n>> \in Requests
    BY DEF Requests
  <2>2. queue' = Append(queue, <<c, n>>) /\ batch' = batch /\ sent' = sent
    BY <1>1 DEF WorkerGenerate
  <2>3. task' = task
    BY <1>1 DEF WorkerGenerate
  <2> QED
    BY <2>1, <2>2, <2>3 DEF Lists
<1>2. ASSUME NEW r \in Requests, Cancel(r) PROVE Lists'
  BY <1>2 DEF Cancel, Lists
<1>3. CASE Take
  <2>1. Head(queue) \in Requests /\ Tail(queue) \in Seq(Requests)
    BY <1>3 DEF Take, Lists
  <2>2. batch' = <<Head(queue)>> /\ queue' = Tail(queue) /\ sent' = <<>>
    BY <1>3 DEF Take, Lists
  <2> QED
    BY <2>1, <2>2, WorkerAssumption DEF Lists
<1>4. CASE Collect
  BY <1>4, CollectLists
<1>5. CASE Answer \/ Fail
  <2>1. queue' = queue /\ batch' = <<>> /\ sent' = <<>>
    BY <1>5 DEF Answer, Fail, NextBatch
  <2> QED
    BY <2>1, WorkerAssumption DEF Lists
<1>6. CASE Hang
  BY <1>6 DEF Hang, Lists
<1>7. CASE WorkerClose
  <2>1. queue' = <<>> /\ batch' = <<>> /\ sent' = <<>>
    BY <1>7 DEF WorkerClose
  <2> QED
    BY <2>1, WorkerAssumption DEF Lists
<1> QED
  BY <1>1, <1>2, <1>3, <1>4, <1>5, <1>6, <1>7 DEF WorkerNext, BatchStep

LEMMA MarksStep ==
  ASSUME Marks, WorkerNext
  PROVE  Marks'
<1>1. ASSUME NEW c \in Callers, NEW n \in 1 .. MaxCalls, WorkerGenerate(c, n) PROVE Marks'
  BY <1>1 DEF WorkerGenerate, Marks
<1>2. ASSUME NEW r \in Requests, Cancel(r) PROVE Marks'
  BY <1>2 DEF Cancel, Marks, Resolved
<1>3. CASE Take \/ Collect \/ Hang
  BY <1>3 DEF Take, Collect, Hang, Marks
<1>4. CASE Answer \/ Fail
  <2>1. \E given, rejected : Resolve(given, rejected)
    BY <1>4 DEF Answer, Fail
  <2>2. task' = "get" /\ shut' = shut
    BY <1>4 DEF Answer, Fail, NextBatch
  <2> QED
    BY <2>1, <2>2, ResolveMarks DEF Marks
<1>5. CASE WorkerClose
  <2>1. Resolve(<<>>, ToSet(queue)) /\ task' = "ended" /\ shut' = TRUE
    BY <1>5 DEF WorkerClose
  <2> QED
    BY <2>1, ResolveMarks DEF Marks
<1> QED
  BY <1>1, <1>2, <1>3, <1>4, <1>5 DEF WorkerNext, BatchStep

LEMMA WorkerStepTypes == QInv /\ [WorkerNext]_workerVars => QInv'
<1> SUFFICES ASSUME QInv, [WorkerNext]_workerVars PROVE QInv'
  OBVIOUS
<1>1. WInv'
  BY WorkerStepOwn DEF QInv
<1>2. CASE WorkerNext
  BY <1>1, <1>2, ListsStep, MarksStep DEF QInv
<1>3. CASE UNCHANGED workerVars
  BY <1>1, <1>3 DEF QInv, Lists, Marks, workerVars
<1> QED
  BY <1>2, <1>3

LEMMA WorkerTyped == QInv => WorkerTypeOK
<1> SUFFICES ASSUME QInv PROVE WorkerTypeOK
  OBVIOUS
<1>1. ToSet(queue) \subseteq Requests /\ ToSet(batch) \subseteq Requests
      /\ ToSet(sent) \subseteq ToSet(batch)
  BY ListsOf DEF QInv, Lists
<1>2. results \in [Requests -> SUBSET Requests]
  BY DEF QInv, WInv, Futures, OwnResult
<1> QED
  BY <1>1, <1>2 DEF QInv, Lists, Marks, WorkerTypeOK

\* For any callers, calls and batch sizes the client's lists hold requests, a batch has at
\* most MaxNumSeqs of them, and only what was taken is sent (process.py, _batch_loop).
THEOREM WorkerTypesHold == WorkerSpec => []WorkerTypeOK
<1> QED
  BY WorkerInitTypes, WorkerStepTypes, WorkerTyped, PTL DEF WorkerSpec

=============================================================================
