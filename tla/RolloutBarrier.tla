--------------------------- MODULE RolloutBarrier --------------------------
(***************************************************************************)
(* What a rollout service promises to whoever trains on its generations:   *)
(* a revision is published when no call is in flight, with later weights   *)
(* than the one before, and a generation is answered under the revision    *)
(* that is current, by those very weights.  Nothing is said of workers,    *)
(* locks, restarts or failures.                                            *)
(***************************************************************************)
EXTENDS Naturals

CONSTANTS
  Generators,   \* the tasks that generate
  Artifacts,    \* the exported weights: records with a version, which has a step
  Initial       \* the artifact the service was started with

Versions == {a.version : a \in Artifacts}

VARIABLES
  current,   \* the published revision
  inflight,  \* the tasks with a call in flight
  answer     \* the last answer: its revision and the weights that sampled it

barrier == <<current, inflight, answer>>

FirstRevision == [version |-> Initial.version, replica |-> 0]

Init ==
  /\ current = FirstRevision
  /\ inflight = {}
  /\ answer = [rev |-> FirstRevision, sampled |-> Initial.version]

Begin(g) ==
  /\ inflight' = inflight \cup {g}
  /\ UNCHANGED <<current, answer>>

Answer(g) ==
  /\ g \in inflight
  /\ inflight' = inflight \ {g}
  /\ answer' = [rev |-> current, sampled |-> current.version]
  /\ UNCHANGED current

Fail(g) ==
  /\ g \in inflight
  /\ inflight' = inflight \ {g}
  /\ UNCHANGED <<current, answer>>

Publish(v) ==
  /\ inflight = {}
  /\ v.step > current.version.step
  /\ current' = [version |-> v, replica |-> current.replica + 1]
  /\ UNCHANGED <<inflight, answer>>

Next ==
  \/ \E g \in Generators : Begin(g) \/ Answer(g) \/ Fail(g)
  \/ \E v \in Versions : Publish(v)

Spec == Init /\ [][Next]_barrier

=============================================================================
