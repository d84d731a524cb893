-------------------------- MODULE TrainingBackend --------------------------
(***************************************************************************)
(* What the coordinator, the transactions and the commands rely on in a    *)
(* training backend, with no adapter, directory or cache in sight: every   *)
(* policy is at a version; an update is one step from it, taken once for   *)
(* its id, and has a checkpoint when it returns; a synchronization serves  *)
(* the version the policy is at; a policy is restored to what has a        *)
(* checkpoint that is whole; policies on which a call failed half way are  *)
(* not used by the callers until they are restored, and no other is        *)
(* touched.                                                                *)
(***************************************************************************)
CONSTANTS
  Policies,
  Ids,            \* what identifies an update
  Given,          \* the checkpoints there are before the first process
  Fresh(_),       \* the weights a new process draws for a policy
  StepsOf(_, _)   \* the weights one step for an id may make of others

VARIABLES
  running,   \* the policies of the running process
  version,   \* per policy: the weights it is at
  broken,    \* policies on which a call has failed half way, as the callers know
  served,    \* per policy: the weights that answer generations
  stepped,   \* the ids of the updates of this process
  saved,     \* checkpoints
  lost,      \* those that are not whole
  exported   \* what was handed to another rollout service

contract == <<running, version, broken, served, stepped, saved, lost, exported>>

Copy(p, w) == [policy |-> p, weights |-> w]

Whole == saved \ lost

Usable == running \ broken

AllFresh == [p \in Policies |-> Fresh(p)]

Init ==
  /\ running = {}
  /\ version = AllFresh
  /\ broken = {}
  /\ served = AllFresh
  /\ stepped = {}
  /\ saved = Given
  /\ lost = {}
  /\ exported = {}

\* The checkpoints some of the policies may be loaded from.
Loads(P) ==
  {load \in UNION {[D -> Whole] : D \in SUBSET P} :
     \A p \in DOMAIN load : load[p].policy = p}

\* A policy starts with what the process drew for it, which may be saved, or is loaded from a
\* checkpoint, which may be served.
Begin(P) ==
  /\ running = {}
  /\ running' = P
  /\ \E drawn \in SUBSET P :
       saved' = saved \cup {Copy(p, Fresh(p)) : p \in drawn}
  /\ \E load \in Loads(P), behind \in SUBSET Policies :
       /\ version' = [p \in Policies |-> IF p \in DOMAIN load THEN load[p].weights
                                                              ELSE Fresh(p)]
       /\ served' = [p \in Policies |-> IF p \in behind THEN Fresh(p) ELSE version'[p]]
  /\ UNCHANGED <<broken, stepped, lost, exported>>

\* Nothing outlives the process but what is on disk.
End ==
  /\ running # {}
  /\ running' = {}
  /\ version' = AllFresh
  /\ broken' = {}
  /\ served' = AllFresh
  /\ stepped' = {}
  /\ UNCHANGED <<saved, lost, exported>>

\* A checkpoint of the same weights that is there already is kept, whole or not.
Step(p, id) ==
  /\ p \in Usable
  /\ id \notin stepped
  /\ \E w \in StepsOf(version[p], id) :
       /\ version' = [version EXCEPT ![p] = w]
       /\ saved' = saved \cup {Copy(p, w)}
  /\ stepped' = stepped \cup {id}
  /\ UNCHANGED <<running, broken, served, lost, exported>>

Serve(p) ==
  /\ p \in Usable
  /\ served' = [served EXCEPT ![p] = version[p]]
  /\ UNCHANGED <<running, version, broken, stepped, saved, lost, exported>>

Export(p) ==
  /\ p \in Usable
  /\ Copy(p, version[p]) \in Whole
  /\ exported' = exported \cup {Copy(p, version[p])}
  /\ UNCHANGED <<running, version, broken, served, stepped, saved, lost>>

\* Ids stay remembered, and what is served stays.
Restore(c) ==
  /\ c.policy \in running
  /\ version' = [version EXCEPT ![c.policy] = c.weights]
  /\ broken' = broken \ {c.policy}
  /\ UNCHANGED <<running, served, stepped, saved, lost, exported>>

\* Policies are put at the weights of another one.
Fork(c, P) ==
  /\ P \subseteq Usable \ {c.policy}
  /\ version' = [p \in Policies |-> IF p \in P THEN c.weights ELSE version[p]]
  /\ saved' = saved \cup {Copy(p, c.weights) : p \in P}
  /\ UNCHANGED <<running, broken, served, stepped, lost, exported>>

\* A call fails half way: nothing is certain of P but that it is broken; a fork may have
\* saved some of its copies.
Break(P) ==
  /\ P \subseteq running /\ P # {}
  /\ broken' = broken \cup P
  /\ \/ saved' = saved
     \/ \E c \in Whole, done \in SUBSET P :
          saved' = saved \cup {Copy(p, c.weights) : p \in done}
  /\ UNCHANGED <<running, version, served, stepped, lost, exported>>

\* A checkpoint is damaged.
Lose(c) ==
  /\ lost' = lost \cup {c}
  /\ UNCHANGED <<running, version, broken, served, stepped, saved, exported>>

Next ==
  \/ \E P \in SUBSET Policies : Begin(P)
  \/ End
  \/ \E p \in running :
       \/ Serve(p)
       \/ Export(p)
       \/ \E id \in Ids : Step(p, id)
  \/ \E c \in Whole : Restore(c)
  \/ \E c \in Whole, P \in SUBSET running : Fork(c, P)
  \/ \E P \in SUBSET running : Break(P)
  \/ \E c \in saved : Lose(c)

Spec == Init /\ [][Next]_contract

-----------------------------------------------------------------------------
\* Weights that are trained, answer generations or were handed out can be had again: they
\* were drawn, or a checkpoint of them was saved.
Backed ==
  /\ \A p \in running :
       /\ version[p] = Fresh(p) \/ Copy(p, version[p]) \in saved
       /\ served[p] = Fresh(p) \/ Copy(p, served[p]) \in saved
  /\ exported \subseteq saved

=============================================================================
