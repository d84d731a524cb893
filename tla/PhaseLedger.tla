---------------------------- MODULE PhaseLedger ----------------------------
(***************************************************************************)
(* What the phase manifests promise, with no process, crash or record in   *)
(* sight: the phases of the experiment are committed one after the other,  *)
(* Main before Sub and cycle after cycle; each advances the public weights *)
(* of its target by exactly one optimizer step, a Sub phase without        *)
(* samples by none.                                                        *)
(***************************************************************************)
EXTENDS TrainingPhases

VARIABLES
  public,  \* per policy: the weights of its latest manifest
  done     \* the committed transactions

ledger == <<public, done>>

Init ==
  /\ public = [p \in Policies |-> Start(p)]
  /\ done = {}

CycleDone(c) == \A ph \in CyclePhases : TxOf(c, ph) \in done

\* t is the next phase of the alternating schedule.
Due(t) ==
  /\ t.phase \in CyclePhases
  /\ t \notin done
  /\ \A c \in Cycles : c < t.cycle => CycleDone(c)
  /\ t.phase = "sub_update" /\ "main_update" \in CyclePhases
       => TxOf(t.cycle, "main_update") \in done

CommitUpdate(t) ==
  /\ Due(t)
  /\ \E b \in Batches, n \in Noise :
       public' = [public EXCEPT ![TargetOf(t.phase)] = Applied(@, t, b, n)]
  /\ done' = done \cup {t}

CommitEmpty(t) ==
  /\ Due(t)
  /\ t.phase = "sub_update"
  /\ done' = done \cup {t}
  /\ UNCHANGED public

Next == \E t \in Tx : CommitUpdate(t) \/ CommitEmpty(t)

Spec == Init /\ [][Next]_ledger

=============================================================================
