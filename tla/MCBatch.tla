------------------------------- MODULE MCBatch -------------------------------
(* Instances of RewardedBatch for TLC. *)
EXTENDS RewardedBatch, TLC

CONSTANTS k1, k2, main, s1, s2

\* Two steps of Main, three of two Subs; a spawn cost of a twelfth.
LoneShape == {[steps |-> (main :> 2 @@ s1 :> 1 @@ s2 :> 2), extra |-> -1]}

Alternating == <<"main_update", "sub_update">>

OnePhase == <<"main_update">>

MinusOne == -12

=============================================================================
