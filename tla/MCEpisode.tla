----------------------------- MODULE MCEpisode -----------------------------
(* Small instances of WideSeekEpisode for TLC. *)
EXTENDS WideSeekEpisode, TLC

\* Three rounds, up to two concurrent Subs with two turns, one tool call at a time.
Delegating ==
  [concurrency |-> 1, mainRounds |-> 3, subTurns |-> 2, spawnPerRound |-> 2,
   spawnPerEpisode |-> 2, toolsPerTurn |-> 1, mainRepairs |-> 1, subRepairs |-> 0]

\* One Sub whose turns make two tool calls, and which may repair a turn.
Searching ==
  [concurrency |-> 1, mainRounds |-> 2, subTurns |-> 2, spawnPerRound |-> 1,
   spawnPerEpisode |-> 1, toolsPerTurn |-> 2, mainRepairs |-> 1, subRepairs |-> 1]

MCProfiles == {Delegating, Searching}

=============================================================================
