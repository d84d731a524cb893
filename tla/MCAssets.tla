------------------------------- MODULE MCAssets -------------------------------
(* Instances of AssetPreparation and WarmStart for TLC. *)
EXTENDS WarmStart

MCSize == <<1, 2>>

MCPlans == {<<>>, <<"official">>, <<"mirror">>, <<"official", "mirror">>}

\* Tables of five and of three rows, a single fact, an overlong table and a held-out one.
MCFacts == <<5, 3, 1, 2, 2>>

Asked(tasks, limit, isolate, evaluate, perStep, epochs) ==
  [tasks |-> tasks, limit |-> limit, isolate |-> isolate, evaluate |-> evaluate,
   perStep |-> perStep, epochs |-> epochs]

\* Two are refused: there are not so many tasks left, or one of them is held out.
MCRequests ==
  {Asked(<<>>, 3, TRUE, FALSE, 2, 1),
   Asked(<<>>, 4, FALSE, TRUE, 0, 1),
   Asked(<<>>, 2, FALSE, TRUE, 1, 2),
   Asked(<<1, 5>>, 1, FALSE, FALSE, 0, 1),
   Asked(<<1, 5>>, 1, TRUE, FALSE, 0, 1)}

=============================================================================
