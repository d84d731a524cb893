SPECIFICATION Spec
CONSTANTS
  t1 = t1
  k1 = k1  k2 = k2
  main = main  s1 = s1  s2 = s2
  Tasks = {t1}
  Rollouts = 2
  Phases <- OnePhase
  Keys = {k1, k2}
  References = {k1}
  Shapes <- LoneShape
  Main = main
  FailedOutcome <- MinusOne
  MaxConcurrency = 1
  MaxRequests = 3
  MaxAttempts = 1
  Scale = 12
  MaxFaults = 0
INVARIANT ScoresInRange
CHECK_DEADLOCK FALSE
