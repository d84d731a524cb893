SPECIFICATION FairSpec
CONSTANTS
  k1 = k1  k2 = k2
  main = main  s1 = s1  s2 = s2
  t1 = t1
  Tasks = {t1}
  Rollouts = 2
  Phases <- Alternating
  Keys = {k1, k2}
  References = {k1}
  Shapes <- LoneShape
  Main = main
  FailedOutcome <- MinusOne
  MaxConcurrency = 1
  MaxRequests = 3
  MaxAttempts = 2
  Scale = 12
  MaxFaults = 1
INVARIANTS TypeOK OneScorePerAnswer BatchBalanced
PROPERTY NothingHangs
CHECK_DEADLOCK FALSE
