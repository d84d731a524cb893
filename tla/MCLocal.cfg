\* A shared policy, then Main and Sub forked from it by another process; one update of each
\* kind, and one call that fails half way or one damaged file. The processes are bounded.
SPECIFICATION Spec
CONSTANTS
  shared = shared  main = main  sub = sub
  b1 = b1  l1 = l1
  Policies = {shared, main, sub}
  Topologies = {{shared}, {main, sub}}
  Batches = {b1}
  Lessons = {l1}
  MaxSteps = 2
  MaxFaults = 1
  MaxLaunches = 2
  MaxCheckpoints = 4
  MaxArtifacts = 1
INVARIANT NamesWhatItHolds
PROPERTY ContractKept
CHECK_DEADLOCK FALSE
