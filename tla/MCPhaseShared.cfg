\* One shared policy whose batches differ from attempt to attempt, and so do two
\* computations of an update; one cycle, three faults, a repeated recovery.
SPECIFICATION FairSpec
CONSTANTS
  MainPolicy = main
  SubPolicy = main
  TrainableRoles <- BothRoles
  Batches = {b1, b2}
  Empty = empty
  Noise = {n1, n2}
  MaxCycle = 1
  MaxFaults = 3
  MaxRecoveries = 1
  MaxDeployments = 9
INVARIANT
  AppliedOnce
PROPERTY
  PersistedCommits
