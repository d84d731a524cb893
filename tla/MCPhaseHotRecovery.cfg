\* Recovery in a live process whose backend still remembers revisions.
SPECIFICATION Spec
CONSTANTS
  MainPolicy = main
  SubPolicy = sub
  TrainableRoles <- BothRoles
  Batches = {b1}
  Empty = empty
  Noise = {n1}
  MaxCycle = 2
  MaxFaults = 1
  MaxRecoveries = 1
  MaxDeployments = 9
INVARIANTS
  RecoveredServed
