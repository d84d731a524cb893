\* Two policies, two alternating cycles, two injected faults; an update computed again
\* may differ.
SPECIFICATION Spec
CONSTANTS
  MainPolicy = main
  SubPolicy = sub
  TrainableRoles <- BothRoles
  Batches = {b1}
  Empty = empty
  Noise = {n1, n2}
  MaxCycle = 2
  MaxFaults = 2
  MaxRecoveries = 1
  MaxDeployments = 9
SYMMETRY Symmetric
INVARIANTS
  TypeOK
  RecordsSound
  FreshSub
  RecoverySound
PROPERTY
  AbstractionsImplemented
