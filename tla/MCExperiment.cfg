\* One shared and two independent cycles, three invocations, one report damaged. The
\* invocations are bounded, and a run may end for good.
SPECIFICATION Spec
CONSTANTS
  SharedCycles = 1
  IndependentCycles = 2
  Configs = {c1, c2}
  Contracts = {e1, e2}
  Evaluators = {v1, v2}
  NoState = NoState
  MaxLaunches = 3
  MaxDamages = 1
SYMMETRY Symmetric
CHECK_DEADLOCK FALSE
INVARIANTS
  TypeOK
  NeverAdopted
  Comparable
PROPERTY
  RunTrusted
