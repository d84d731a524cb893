\* Three callers, two calls each, batches of three. When the worker is closed, or its callers
\* made all their calls, nothing is left to do.
SPECIFICATION FairWorkerSpec
CONSTANTS
  Callers = {c1, c2, c3}
  MaxCalls = 2
  MaxNumSeqs = 3
CHECK_DEADLOCK FALSE
INVARIANTS
  WorkerTypeOK
  OwnResult
PROPERTIES
  CallsAnswered
