\* Two files, one of them of two blocks; two attempts per endpoint, three faults. Five tasks,
\* one of them overlong and one held out.
SPECIFICATION WarmSpec
CONSTANTS
  NumFiles = 2
  Size <- MCSize
  AttemptsPerEndpoint = 2
  Plans <- MCPlans
  MaxFaults = 3
  DataFile = 1
  Facts <- MCFacts
  Overlong = {4}
  HeldOut = {5}
  MaxWorkers = 4
  Requests <- MCRequests
  NoRequest = NoRequest
INVARIANTS
  TypesOK
  ReportsVerified
  CleanResume
  TaughtAsAsked
PROPERTY
  Heals
