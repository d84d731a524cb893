\* Two rollouts over one trainable orchestrator, two Subs each, two at a time, or a pilot of
\* two episodes. What ended stops: a run that stops anywhere else violates RunsEnd.
SPECIFICATION PilotSpec
CONSTANTS
  Episodes = {1, 2}
  Alone = 1
  MaxSpawn = 2
  Repairs = 1
  Capacity = 2
  Pilots <- MCPilots
  JudgeRepairs = 1
  MaxAttempts = 2
CHECK_DEADLOCK FALSE
INVARIANTS
  PilotTypes
  TraceComplete
  LedgerHolds
  PilotAccounts
PROPERTY
  RunsEnd
