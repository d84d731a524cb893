\* Two sets of limits. An episode that ended stops: a run that stops anywhere else violates
\* EpisodeEnds.
SPECIFICATION FairSpec
CONSTANTS
  Urls = {"u"}
  Profiles <- MCProfiles
CHECK_DEADLOCK FALSE
INVARIANTS
  TypeOK
  TraceSound
  LimitsKept
PROPERTY
  EpisodeEnds
