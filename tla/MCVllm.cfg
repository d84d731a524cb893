\* Two generating tasks, two synchronizing ones and a close.
SPECIFICATION FairSpec
CONSTANTS
  Generators = {g1, g2}
  Syncers = {s1, s2}
  Closers = {c1}
  Artifacts <- SomeArtifacts
  Initial <- Start
  BadDigest = "bad"
  Ids = {i1, i2, i3, i4}
  FirstId = i1
  None = none
  MaxLeaks = 1
INVARIANTS
  TypeOK
  ServesPublished
  NotUnderCalls
  WorkersAccounted
PROPERTIES
  BarrierImplemented
  CallsReturn
