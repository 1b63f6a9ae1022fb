CONSTANTS
  s1 = s1
  s2 = s2
  s3 = s3
  c1 = c1
  c2 = c2
  Sessions <- MCSessions
  Ids <- MCIds
  IdOf <- MCIdOf
  Senders = {k1, k2}
  MaxSize = 1
  MaxErrors = 0
  None = None

SPECIFICATION LiveSpec
CHECK_DEADLOCK FALSE

INVARIANTS
  TypeOK
  OverfullOnlyByOverlap
  CountersAddUp
  KeptUnlessShared
  OnlyStragglersOutliveShutdown

PROPERTY
  WaitersGoOn
