SPECIFICATION FairSpec
CONSTANTS
  t1 = t1
  t2 = t2
  i1 = i1
  i2 = i2
  NoImage = NoImage
  Threads <- MCThreads
  Images <- MCImages
  RetryInterval = 3
  MaxSkipped = 8
  BlockIncompatible = TRUE
INVARIANTS
  TypeOK
  MapsMatchDriver
  NoForeignBytes
  SkipsBounded
PROPERTY RetryEventually
