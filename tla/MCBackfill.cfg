CONSTANTS
  NRows = 3
  Created <- MCCreated
  MaxTime = 3
  CatchupBatch = 2
  BackfillBatch = 1
SPECIFICATION FairSpec
INVARIANTS
  TypeOK
  NoRowSkipped
  ExploreAfterCatchup
PROPERTIES
  BlipsNeverKill
  KeepsPromise
  WalkEnds
CHECK_DEADLOCK FALSE
