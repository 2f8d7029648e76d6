CONSTANTS
  NAuthors = 2
  Savers = {"stream"}
  Sweeper = "sweep"
  Ttl = 2
  MaxWait = 1
  PageSize = 1
  MaxChanges = 1
  MaxFaults = 1
SPECIFICATION FairSpec
INVARIANTS
  TypeOK
  VerdictNotStale
  SweepIsComplete
PROPERTIES
  ListedArePurged
CHECK_DEADLOCK FALSE
