CONSTANTS
  k1 = k1  k2 = k2  k3 = k3
  Keys = {k1, k2, k3}
  Guarded = {k1}
  Callers = {1, 2, 3}
  NoKey = NoKey
  MaxEntries = 2
  Ttl = 1
  MaxVersion = 2
SPECIFICATION FairSpec
INVARIANTS
  TypeOK
  StoreBounded
  OneProducer
PROPERTIES
  NeverOlder
  ExpiredGoFirst
  Served
CHECK_DEADLOCK FALSE
