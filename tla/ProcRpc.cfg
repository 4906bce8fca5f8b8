SPECIFICATION FairSpec
CONSTANTS
  t1 = t1
  t2 = t2
  Nobody = Nobody
  Callers = {t1, t2}
  MaxRequests = 3
  MaxConns = 2
  MaxEvents = 1
  MaxCrashes = 1
PROPERTIES
  ImplementsAtomicRpc
  PoisonedUntilReplaced
  CallEnds
CHECK_DEADLOCK FALSE
