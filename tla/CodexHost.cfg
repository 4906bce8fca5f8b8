CONSTANTS
  h1 = h1
  h2 = h2
  s1 = s1
  s2 = s2
  Handlers = {h1, h2}
  Sessions = {s1, s2}
  NoThread = NoThread
  Nobody = Nobody
  MaxRequests = 3
  MaxFaults = 1
  MaxEmpty = 1
SPECIFICATION FairSpec
INVARIANTS
  BoundThreadsAreCurrent
  OneServer
PROPERTIES
  OncePerServer
  RequestEnds
CHECK_DEADLOCK FALSE
