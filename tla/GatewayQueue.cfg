SPECIFICATION FairSpec
CONSTANTS
  a1 = a1
  a2 = a2
  b1 = b1
  alice = alice
  bob = bob
  topic = topic
  Messages = {a1, a2, b1}
  Principals = {alice, bob}
  Sessions = {topic}
  PrincipalOf <- MCPrincipalOf
  SessionOf <- MCSessionOf
  MaxPolls = 1
  MaxUpdates = 2
  MaxRestarts = 1
INVARIANTS
  TurnAtHead
  BusyExactlyDuringTurn
  NoLostWakeup
  UpdateQuiescent
  JournalInArrivalOrder
PROPERTIES
  ImplementsSerialTurns
  EveryMessageEnds
CHECK_DEADLOCK FALSE
