SPECIFICATION FairSpec
CONSTANTS
  a1 = a1
  a2 = a2
  c1 = c1
  Loop = Loop
  Messages = {a1, a2, c1}
  LlmInbox <- MCLlmInbox
  SheriffInbox <- MCSheriffInbox
  Mirrored = {"sheriff"}
  MaxFaults = 1
PROPERTY
  PollingGoesOn
CHECK_DEADLOCK FALSE
