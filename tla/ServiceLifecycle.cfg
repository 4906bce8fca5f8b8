SPECIFICATION Spec
CONSTANTS
  none = none
  Order <- MCOrder
  Ported = {"gate"}
  Gate = "gate"
  Pids = {1, 2, 3}
  NoPid = none
  Ctls = {11, 12}
  MaxCommands = 3
  MaxFaults = 2
INVARIANTS
  OneProcess
  OldAreGone
  StartedIsUp
  OnboardedIsUp
  OneRemoteUpdate
CHECK_DEADLOCK FALSE
