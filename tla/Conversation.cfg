SPECIFICATION Spec
CONSTANTS
  MaxMessages = 3
  MaxFaults = 1
INVARIANTS
  ExactHistory
  OneAnswer
  PromptNeedsVault
CHECK_DEADLOCK FALSE
