SPECIFICATION Spec
CONSTANTS
  p = p
  q = q
  none = none
  torn = torn
  Passwords = {p, q}
  None = none
  Torn = torn
  Keys = {"identity", "llm_provider"}
  Settings = {"llm_provider"}
  Entries = {"one", "other", "third"}
  MaxFaults = 2
INVARIANTS
  TypeOK
  OpenReadsAll
  LockHolds
  
PROPERTY
  ImplementsVault
