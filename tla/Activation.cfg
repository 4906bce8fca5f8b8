SPECIFICATION ActivationSpec
CONSTANTS
  ann = ann
  bob = bob
  nobody = nobody
  Users = {ann, bob}
  Nobody = nobody
  Chats = {1}
  MaxMessages = 3
  MaxOnboardings = 1
SYMMETRY UserSymmetry
INVARIANTS
  BoundHasTyped
  ChannelIsBound
CHECK_DEADLOCK FALSE
