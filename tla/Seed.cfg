CONSTANTS
  Groups <- MCGroups
  MAX_SEED_ADDRS = 2
  MAX_SEED_LEN = 28
  MAX_GROUP_LEN = 2
  MAX_ADDR_LEN = 7
  MaxListeners = 3
  MaxEdits = 1
SPECIFICATION Spec
INVARIANTS
  AnyMachineCanShare
  TextSaysWhatWasSent
  DecodeIsSound
\* A text that is refused goes no further.
CHECK_DEADLOCK FALSE
