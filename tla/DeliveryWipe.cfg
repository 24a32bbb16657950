SPECIFICATION Spec
CONSTANTS
  Faults = {}
  MaxMsgs = 2
INVARIANT NothingLost
