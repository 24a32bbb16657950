CONSTANTS
  BundleSize = 2
  Faults = TRUE
  Peers = {p1}
  Identities = {i1, i2}
  NoKey = NoKey
  MaxTalks = 2
  MaxLetters = 3
SPECIFICATION Spec
SYMMETRY Symmetry
INVARIANTS StoresInv SessionsPinned LettersReadable ReadOnce
CHECK_DEADLOCK FALSE
