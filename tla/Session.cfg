CONSTANTS
  Peers = {p1}
  Devices = {d1}
  Primary = d1
  Msgs = {m1, m2}
  None = None
  Faults = TRUE
  MaxInbox = 3
SPECIFICATION FairSpec
INVARIANTS SessionInv ResponseExpected SentAtMostOnce
PROPERTY EventuallySent
CHECK_DEADLOCK FALSE
