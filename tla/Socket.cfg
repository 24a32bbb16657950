CONSTANTS
  Capacity = 2
  MaxSends = 2
  MaxPushed = 3
  Faults = TRUE
SPECIFICATION FairSpec
INVARIANTS SocketInv AnswersOwnRequest
PROPERTY SendReturns
CHECK_DEADLOCK FALSE
