SPECIFICATION FairSpec
CONSTANTS
  Faults = {"break", "delete", "persister", "expiry"}
  MaxMsgs = 2
INVARIANTS DeliveryInv WrittenOnceInOrder
PROPERTY CacheDrains
