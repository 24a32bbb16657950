SPECIFICATION FairSpec
CONSTANTS
  EmptyDenimChunkSize = 12
  EmptyVecSize = 8
  UsizeBits = 16
  QNum = 1
  QDen = 10
  Sizes = {200, 220, 350}
  Lengths = {1, 5}
  Budgets <- MessageBudgets
  Faults = {"sendfail", "dequeue", "lost", "crash"}
  MaxPayloads = 2
  MaxNet = 2
  MaxSkip = 1
INVARIANTS DownlinkInv SizeIndependentOfBuffer WholeIfNoneLost
PROPERTIES ImplementsChannel EventuallyProcessed
