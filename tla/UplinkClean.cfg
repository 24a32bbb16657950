SPECIFICATION MCFairSpec
CONSTANTS
  EmptyDenimChunkSize = 12
  EmptyVecSize = 8
  UsizeBits = 16
  QNum = 1
  QDen = 10
  Sizes = {200, 220, 340}
  Accounts = {a1, a2}
  Lengths = {1, 3, 5}
  Budgets <- MessageBudgets
  PageSize = 8
  Faults = {}
  MaxPayloads = 3
  MaxParts = 2
INVARIANTS TypeOK SizeIndependentOfBuffer FlushLeavesNoPayload
PROPERTIES ImplementsChannel EventuallyRouted
