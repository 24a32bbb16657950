SPECIFICATION MCSpec
CONSTANTS
  EmptyDenimChunkSize = 12
  EmptyVecSize = 8
  UsizeBits = 16
  QNum = 1
  QDen = 10
  Sizes = {220, 380}
  Accounts = {a1}
  Lengths = {5}
  Budgets <- MessageBudgets
  PageSize = 3
  Faults = {"crash", "lagged", "disconnect", "reject", "error", "abort", "unroutable"}
  MaxPayloads = 2
  MaxParts = 1
INVARIANTS UplinkInv AssemblesNextPayload LossesKeepOrder
