SPECIFICATION PutSpec
CONSTANTS
  Phones = {p1}
  Handlers = {h1, h2}
  Faults = TRUE
  MaxAccounts = 2
  MaxTokens = 2
  MaxUnnamed = 1
SYMMETRY Symmetry
INVARIANTS AccountsInv TokenOnce PutExact
CHECK_DEADLOCK FALSE
