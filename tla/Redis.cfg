SPECIFICATION RedisSpec
CONSTANTS
  Queues <- MCQueues
  Uses <- MCUses
  Writers <- MCWriters
  PageSize = 2
  Length = 2
  MaxInserts <- MCMaxInserts
  Amounts = {1, 2}
  Failures = {"cut"}
INVARIANTS RedisInv QueueIntact NotSentAgain TakenInOrder
CHECK_DEADLOCK FALSE
