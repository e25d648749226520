SPECIFICATION Spec
CONSTANTS
  Bits = 2
  Small = 2
  MaxEvents = 2
  NULL = NULL
  Tables <- MCTables
INVARIANTS RedisGetsRow
CHECK_DEADLOCK FALSE
