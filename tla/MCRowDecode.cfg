SPECIFICATION Spec
CONSTANTS
  Bits = 2
  Small = 2
  MaxEvents = 2
  NULL = NULL
  Tables <- MCTables
INVARIANTS RowsDecodedUnlessSlip StringsReturned
CHECK_DEADLOCK FALSE
