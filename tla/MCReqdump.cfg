SPECIFICATION FairSpec
CONSTANTS
  NumSlots = 2
  MaxSessions = 3
  MaxReloads = 1
INVARIANTS SlotsPartition RunsOnOwn
PROPERTIES MutexReleasedUnlessCancelled SlotComesBack
CHECK_DEADLOCK FALSE
CONSTRAINTS Clean Small
