\* The server may stop writing for good, and a failed thread ends.
SPECIFICATION FairSpec
CONSTANTS
  HeaderLen = 2
  BufSize = 4
  Events <- MCEvents
  StickyEof = FALSE
  MaxFiles = 3
  MaxEvents = 2
INVARIANT Aligned
PROPERTIES TailReadUnlessGrown CatchesUp
CHECK_DEADLOCK FALSE
