SPECIFICATION FairSpec
CONSTANTS
  Num = 3
  Width = 7
  Items = {a, b}
  Hole = Hole
INVARIANTS TypeOK RingInv
PROPERTIES StableWhileRead ImplementsFifo WaitingIsRead
