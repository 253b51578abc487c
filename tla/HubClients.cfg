SPECIFICATION FairSpec
CHECK_DEADLOCK FALSE
CONSTANTS
  w1 = w1
  w2 = w2
  c1 = c1
  Writers = {w1, w2}
  Clients = {c1}
  SendBuffer = 2
  MaxVersion = 4
INVARIANTS
  LatestIsOffered
PROPERTIES
  ChangeReturns
  LeavesOnClose
