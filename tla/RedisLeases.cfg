SPECIFICATION FairSpec
CONSTANTS
  j1 = j1
  j2 = j2
  w1 = w1
  w2 = w2
  NoLease = NoLease
  Jobs = {j1, j2}
  Workers = {w1, w2}
  Capacity = 2
  BatchLimit = 2
  MaxFaults = 1
  MaxCopies = 2
PROPERTIES
  LossNeedsFaultInTransit
  LeaseKept
  Recovered
  ImplementsAtLeastOnce
