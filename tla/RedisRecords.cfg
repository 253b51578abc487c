SPECIFICATION Spec
CONSTANTS
  j1 = j1
  j2 = j2
  k1 = k1
  w1 = w1
  c1 = c1
  NoJob = NoJob
  NoKey = NoKey
  NoWorker = NoWorker
  Jobs = {j1, j2}
  Keys = {k1}
  Workers = {w1}
  Cancellers = {c1}
  Callers = {j1, j2, w1, c1}
  MaxFaults = 2
  MaxEarly = 0
SYMMETRY Symmetry
INVARIANTS
  TypeOK
  OneAcceptedPerKey
  AcceptedOnRecord
  KeysFollowJobs
  NoStrandedJob
CHECK_DEADLOCK FALSE
