SPECIFICATION Spec
CONSTANTS
  j1 = j1
  k1 = k1
  w1 = w1
  w2 = w2
  c1 = c1
  NoJob = NoJob
  NoKey = NoKey
  NoWorker = NoWorker
  Jobs = {j1}
  Keys = {k1}
  Workers = {w1, w2}
  Cancellers = {c1}
  Callers = {j1, w1, w2, c1}
  MaxFaults = 1
  MaxEarly = 1
SYMMETRY Symmetry
INVARIANTS
  RegistryServesRender
  NoStrandedJob
  CompletedHasPDF
PROPERTIES
  CancelSettles
  OutcomeIsFinal
CHECK_DEADLOCK FALSE
