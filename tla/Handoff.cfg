SPECIFICATION Spec
CONSTANTS
  j1 = j1
  j2 = j2
  k1 = k1
  w1 = w1
  w2 = w2
  c1 = c1
  NoJob = NoJob
  NoKey = NoKey
  NoWorker = NoWorker
  Jobs = {j1, j2}
  Keys = {k1}
  Workers = {w1, w2}
  Cancellers = {c1}
  QueueSize = 0
  RenderMaxRetries = 0
  RequireIdempotencyKey = TRUE
  DefaultWebhookURL = "none"
  Callbacks = {"none", "valid", "invalid"}
  MaxInvalid = 1
  MaxSignals = 1
SYMMETRY Symmetry
INVARIANTS
  OneJobPerKey
PROPERTIES
  ImplementsJobService
