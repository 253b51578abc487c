SPECIFICATION Spec
CONSTANTS
  j1 = j1
  j2 = j2
  j3 = j3
  k1 = k1
  w1 = w1
  NoJob = NoJob
  NoKey = NoKey
  NoWorker = NoWorker
  Jobs = {j1, j2, j3}
  Keys = {k1}
  Workers = {w1}
  Cancellers = {}
  QueueSize = 1
  RenderMaxRetries = 0
  RequireIdempotencyKey = FALSE
  DefaultWebhookURL = "none"
  Callbacks = {"none"}
  MaxInvalid = 0
  MaxSignals = 0
SYMMETRY Symmetry
INVARIANTS
  AcknowledgedJobExists
