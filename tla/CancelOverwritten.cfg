SPECIFICATION Spec
CONSTANTS
  j1 = j1
  w1 = w1
  c1 = c1
  NoJob = NoJob
  NoKey = NoKey
  NoWorker = NoWorker
  Jobs = {j1}
  Keys = {}
  Workers = {w1}
  Cancellers = {c1}
  QueueSize = 1
  RenderMaxRetries = 0
  RequireIdempotencyKey = FALSE
  DefaultWebhookURL = "none"
  Callbacks = {"none"}
  MaxInvalid = 0
  MaxSignals = 0
SYMMETRY Symmetry
PROPERTIES
  CanceledStaysCanceled
