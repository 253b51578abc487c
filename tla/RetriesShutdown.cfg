SPECIFICATION FairSpec
CONSTANTS
  j1 = j1
  j2 = j2
  w1 = w1
  c1 = c1
  NoJob = NoJob
  NoKey = NoKey
  NoWorker = NoWorker
  Jobs = {j1, j2}
  Keys = {}
  Workers = {w1}
  Cancellers = {c1}
  QueueSize = 2
  RenderMaxRetries = 1
  RequireIdempotencyKey = FALSE
  DefaultWebhookURL = "none"
  Callbacks = {"none"}
  MaxInvalid = 0
  MaxSignals = 1
INVARIANTS
  IInv
PROPERTIES
  ImplementsJobService
  AcceptedTerminates
  PoolStops
