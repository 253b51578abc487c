SPECIFICATION Spec
CONSTANTS
  j1 = j1
  j2 = j2
  k1 = k1
  w1 = w1
  w2 = w2
  c1 = c1
  NoJob = NoJob
  NoKey = NoKey
  NoWorker = NoWorker
  Jobs = {j1, j2}
  Keys = {k1}
  Workers = {w1, w2}
  Cancellers = {c1}
  QueueSize = 1
  RenderMaxRetries = 0
  RequireIdempotencyKey = FALSE
  DefaultWebhookURL = "valid"
  Callbacks = {"none"}
  MaxInvalid = 0
  MaxSignals = 0
SYMMETRY Symmetry
INVARIANTS
  TypeOK
  CompletedHasPDF
  HeldOnce
  NoStrandedJob
  AcceptedKeepsRecord
  RejectedLeavesNoTrace
  RenderIsCancelable
  WebhookAgrees
  FinishedWithinAccepted
PROPERTIES
  CancelSettles
  OutcomeIsFinal
