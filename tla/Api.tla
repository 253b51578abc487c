-------------------------------- MODULE Api --------------------------------
(***************************************************************************)
(* The HTTP handlers that change state: SubmitJob and CancelJob, and what  *)
(* GetJob answers (internal/api/handler.go).  A SubmitJob call that passes *)
(* validation draws a fresh UUID, so its goroutine is named by that job;   *)
(* CancelJob calls are made by the goroutines in Cancellers, each of which *)
(* serves one request after the other.                                     *)
(***************************************************************************)
EXTENDS WorkerPool

CONSTANTS
  Cancellers,              \* goroutines that serve cancel requests
  RequireIdempotencyKey,   \* REQUIRE_IDEMPOTENCY_KEY
  DefaultWebhookURL,       \* WEBHOOK_URL: "none", "valid" or "invalid"
  Callbacks,               \* the kinds of callback_url that clients send
  MaxInvalid               \* bound on the invalid requests of a behaviour

ASSUME ApiAssumption ==
  /\ RequireIdempotencyKey \in BOOLEAN
  /\ {DefaultWebhookURL} \cup Callbacks \subseteq {"none", "valid", "invalid"}
  /\ MaxInvalid \in Nat

VARIABLES
  spc,     \* job -> where its SubmitJob goroutine is
  reply,   \* job -> what SubmitJob answered
  cpc,     \* canceller -> where its CancelJob goroutine is
  cjob,    \* canceller -> the job it is asked to cancel
  ccopy    \* canceller -> the copy of the record Cancel's Get returned

apiVars == <<spc, reply, cpc, cjob, ccopy>>

Reply == [code : {"none", "accepted", "idempotent", "queue_full"},
          job : Jobs \cup {NoJob}]

ApiTypeOK ==
  /\ spc \in [Jobs -> {"idle", "init", "push", "rollback", "count", "done"}]
  /\ reply \in [Jobs -> Reply]
  /\ cpc \in [Cancellers -> {"idle", "write", "signal"}]
  /\ cjob \in [Cancellers -> Jobs \cup {NoJob}]
  /\ ccopy \in [Cancellers -> JobResult]

ApiInit ==
  /\ spc = [j \in Jobs |-> "idle"]
  /\ reply = [j \in Jobs |-> [code |-> "none", job |-> NoJob]]
  /\ cpc = [c \in Cancellers |-> "idle"]
  /\ cjob = [c \in Cancellers |-> NoJob]
  /\ ccopy = [c \in Cancellers |-> NoResult]

SubmitGoto(j, from, to) ==
  /\ spc[j] = from
  /\ spc' = [spc EXCEPT ![j] = to]

Answer(j, code, id) ==
  reply' = [reply EXCEPT ![j] = [code |-> code, job |-> id]]

\* Push took the job: from here on the service owes it a run.
Accepted(j) == spc[j] = "count" \/ reply[j].code = "accepted"

-----------------------------------------------------------------------------
(* SubmitJob: validation.                                                  *)

Requests == [body : {"malformed", "bad_url", "valid"},
             key : Keys \cup {NoKey},
             callback : Callbacks]

CallbackURL(req) ==
  IF req.callback = "none" THEN DefaultWebhookURL ELSE req.callback

\* The reason SubmitJob rejects a request before it draws a UUID, "" if none.
Rejection(req) ==
  IF req.body = "malformed" THEN "invalid_json"
  ELSE IF req.body = "bad_url" THEN "invalid_url"
  ELSE IF RequireIdempotencyKey /\ req.key = NoKey
    THEN "missing_idempotency_key"
  ELSE IF CallbackURL(req) = "invalid" THEN "invalid_callback_url"
  ELSE ""

InvalidSoFar ==
  SumFunctionOnSet(metrics.rejected, Reasons \ {"queue_full"})

SubmitInvalid(req) ==
  /\ Rejection(req) # ""
  /\ InvalidSoFar < MaxInvalid
  /\ JobRejected(Rejection(req))
  /\ UNCHANGED <<storeVars, queueVars, registryVars, workerVars, ctxDone,
                 apiVars>>

-----------------------------------------------------------------------------
(* SubmitJob: reserve the key, write the pending record, push.             *)

SubmitReserve(j, req) ==
  /\ Rejection(req) = ""
  /\ SubmitGoto(j, "idle", "init")
  /\ ReserveIdempotencyKey(req.key, j)
  /\ payload' = [payload EXCEPT ![j] =
       [key |-> req.key, callback |-> CallbackURL(req) = "valid"]]
  /\ UNCHANGED <<jobs, registryVars, metrics, workerVars, ctxDone,
                 reply, cpc, cjob, ccopy>>

SubmitIdempotent(j, req) ==
  /\ Rejection(req) = ""
  /\ ~CanReserve(req.key)
  /\ SubmitGoto(j, "idle", "done")
  /\ Answer(j, "idempotent", idempotency[req.key])
  /\ UNCHANGED <<storeVars, queueVars, registryVars, metrics, workerVars,
                 ctxDone, cpc, cjob, ccopy>>

SubmitInit(j) ==
  /\ SubmitGoto(j, "init", "push")
  /\ Set(j, NewResult(payload[j], "pending", "", NoJob))
  /\ UNCHANGED <<queueVars, registryVars, metrics, workerVars, ctxDone,
                 reply, cpc, cjob, ccopy>>

SubmitPush(j) ==
  /\ SubmitGoto(j, "push", "count")
  /\ Push(j)
  /\ UNCHANGED <<storeVars, payload, registryVars, metrics, workerVars,
                 ctxDone, reply, cpc, cjob, ccopy>>

\* Mutant of SubmitHandoff: the send that went through is reported as failed.
SubmitHandoffRefused(j, w) ==
  /\ QueueSize = 0
  /\ SubmitGoto(j, "push", "rollback")
  /\ Take(w, j)
  /\ UNCHANGED <<storeVars, queueVars, registryVars, metrics, ctxDone,
                 reply, cpc, cjob, ccopy>>

\* An unbuffered channel passes the job straight to a worker waiting in Pop.
SubmitHandoff(j, w) ==
  /\ QueueSize = 0
  /\ SubmitGoto(j, "push", "count")
  /\ Take(w, j)
  /\ UNCHANGED <<storeVars, queueVars, registryVars, metrics, ctxDone,
                 reply, cpc, cjob, ccopy>>

SubmitQueueFull(j) ==
  /\ ~HasRoom
  /\ SubmitGoto(j, "push", "rollback")
  /\ UNCHANGED <<storeVars, queueVars, registryVars, metrics, workerVars,
                 ctxDone, reply, cpc, cjob, ccopy>>

SubmitRollback(j) ==
  /\ SubmitGoto(j, "rollback", "done")
  /\ Delete(j)
  /\ JobRejected("queue_full")
  /\ Answer(j, "queue_full", NoJob)
  /\ UNCHANGED <<queueVars, registryVars, workerVars, ctxDone,
                 cpc, cjob, ccopy>>

SubmitAccept(j) ==
  /\ SubmitGoto(j, "count", "done")
  /\ JobSubmitted
  /\ Answer(j, "accepted", j)
  /\ UNCHANGED <<storeVars, queueVars, registryVars, workerVars, ctxDone,
                 cpc, cjob, ccopy>>

SubmitStep(j) ==
  \/ SubmitInit(j) \/ SubmitPush(j) \/ \E w \in Workers : SubmitHandoff(j, w)
  \/ SubmitQueueFull(j) \/ SubmitRollback(j) \/ SubmitAccept(j)

-----------------------------------------------------------------------------
(* CancelJob: storage.Cancel reads the record under one lock and writes it *)
(* back under another; then the render context is canceled, whatever       *)
(* storage.Cancel found.                                                   *)

CancelGoto(c, from, to) ==
  /\ cpc[c] = from
  /\ cpc' = [cpc EXCEPT ![c] = to]

\* Mutant of Cancelable: storage.Cancel does not look at the status.
CancelableAlways(result) == result.status # "none"

\* storage.Cancel writes only over a pending or processing record.
Cancelable(result) == result.status \in {"pending", "processing"}

CancelRead(c, j) ==
  /\ CancelGoto(c, "idle", IF Cancelable(results[j]) THEN "write" ELSE "signal")
  /\ cjob' = [cjob EXCEPT ![c] = j]
  /\ ccopy' = [ccopy EXCEPT ![c] =
                 IF Cancelable(results[j]) THEN results[j] ELSE NoResult]
  /\ UNCHANGED <<storeVars, queueVars, registryVars, metrics, workerVars,
                 ctxDone, spc, reply>>

\* Mutant of CancelWrite: canceling removes the record.
CancelDeletes(c) ==
  /\ CancelGoto(c, "write", "signal")
  /\ Delete(cjob[c])
  /\ ccopy' = [ccopy EXCEPT ![c] = NoResult]
  /\ UNCHANGED <<queueVars, registryVars, metrics, workerVars, ctxDone,
                 spc, reply, cjob>>

CancelWrite(c) ==
  /\ CancelGoto(c, "write", "signal")
  /\ Set(cjob[c], [ccopy[c] EXCEPT !.status = "canceled",
                                   !.error = "job canceled"])
  /\ ccopy' = [ccopy EXCEPT ![c] = NoResult]
  /\ UNCHANGED <<queueVars, registryVars, metrics, workerVars, ctxDone,
                 spc, reply, cjob>>

CancelSignal(c) ==
  /\ CancelGoto(c, "signal", "idle")
  /\ CancelContext(cjob[c])
  /\ cjob' = [cjob EXCEPT ![c] = NoJob]
  /\ UNCHANGED <<storeVars, queueVars, metrics, workerVars, ctxDone,
                 spc, reply, ccopy>>

CancelStep(c) == CancelWrite(c) \/ CancelSignal(c)

-----------------------------------------------------------------------------
(* GetJob changes nothing.  It reads the record and then the blob; no      *)
(* component removes a blob, so reading both at once loses no answer.      *)

GetJob(j) ==
  IF ~Exists(j) THEN "job_not_found"
  ELSE IF results[j].status # "completed" THEN results[j].status
  ELSE IF results[j].pdfKey \in blobs THEN "pdf"
  ELSE "pdf_not_found"
=============================================================================
