----------------------------- MODULE WorkerPool -----------------------------
(***************************************************************************)
(* The worker pool (internal/worker/worker.go) over the memory queue and   *)
(* the memory store.  A worker goroutine repeats Pop, processJob, Ack (Ack *)
(* is a no-op for the memory queue).  Each action is the code from one     *)
(* access of shared state up to the next one, so the actions of different  *)
(* workers and of the HTTP handlers interleave exactly where the           *)
(* goroutines can.                                                         *)
(*                                                                         *)
(* The renderer is nondeterministic: an attempt may succeed or fail, and   *)
(* one whose context is done may still have succeeded just before.  The    *)
(* blob store may refuse a Put (the S3 backend can).                       *)
(***************************************************************************)
EXTENDS MemoryStorage, MemoryQueue, CancellationRegistry, Metrics

CONSTANT RenderMaxRetries   \* RENDER_MAX_RETRIES after clamping at zero

ASSUME RetriesAssumption == RenderMaxRetries \in Nat

VARIABLES
  wpc,       \* worker -> where its goroutine is
  wjob,      \* worker -> the job it popped, NoJob between jobs
  attempt,   \* worker -> attempt of generateWithRetries
  werr,      \* worker -> error processJob is about to report, "" for none
  blobs,     \* the keys present in the blob store
  hooks,     \* job -> statuses its callback URL received, oldest first
  ctxDone    \* the context handed to Pool.Start is canceled

workerVars == <<wpc, wjob, attempt, werr, blobs, hooks>>
poolVars == <<storeVars, queueVars, registryVars, metrics, workerVars, ctxDone>>

\* "check" .. "finish" are the points of processJob between two accesses.
InJob == {"check", "mark", "register", "render", "backoff", "errcheck",
          "fail", "okcheck", "put", "complete", "notify", "finish"}

PoolTypeOK ==
  /\ wpc \in [Workers -> InJob \cup {"pop", "stopped"}]
  /\ wjob \in [Workers -> Jobs \cup {NoJob}]
  /\ attempt \in [Workers -> 0..(RenderMaxRetries + 1)]
  /\ werr \in [Workers -> Errors]
  /\ blobs \subseteq Jobs
  /\ hooks \in [Jobs -> Seq({"completed", "failed"})]
  /\ ctxDone \in BOOLEAN

PoolInit ==
  /\ wpc = [w \in Workers |-> "pop"]
  /\ wjob = [w \in Workers |-> NoJob]
  /\ attempt = [w \in Workers |-> 0]
  /\ werr = [w \in Workers |-> ""]
  /\ blobs = {}
  /\ hooks = [j \in Jobs |-> <<>>]
  /\ ctxDone = FALSE

Goto(w, from, to) ==
  /\ wpc[w] = from
  /\ wpc' = [wpc EXCEPT ![w] = to]

\* jobCtx is a child of the pool's context.
JobCtxDone(w) == jobCtx[w] \/ ctxDone

Write(w, status, error, pdfKey) ==
  Set(wjob[w], NewResult(payload[wjob[w]], status, error, pdfKey))

-----------------------------------------------------------------------------
(* worker: Pop.  Go's select takes either ready case, so a worker may take *)
(* one more job although its context is done.                              *)

Take(w, j) ==
  /\ Goto(w, "pop", "check")
  /\ wjob' = [wjob EXCEPT ![w] = j]
  /\ UNCHANGED <<attempt, werr, blobs, hooks>>

PopJob(w) ==
  /\ \E j \in Jobs : Receive(j) /\ Take(w, j)
  /\ UNCHANGED <<storeVars, payload, registryVars, metrics, ctxDone>>

PopStop(w) ==
  /\ ctxDone
  /\ Goto(w, "pop", "stopped")
  /\ UNCHANGED <<storeVars, queueVars, registryVars, metrics, ctxDone,
                 wjob, attempt, werr, blobs, hooks>>

-----------------------------------------------------------------------------
(* processJob up to the render.                                            *)

CheckSkip(w) ==
  /\ Goto(w, "check", "pop")
  /\ IsCanceled(wjob[w])
  /\ wjob' = [wjob EXCEPT ![w] = NoJob]
  /\ UNCHANGED <<storeVars, queueVars, registryVars, metrics, ctxDone,
                 attempt, werr, blobs, hooks>>

CheckGo(w) ==
  /\ Goto(w, "check", "mark")
  /\ ~IsCanceled(wjob[w])
  /\ UNCHANGED <<storeVars, queueVars, registryVars, metrics, ctxDone,
                 wjob, attempt, werr, blobs, hooks>>

MarkProcessing(w) ==
  /\ Goto(w, "mark", "register")
  /\ Write(w, "processing", "", NoJob)
  /\ UNCHANGED <<queueVars, registryVars, metrics, ctxDone,
                 wjob, attempt, werr, blobs, hooks>>

RegisterJob(w) ==
  /\ Goto(w, "register", "render")
  /\ Register(wjob[w], w)
  /\ attempt' = [attempt EXCEPT ![w] = 1]
  /\ UNCHANGED <<storeVars, queueVars, metrics, ctxDone,
                 wjob, werr, blobs, hooks>>

-----------------------------------------------------------------------------
(* generateWithRetries.                                                    *)

RenderOK(w) ==
  /\ Goto(w, "render", "okcheck")
  /\ UNCHANGED <<storeVars, queueVars, registryVars, metrics, ctxDone,
                 wjob, attempt, werr, blobs, hooks>>

\* The errors GeneratePDF can return now.
RenderErrors(w) ==
  {"render"} \cup (IF JobCtxDone(w) THEN {"context canceled"} ELSE {})

\* Mutant of LastAttempt: one attempt too many.
LastAttemptLate(w) == JobCtxDone(w) \/ attempt[w] = RenderMaxRetries + 2

LastAttempt(w) == JobCtxDone(w) \/ attempt[w] = RenderMaxRetries + 1

RenderGiveUp(w) ==
  /\ Goto(w, "render", "errcheck")
  /\ LastAttempt(w)
  /\ \E err \in RenderErrors(w) : werr' = [werr EXCEPT ![w] = err]
  /\ UNCHANGED <<storeVars, queueVars, registryVars, metrics, ctxDone,
                 wjob, attempt, blobs, hooks>>

RenderRetry(w) ==
  /\ Goto(w, "render", "backoff")
  /\ ~LastAttempt(w)
  /\ UNCHANGED <<storeVars, queueVars, registryVars, metrics, ctxDone,
                 wjob, attempt, werr, blobs, hooks>>

\* Mutant of BackoffElapsed: the attempts are not counted.
BackoffUncounted(w) ==
  /\ Goto(w, "backoff", "render")
  /\ UNCHANGED <<storeVars, queueVars, registryVars, metrics, ctxDone,
                 wjob, attempt, werr, blobs, hooks>>

BackoffElapsed(w) ==
  /\ Goto(w, "backoff", "render")
  /\ attempt' = [attempt EXCEPT ![w] = @ + 1]
  /\ UNCHANGED <<storeVars, queueVars, registryVars, metrics, ctxDone,
                 wjob, werr, blobs, hooks>>

BackoffCanceled(w) ==
  /\ Goto(w, "backoff", "errcheck")
  /\ JobCtxDone(w)
  /\ werr' = [werr EXCEPT ![w] = "context canceled"]
  /\ UNCHANGED <<storeVars, queueVars, registryVars, metrics, ctxDone,
                 wjob, attempt, blobs, hooks>>

-----------------------------------------------------------------------------
(* processJob after a failed render.                                       *)

\* A canceled job: notify does nothing for status "canceled".
Discard(w, from) ==
  /\ Goto(w, from, "finish")
  /\ IsCanceled(wjob[w])
  /\ werr' = [werr EXCEPT ![w] = ""]
  /\ RenderFinished("canceled")
  /\ UNCHANGED <<storeVars, queueVars, registryVars, ctxDone,
                 wjob, attempt, blobs, hooks>>

ErrCanceled(w) == Discard(w, "errcheck")

StatusErr(w) ==
  IF werr[w] = "context canceled" /\ ctxDone THEN "interrupted" ELSE werr[w]

\* Mutant of ErrFailed: a canceled context is taken for a canceled record.
ErrFailedTrusting(w) ==
  /\ Goto(w, "errcheck", IF werr[w] = "context canceled" THEN "finish" ELSE "fail")
  /\ ~IsCanceled(wjob[w])
  /\ RenderFinished("failed")
  /\ UNCHANGED <<storeVars, queueVars, registryVars, ctxDone,
                 wjob, attempt, werr, blobs, hooks>>

ErrFailed(w) ==
  /\ Goto(w, "errcheck", "fail")
  /\ ~IsCanceled(wjob[w])
  /\ werr' = [werr EXCEPT ![w] = StatusErr(w)]
  /\ RenderFinished("failed")
  /\ UNCHANGED <<storeVars, queueVars, registryVars, ctxDone,
                 wjob, attempt, blobs, hooks>>

\* Mutant of MarkFailed: the failure is counted a second time.
MarkFailedRecounts(w) ==
  /\ Goto(w, "fail", "notify")
  /\ Write(w, "failed", werr[w], NoJob)
  /\ RenderFinished("failed")
  /\ UNCHANGED <<queueVars, registryVars, ctxDone,
                 wjob, attempt, werr, blobs, hooks>>

MarkFailed(w) ==
  /\ Goto(w, "fail", "notify")
  /\ Write(w, "failed", werr[w], NoJob)
  /\ UNCHANGED <<queueVars, registryVars, metrics, ctxDone,
                 wjob, attempt, werr, blobs, hooks>>

-----------------------------------------------------------------------------
(* processJob after a successful render.                                   *)

OkCanceled(w) == Discard(w, "okcheck")

\* Mutant of OkStore: the record is not looked at again after the render.
OkStoreUnchecked(w) ==
  /\ Goto(w, "okcheck", "put")
  /\ UNCHANGED <<storeVars, queueVars, registryVars, metrics, ctxDone,
                 wjob, attempt, werr, blobs, hooks>>

OkStore(w) ==
  /\ Goto(w, "okcheck", "put")
  /\ ~IsCanceled(wjob[w])
  /\ UNCHANGED <<storeVars, queueVars, registryVars, metrics, ctxDone,
                 wjob, attempt, werr, blobs, hooks>>

\* blob.Store.Put under the key made from job j, overwriting what is there.
PutBlob(j) == blobs' = blobs \cup {j}

PutOK(w) ==
  /\ Goto(w, "put", "complete")
  /\ PutBlob(wjob[w])
  /\ UNCHANGED <<storeVars, queueVars, registryVars, metrics, ctxDone,
                 wjob, attempt, werr, hooks>>

\* Mutants of PutFailed: the error is ignored; it is not kept for the report.
PutFailedIgnored(w) ==
  /\ Goto(w, "put", "complete")
  /\ UNCHANGED <<storeVars, queueVars, registryVars, metrics, ctxDone,
                 wjob, attempt, werr, blobs, hooks>>

PutFailedSilent(w) ==
  /\ Goto(w, "put", "fail")
  /\ RenderFinished("failed")
  /\ UNCHANGED <<storeVars, queueVars, registryVars, ctxDone,
                 wjob, attempt, werr, blobs, hooks>>

\* A Put that reports an error may have stored the object all the same.
PutFailed(w) ==
  /\ Goto(w, "put", "fail")
  /\ PutBlob(wjob[w]) \/ UNCHANGED blobs
  /\ werr' = [werr EXCEPT ![w] = "blob"]
  /\ RenderFinished("failed")
  /\ UNCHANGED <<storeVars, queueVars, registryVars, ctxDone,
                 wjob, attempt, hooks>>

MarkCompleted(w) ==
  /\ Goto(w, "complete", "notify")
  /\ Write(w, "completed", "", wjob[w])
  /\ RenderFinished("completed")
  /\ UNCHANGED <<queueVars, registryVars, ctxDone,
                 wjob, attempt, werr, blobs, hooks>>

-----------------------------------------------------------------------------
(* notify: one POST, no retry, its outcome ignored; then the deferred      *)
(* cancel and unregister, and back to Pop.                                 *)

NotifiedStatus(w) == IF werr[w] = "" THEN "completed" ELSE "failed"

\* Notifier.Notify: the event reaches the callback URL, or it does not and
\* the error is only logged.
PostEvent(j, status) ==
  \/ hooks' = [hooks EXCEPT ![j] = Append(@, status)]
  \/ UNCHANGED hooks

Notify(w) ==
  /\ Goto(w, "notify", "finish")
  /\ IF payload[wjob[w]].callback
       THEN PostEvent(wjob[w], NotifiedStatus(w))
       ELSE UNCHANGED hooks
  /\ werr' = [werr EXCEPT ![w] = ""]
  /\ UNCHANGED <<storeVars, queueVars, registryVars, metrics, ctxDone,
                 wjob, attempt, blobs>>

Finish(w) ==
  /\ Goto(w, "finish", "pop")
  /\ Unregister(wjob[w], w)
  /\ wjob' = [wjob EXCEPT ![w] = NoJob]
  /\ attempt' = [attempt EXCEPT ![w] = 0]
  /\ UNCHANGED <<storeVars, queueVars, metrics, ctxDone, werr, blobs, hooks>>

WorkerStep(w) ==
  \/ PopJob(w) \/ PopStop(w)
  \/ CheckSkip(w) \/ CheckGo(w) \/ MarkProcessing(w) \/ RegisterJob(w)
  \/ RenderOK(w) \/ RenderGiveUp(w) \/ RenderRetry(w)
  \/ BackoffElapsed(w) \/ BackoffCanceled(w)
  \/ ErrCanceled(w) \/ ErrFailed(w) \/ MarkFailed(w)
  \/ OkCanceled(w) \/ OkStore(w) \/ PutOK(w) \/ PutFailed(w)
  \/ MarkCompleted(w) \/ Notify(w) \/ Finish(w)
=============================================================================
